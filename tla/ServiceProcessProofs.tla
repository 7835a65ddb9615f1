------------------------ MODULE ServiceProcessProofs ------------------------
(***************************************************************************)
(* Proofs about the processes of the payment service, for every            *)
(* environment, timeout, number of requests and size of the pool.          *)
(***************************************************************************)
EXTENDS ServiceProcess, TLAPS

(* What is left of the longest time a request may take.                     *)
Remaining(q) ==
    IF q.step = "admit" THEN Allowance(q.input)
    ELSE IF q.step = "body" THEN q.left + Timeout(q.input.route) ELSE q.left
Spent(q) == Allowance(q.input) - Remaining(q)

(* A request, step by step: which process serves it, how its deadlines      *)
(* relate to the write deadline and to the shutdown, and why it was lost.   *)
ReqOK(q) ==
    /\ q.step # "idle" =>
          q.input \in Inputs /\ phase \in {"run", "closing", "exited"} /\ kind # "reconciler"
    /\ q.step \in {"body", "acquire", "query"} => kind = "api"
    /\ q.step = "admit" =>
          q.left = ReadTimeout /\ (kind # "api" => q.input.route \in {"healthz", "metrics"})
    /\ q.step = "body" => HasBody(q.input.route) /\ q.left <= ReadTimeout
    /\ q.step \in {"acquire", "query"} =>
          UsesDatabase(q.input.route) /\ q.left <= Timeout(q.input.route)
    /\ q.step \in Active =>
          /\ srv # "bind" /\ (srv = "returned" => failed)
          /\ WriteTimeout - q.write <= Spent(q)
          /\ srv = "draining" => ShutdownTimeout - drain <= Spent(q)
          /\ forced => Allowance(q.input) >= ShutdownTimeout
    /\ q.step = "cut" =>
          failed /\ (IF forced THEN Allowance(q.input) >= ShutdownTimeout ELSE phase = "exited")
    /\ q.step = "unsent" => Allowance(q.input) >= WriteTimeout

(* run(): what each phase has established.                                  *)
PhaseOK ==
    /\ phase \in {"construct", "run", "closing"} => Loads(kind, env)
    /\ phase \in {"load", "construct"} => srv = "bind" /\ worker = "none" /\ ~failed /\ ~forced
    /\ phase \in {"load", "construct", "run"} => code = Absent
    /\ code = 0 => ~failed /\ srv = "returned"
    /\ phase = "closing" => srv = "returned"
    /\ phase \in {"closing", "exited"} => worker \in Returned /\ srv \in {"bind", "returned"}

(* The server and the worker: what stops them.                              *)
StopOK ==
    /\ forced => failed /\ srv = "returned"
    /\ worker = "failed" => failed
    /\ srv = "draining" => ContextDone
    /\ srv = "returned" /\ ~failed => signalled \/ kind = "reconciler"
    /\ kind = "reconciler" => srv \in {"bind", "returned"} /\ (phase = "run" => srv = "returned")
    /\ worker = "job" => kind = "reconciler"
    /\ kind \in Workers /\ phase = "run" => worker # "none"
    /\ worker \in {"commit"} \cup Closing => kind = "consumer"
    /\ kind \in Workers /\ worker \in {"stopped", "close"} => ContextDone

IInv == TypeOK /\ PhaseOK /\ StopOK /\ \A r \in Requests : ReqOK(req[r])

----------------------------------------------------------------------------
(* Configuration.                                                           *)

(* A duration that was accepted is a positive integer.                      *)
LEMMA DurationPositive ==
    ASSUME NEW k \in Kinds, NEW e \in Environments[k], Common(k, e), NEW d \in Durations[k]
    PROVE  value(e, d) \in Nat /\ value(e, d) > 0
<1>1. e[d] \in Int \cup {Absent, Malformed} /\ DOMAIN e = Keys
  BY EnvironmentAssumption
<1>2. duration(e, d)
  BY DEF Common
<1>3. d \in {"READINESS_TIMEOUT", "PAYMENT_CREATE_TIMEOUT", "REVIEW_REQUEST_TIMEOUT",
             "DASHBOARD_REQUEST_TIMEOUT", "METRICS_COLLECTION_TIMEOUT",
             "RECONCILIATION_GRACE_PERIOD", "SHUTDOWN_TIMEOUT",
             "OUTBOX_POLL_INTERVAL", "OUTBOX_PUBLISH_TIMEOUT", "OUTBOX_RETRY_MIN_BACKOFF",
             "OUTBOX_RETRY_MAX_BACKOFF", "METRICS_SHUTDOWN_TIMEOUT",
             "DECISION_POLL_TIMEOUT", "DECISION_PROCESS_TIMEOUT",
             "DECISION_RETRY_BACKOFF", "RECONCILIATION_TIMEOUT"}
  BY DEF Kinds, Durations
<1>4. Defaults[d] \in Int
  <2>1. /\ Defaults["READINESS_TIMEOUT"] \in Int /\ Defaults["PAYMENT_CREATE_TIMEOUT"] \in Int
        /\ Defaults["REVIEW_REQUEST_TIMEOUT"] \in Int /\ Defaults["DASHBOARD_REQUEST_TIMEOUT"] \in Int
        /\ Defaults["METRICS_COLLECTION_TIMEOUT"] \in Int /\ Defaults["RECONCILIATION_GRACE_PERIOD"] \in Int
        /\ Defaults["SHUTDOWN_TIMEOUT"] \in Int /\ Defaults["OUTBOX_POLL_INTERVAL"] \in Int
        /\ Defaults["OUTBOX_PUBLISH_TIMEOUT"] \in Int /\ Defaults["OUTBOX_RETRY_MIN_BACKOFF"] \in Int
        /\ Defaults["OUTBOX_RETRY_MAX_BACKOFF"] \in Int /\ Defaults["METRICS_SHUTDOWN_TIMEOUT"] \in Int
        /\ Defaults["DECISION_POLL_TIMEOUT"] \in Int /\ Defaults["DECISION_PROCESS_TIMEOUT"] \in Int
        /\ Defaults["DECISION_RETRY_BACKOFF"] \in Int /\ Defaults["RECONCILIATION_TIMEOUT"] \in Int
    BY DEF Defaults
  <2> QED
    BY <1>3, <2>1
<1>5. value(e, d) \in Int
  BY <1>1, <1>2, <1>4 DEF value, duration
<1> QED
  BY <1>2, <1>5 DEF duration

(* What the loaders check covers what the constructors check.               *)
LEMMA LoadedConstructs ==
    ASSUME NEW k \in Kinds, NEW e \in Environments[k], Loads(k, e)
    PROVE  Constructs(k, e)
<1>1. CASE k = "api"
  <2>1. load(e) /\ Common("api", e)
    BY <1>1 DEF Loads, load
  <2>2. value(e, "RECONCILIATION_GRACE_PERIOD") > 0
    BY <1>1, <2>1 DEF Common, Durations, duration
  <2> QED
    BY <1>1, <2>1, <2>2 DEF load, Constructs, parseReviewCredentials, NewReconciler
<1>2. CASE k = "publisher"
  <2>1. loadPublisher(e) /\ Common("publisher", e)
    BY <1>2 DEF Loads, loadPublisher
  <2>2. \A d \in Durations["publisher"] : value(e, d) > 0
    BY <2>1 DEF Common, duration
  <2>3. /\ value(e, "OUTBOX_RETRY_MIN_BACKOFF") > 0 /\ value(e, "OUTBOX_POLL_INTERVAL") > 0
        /\ value(e, "OUTBOX_PUBLISH_TIMEOUT") > 0
    BY <2>2 DEF Durations
  <2>4. /\ Brokers(value(e, "KAFKA_BROKERS")) # <<>>
        /\ value(e, "OUTBOX_RETRY_MAX_BACKOFF") >= value(e, "OUTBOX_RETRY_MIN_BACKOFF")
    BY <2>1 DEF loadPublisher, parseKafkaBrokers
  <2> QED
    BY <1>2, <2>3, <2>4 DEF Constructs, NewKafkaPublisher, NewOutboxStore, NewOutboxWorker
<1>3. CASE k = "consumer"
  <2>1. loadDecisionConsumer(e) /\ Common("consumer", e)
    BY <1>3 DEF Loads, loadDecisionConsumer
  <2>2. \A d \in Durations["consumer"] : value(e, d) > 0
    BY <2>1 DEF Common, duration
  <2>3. NewDecisionWorker(e)
    BY <2>2 DEF Durations, NewDecisionWorker
  <2>4. NewKafkaConsumer(e)
    BY <2>1 DEF loadDecisionConsumer, parseKafkaBrokers, NewKafkaConsumer
  <2> QED
    BY <1>3, <2>3, <2>4 DEF Constructs
<1>4. CASE k = "reconciler"
  <2>1. Common("reconciler", e)
    BY <1>4 DEF Loads, loadReconciler
  <2>2. value(e, "RECONCILIATION_GRACE_PERIOD") > 0
    BY <1>4, <2>1 DEF Common, Durations, duration
  <2> QED
    BY <1>4, <2>2 DEF Constructs, NewReconciler
<1> QED
  BY <1>1, <1>2, <1>3, <1>4 DEF Kinds

(* With credentials that NewTokenAuthenticator accepts, a token identifies  *)
(* the credential it belongs to.                                            *)
LEMMA TokenPrincipal ==
    ASSUME NEW c \in Seq([reviewer : RawIds, role : RawRoles, token : Tokens \cup {Malformed}]),
           NewTokenAuthenticator(c), NEW i \in DOMAIN c
    PROVE  /\ Authenticate(c, c[i].token) = Principal(c[i])
           /\ \A j \in DOMAIN c : Principal(c[j]).reviewer = Principal(c[i]).reviewer => i = j
<1> DEFINE match == {m \in DOMAIN c : c[m].token = c[i].token}
<1>1. i \in Nat
  OBVIOUS
<1>2. match = {i}
  BY DEF NewTokenAuthenticator
<1>3. c[i].token # Malformed
  BY MarkerAssumption DEF NewTokenAuthenticator
<1>4. (CHOOSE m \in match : \A j \in match : j <= m) = i
  <2>1. \E m \in match : \A j \in match : j <= m
    BY <1>1, <1>2
  <2> QED
    BY <1>2, <2>1
<1>5. Authenticate(c, c[i].token) = Principal(c[i])
  BY <1>2, <1>3, <1>4 DEF Authenticate
<1>6. \A j \in DOMAIN c : Principal(c[j]).reviewer = Principal(c[i]).reviewer => i = j
  BY DEF NewTokenAuthenticator, Principal
<1> QED
  BY <1>5, <1>6

----------------------------------------------------------------------------
(* Timeouts.                                                                *)

(* The timeouts of a running API are positive integers.                     *)
LEMMA TimeoutNat ==
    ASSUME kind = "api", env \in Environments["api"], Loads(kind, env), NEW route \in Routes
    PROVE  Timeout(route) \in Nat
<1>1. Common("api", env)
  BY DEF Loads, load
<1>2. \A d \in Durations["api"] : Setting(d) \in Nat
  BY <1>1, DurationPositive DEF Kinds, Setting
<1> QED
  BY <1>2 DEF Timeout, Durations, Routes

(* The shutdown timeout of a running server is a number.                    *)
LEMMA ShutdownNat ==
    ASSUME kind \in {"api", "publisher", "consumer"}, env \in Environments[kind], Loads(kind, env)
    PROVE  ShutdownTimeout \in Nat
<1>1. Common(kind, env)
  BY DEF Loads, load, loadPublisher, loadDecisionConsumer
<1>2. \A d \in Durations[kind] : Setting(d) \in Nat
  BY <1>1, DurationPositive DEF Kinds, Setting
<1> QED
  BY <1>2 DEF ShutdownTimeout, Durations

(* What a request may take depends on the kind of the process and its       *)
(* environment only.                                                        *)
LEMMA AllowanceNat ==
    ASSUME IInv, NEW in \in Inputs, phase \in {"run", "closing"}
    PROVE  /\ Allowance(in) \in Nat
           /\ in.route \in Routes
           /\ kind = "api" => Timeout(in.route) \in Nat
           /\ kind # "reconciler" => ShutdownTimeout \in Nat
<1>1. kind \in Kinds /\ env \in Environments[kind] /\ Loads(kind, env)
  BY DEF IInv, TypeOK, PhaseOK
<1>2. in.route \in Routes
  BY InputAssumption
<1>3. kind = "api" => Timeout(in.route) \in Nat
  BY <1>1, <1>2, TimeoutNat
<1>4. kind # "reconciler" => ShutdownTimeout \in Nat
  BY <1>1, ShutdownNat DEF Kinds
<1>5. Allowance(in) \in Nat
  BY <1>3, ProcessAssumption DEF Allowance, UsesDatabase
<1> QED
  BY <1>2, <1>3, <1>4, <1>5

(* Timeouts are settings, which never change.                               *)
LEMMA TimesFixed ==
    ASSUME kind' = kind, env' = env
    PROVE  /\ ShutdownTimeout' = ShutdownTimeout
           /\ \A t : Timeout(t)' = Timeout(t) /\ UsesDatabase(t)' = UsesDatabase(t)
           /\ \A t : Allowance(t)' = Allowance(t)
           /\ \A q : Spent(q)' = Spent(q)
<1>1. ShutdownTimeout' = ShutdownTimeout
  BY DEF ShutdownTimeout, Setting
<1>2. \A t : Timeout(t)' = Timeout(t) /\ UsesDatabase(t)' = UsesDatabase(t)
  BY DEF Timeout, Setting, UsesDatabase
<1>3. \A t : Allowance(t)' = Allowance(t)
  BY <1>2 DEF Allowance
<1>4. \A q : Spent(q)' = Spent(q)
  BY <1>2, <1>3 DEF Spent, Remaining
<1> QED
  BY <1>1, <1>2, <1>3, <1>4

----------------------------------------------------------------------------
(* A handler changes its own request only.                                  *)
LEMMA HandlerChanges ==
    ASSUME IInv, NEW r \in Requests, NEW q \in Request, ReqOK(q),
           req' = [req EXCEPT ![r] = q], UNCHANGED Others
    PROVE  IInv'
<1>1. /\ kind' = kind /\ env' = env /\ phase' = phase /\ code' = code /\ signalled' = signalled
      /\ srv' = srv /\ drain' = drain /\ forced' = forced /\ failed' = failed
      /\ worker' = worker /\ held' = held
  BY DEF Others, process, server, loop
<1>2. TypeOK'
  <2>1. req' \in [Requests -> Request]
    BY DEF IInv, TypeOK
  <2> QED
    BY <1>1, <2>1 DEF IInv, TypeOK
<1>3. PhaseOK' /\ StopOK'
  BY <1>1 DEF IInv, PhaseOK, StopOK, ContextDone
<1>4. \A s \in Requests : ReqOK(req[s])'
  <2> SUFFICES ASSUME NEW s \in Requests PROVE ReqOK(req[s])'
    OBVIOUS
  <2>1. req'[s] = IF s = r THEN q ELSE req[s]
    BY DEF IInv, TypeOK
  <2>2. ReqOK(req'[s])
    BY <2>1 DEF IInv
  <2> QED
    BY <1>1, <2>2, TimesFixed DEF ReqOK
<1> QED
  BY <1>2, <1>3, <1>4 DEF IInv

(* What the other parts of the process must respect for the requests.       *)
LEMMA RequestsKept ==
    ASSUME IInv, kind' = kind, env' = env, req' = req,
           phase \in {"run", "closing", "exited"} => phase' \in {"run", "closing", "exited"},
           phase = "exited" => phase' = "exited",
           failed => failed',
           \A r \in Requests : req[r].step = "cut" => forced' = forced,
           \A r \in Requests : req[r].step \in Active =>
              /\ srv' # "bind" /\ (srv' = "returned" => failed')
              /\ srv' = "draining" => ShutdownTimeout - drain' <= Spent(req[r])
              /\ forced' => Allowance(req[r].input) >= ShutdownTimeout
    PROVE  \A r \in Requests : ReqOK(req[r])'
<1> SUFFICES ASSUME NEW r \in Requests PROVE ReqOK(req[r])'
  OBVIOUS
<1>1. ReqOK(req[r])
  BY DEF IInv
<1> QED
  BY <1>1, TimesFixed DEF ReqOK

(* The marker of a process that has not exited is not an exit code.         *)
LEMMA AbsentCode == Absent # 0 /\ Absent # 1
<1>1. 0 \in Int /\ 1 \in Int
  OBVIOUS
<1> QED
  BY <1>1, MarkerAssumption

(* The time spent never exceeds the time allowed.                           *)
LEMMA SpentBound ==
    ASSUME IInv, NEW r \in Requests, req[r].step \in Active, phase \in {"run", "closing"}
    PROVE  /\ req[r].input \in Inputs /\ Remaining(req[r]) \in Nat
           /\ Allowance(req[r].input) \in Nat
           /\ Spent(req[r]) = Allowance(req[r].input) - Remaining(req[r])
           /\ ShutdownTimeout \in Nat
<1>1. ReqOK(req[r]) /\ req[r] \in Request
  BY DEF IInv, TypeOK
<1>2. req[r].input \in Inputs /\ kind # "reconciler"
  BY <1>1 DEF ReqOK, Active
<1>3. /\ Allowance(req[r].input) \in Nat /\ ShutdownTimeout \in Nat
      /\ kind = "api" => Timeout(req[r].input.route) \in Nat
  BY <1>2, AllowanceNat
<1>4. Remaining(req[r]) \in Nat
  BY <1>1, <1>3 DEF ReqOK, Remaining, Active, Request, Timers
<1> QED
  BY <1>2, <1>3, <1>4 DEF Spent

(* Nor does the time that is left.                                          *)
LEMMA RemainingBound ==
    ASSUME IInv, NEW r \in Requests, req[r].step \in Active, phase \in {"run", "closing"}
    PROVE  Remaining(req[r]) <= Allowance(req[r].input)
<1>1. ReqOK(req[r]) /\ req[r] \in Request
  BY DEF IInv, TypeOK
<1>2. /\ Allowance(req[r].input) \in Nat /\ Remaining(req[r]) \in Nat
      /\ kind = "api" => Timeout(req[r].input.route) \in Nat
  BY SpentBound, AllowanceNat
<1>3. CASE req[r].step = "admit"
  BY <1>2, <1>3 DEF Remaining
<1>4. CASE req[r].step = "body"
  <2>1. HasBody(req[r].input.route) /\ UsesDatabase(req[r].input.route)
    BY <1>1, <1>4 DEF ReqOK, HasBody, UsesDatabase
  <2> QED
    BY <1>1, <1>2, <1>4, <2>1, ProcessAssumption DEF ReqOK, Remaining, Allowance, Request, Timers
<1>5. CASE req[r].step \in {"acquire", "query"}
  BY <1>1, <1>2, <1>5, ProcessAssumption DEF ReqOK, Remaining, Allowance, Request, Timers
<1> QED
  BY <1>3, <1>4, <1>5 DEF Active

----------------------------------------------------------------------------
(* The steps of run(), the server and the worker.                           *)

(* LoadConfig: only an environment that loads is kept.                      *)
LEMMA LoadConfigStep ==
    ASSUME IInv, LoadConfig
    PROVE  IInv'
<1> USE DEF process, server, loop
<1>1. TypeOK'
  BY DEF LoadConfig, IInv, TypeOK, ExitEarly
<1>2. PhaseOK' /\ StopOK'
  BY DEF LoadConfig, IInv, TypeOK, PhaseOK, StopOK, ContextDone, Workers, Returned, Closing, ExitEarly
<1>3. \A r \in Requests : ReqOK(req[r])'
  BY RequestsKept DEF LoadConfig, IInv, TypeOK, ReqOK, PhaseOK, StopOK, ExitEarly
<1> QED
  BY <1>1, <1>2, <1>3 DEF IInv

(* Construct: nothing was started before it.                                *)
LEMMA ConstructStep ==
    ASSUME IInv, Construct
    PROVE  IInv'
<1> USE DEF process, server, loop
<1>1. TypeOK'
  BY DEF Construct, IInv, TypeOK, Returned, Closing, Workers, ExitEarly
<1>2. PhaseOK' /\ StopOK'
  BY DEF Construct, IInv, TypeOK, PhaseOK, StopOK, ContextDone, Workers, Returned, Closing, ExitEarly
<1>3. \A r \in Requests : ReqOK(req[r])'
  BY RequestsKept DEF Construct, IInv, TypeOK, ReqOK, PhaseOK, StopOK, ExitEarly
<1> QED
  BY <1>1, <1>2, <1>3 DEF IInv

(* Signal: a context that is done stays done.                               *)
LEMMA SignalStep ==
    ASSUME IInv, Signal
    PROVE  IInv'
<1> USE DEF process, server, loop
<1>1. TypeOK'
  BY DEF Signal, IInv, TypeOK
<1>2. PhaseOK' /\ StopOK'
  BY DEF Signal, IInv, TypeOK, PhaseOK, StopOK, ContextDone, Workers, Returned, Closing
<1>3. \A r \in Requests : ReqOK(req[r])'
  BY RequestsKept DEF Signal, IInv, TypeOK, ReqOK, PhaseOK, StopOK
<1> QED
  BY <1>1, <1>2, <1>3 DEF IInv

(* Listen: a port that cannot be bound is an error.                         *)
LEMMA ListenStep ==
    ASSUME IInv, Listen
    PROVE  IInv'
<1> USE DEF process, server, loop
<1>1. TypeOK'
  BY DEF Listen, IInv, TypeOK
<1>2. PhaseOK' /\ StopOK'
  BY DEF Listen, IInv, TypeOK, PhaseOK, StopOK, ContextDone, Workers, Returned, Closing
<1>3. \A r \in Requests : ReqOK(req[r])'
  BY RequestsKept DEF Listen, IInv, TypeOK, ReqOK, PhaseOK, StopOK
<1> QED
  BY <1>1, <1>2, <1>3 DEF IInv

(* ServeFails: the requests it abandons are abandoned with an error.        *)
LEMMA ServeFailsStep ==
    ASSUME IInv, ServeFails
    PROVE  IInv'
<1> USE DEF process, server, loop
<1>1. TypeOK'
  BY DEF ServeFails, IInv, TypeOK
<1>2. PhaseOK' /\ StopOK'
  BY DEF ServeFails, IInv, TypeOK, PhaseOK, StopOK, ContextDone, Workers, Returned, Closing
<1>3. \A r \in Requests : ReqOK(req[r])'
  BY RequestsKept DEF ServeFails, IInv, TypeOK, ReqOK, PhaseOK, StopOK
<1> QED
  BY <1>1, <1>2, <1>3 DEF IInv

(* Drained: no request is active any more.                                  *)
LEMMA DrainedStep ==
    ASSUME IInv, Drained
    PROVE  IInv'
<1> USE DEF process, server, loop
<1>1. TypeOK'
  BY DEF Drained, IInv, TypeOK
<1>2. PhaseOK' /\ StopOK'
  BY DEF Drained, IInv, TypeOK, PhaseOK, StopOK, ContextDone, Workers, Returned, Closing
<1>3. \A r \in Requests : ReqOK(req[r])'
  BY RequestsKept DEF Drained, IInv, TypeOK, ReqOK, PhaseOK, StopOK
<1> QED
  BY <1>1, <1>2, <1>3 DEF IInv

(* DrainExpires: every active request was allowed the whole shutdown timeout. *)
LEMMA DrainExpiresStep ==
    ASSUME IInv, DrainExpires
    PROVE  IInv'
<1> USE DEF process, server, loop
<1>1. TypeOK'
  BY DEF DrainExpires, IInv, TypeOK
<1>2. PhaseOK' /\ StopOK'
  BY DEF DrainExpires, IInv, TypeOK, PhaseOK, StopOK, ContextDone, Workers, Returned, Closing
<1>3. \A r \in Requests : ReqOK(req[r])'
  <2>1. phase = "run" /\ ~forced
    BY DEF DrainExpires, IInv, PhaseOK, StopOK, TypeOK
  <2>2. ASSUME NEW r \in Requests, req[r].step \in Active
        PROVE  Allowance(req[r].input) >= ShutdownTimeout
    <3>1. ShutdownTimeout - drain <= Spent(req[r]) /\ drain = 0
      BY <2>2 DEF DrainExpires, IInv, ReqOK
    <3> QED
      BY <2>1, <2>2, <3>1, SpentBound
  <2>3. \A r \in Requests : req[r].step # "cut"
    BY <2>1 DEF IInv, ReqOK
  <2> QED
    BY <2>1, <2>2, <2>3, RequestsKept DEF DrainExpires
<1> QED
  BY <1>1, <1>2, <1>3 DEF IInv

(* PollFails: the loop goes on.                                             *)
LEMMA PollFailsStep ==
    ASSUME IInv, PollFails
    PROVE  IInv'
<1> USE DEF process, server, loop
<1>1. TypeOK'
  BY DEF PollFails, IInv, TypeOK, WorkerUnchanged
<1>2. PhaseOK' /\ StopOK'
  BY DEF PollFails, IInv, PhaseOK, StopOK, ContextDone, WorkerUnchanged
<1>3. \A r \in Requests : ReqOK(req[r])'
  BY RequestsKept DEF PollFails, IInv, TypeOK, ReqOK, PhaseOK, StopOK, WorkerUnchanged
<1> QED
  BY <1>1, <1>2, <1>3 DEF IInv

(* StartAttempt                                                             *)
LEMMA StartAttemptStep ==
    ASSUME IInv, StartAttempt
    PROVE  IInv'
<1> USE DEF process, server, loop
<1>1. TypeOK'
  BY DEF StartAttempt, IInv, TypeOK, Returned, Closing, Workers, WorkerUnchanged
<1>2. PhaseOK' /\ StopOK'
  BY DEF StartAttempt, IInv, TypeOK, PhaseOK, StopOK, ContextDone, Workers, Returned, Closing, WorkerUnchanged
<1>3. \A r \in Requests : ReqOK(req[r])'
  BY RequestsKept DEF StartAttempt, IInv, TypeOK, ReqOK, PhaseOK, StopOK, WorkerUnchanged
<1> QED
  BY <1>1, <1>2, <1>3 DEF IInv

(* EndAttempt: the worker stops only under a cancelled context.             *)
LEMMA EndAttemptStep ==
    ASSUME IInv, EndAttempt
    PROVE  IInv'
<1> USE DEF process, server, loop
<1>1. TypeOK'
  BY DEF EndAttempt, AttemptSucceeds, AttemptFails, IInv, TypeOK, Returned, Closing, Workers, WorkerUnchanged
<1>2. PhaseOK' /\ StopOK'
  BY DEF EndAttempt, AttemptSucceeds, AttemptFails, IInv, TypeOK, PhaseOK, StopOK, ContextDone, Workers, Returned, Closing, WorkerUnchanged
<1>3. \A r \in Requests : ReqOK(req[r])'
  BY RequestsKept DEF EndAttempt, AttemptSucceeds, AttemptFails, IInv, TypeOK, ReqOK, PhaseOK, StopOK, WorkerUnchanged
<1> QED
  BY <1>1, <1>2, <1>3 DEF IInv

(* CommitRecord: a failed commit is an error, once the client is closed.    *)
LEMMA CommitRecordStep ==
    ASSUME IInv, CommitRecord
    PROVE  IInv'
<1> USE DEF process, server, loop
<1>1. TypeOK'
  BY DEF CommitRecord, IInv, TypeOK, Returned, Closing, Workers, WorkerUnchanged
<1>2. PhaseOK' /\ StopOK'
  BY DEF CommitRecord, IInv, TypeOK, PhaseOK, StopOK, ContextDone, Workers, Returned, Closing, WorkerUnchanged
<1>3. \A r \in Requests : ReqOK(req[r])'
  BY RequestsKept DEF CommitRecord, IInv, TypeOK, ReqOK, PhaseOK, StopOK, WorkerUnchanged
<1> QED
  BY <1>1, <1>2, <1>3 DEF IInv

(* WorkerStops: only under a cancelled context.                             *)
LEMMA WorkerStopsStep ==
    ASSUME IInv, WorkerStops
    PROVE  IInv'
<1> USE DEF process, server, loop
<1>1. TypeOK'
  BY DEF WorkerStops, IInv, TypeOK, Returned, Closing, Workers, WorkerUnchanged
<1>2. PhaseOK' /\ StopOK'
  BY DEF WorkerStops, IInv, TypeOK, PhaseOK, StopOK, ContextDone, Workers, Returned, Closing, WorkerUnchanged
<1>3. \A r \in Requests : ReqOK(req[r])'
  BY RequestsKept DEF WorkerStops, IInv, TypeOK, ReqOK, PhaseOK, StopOK, WorkerUnchanged
<1> QED
  BY <1>1, <1>2, <1>3 DEF IInv

(* CloseConsumer: an error of the commit becomes the error of Run.          *)
LEMMA CloseConsumerStep ==
    ASSUME IInv, CloseConsumer
    PROVE  IInv'
<1> USE DEF process, server, loop
<1>1. TypeOK'
  BY DEF CloseConsumer, IInv, TypeOK, Returned, Closing, WorkerUnchanged
<1>2. PhaseOK' /\ StopOK'
  <2>1. phase = "run"
    BY DEF CloseConsumer, IInv, TypeOK, PhaseOK, Returned, Closing
  <2>2. code # 0
    BY <2>1, AbsentCode DEF IInv, PhaseOK
  <2> QED
    BY <2>1, <2>2 DEF CloseConsumer, IInv, TypeOK, PhaseOK, StopOK, ContextDone, Workers, Returned, Closing, WorkerUnchanged
<1>3. \A r \in Requests : ReqOK(req[r])'
  BY RequestsKept DEF CloseConsumer, IInv, TypeOK, ReqOK, PhaseOK, StopOK, WorkerUnchanged
<1> QED
  BY <1>1, <1>2, <1>3 DEF IInv

(* EndJob: the reconciler has no server.                                    *)
LEMMA EndJobStep ==
    ASSUME IInv, EndJob
    PROVE  IInv'
<1> USE DEF process, server, loop
<1>1. TypeOK'
  BY DEF EndJob, IInv, TypeOK, Returned, Closing, Workers, WorkerUnchanged
<1>2. PhaseOK' /\ StopOK'
  <2>1. phase = "run"
    BY DEF EndJob, IInv, TypeOK, PhaseOK, Returned
  <2>2. code # 0
    BY <2>1, AbsentCode DEF IInv, PhaseOK
  <2> QED
    BY <2>1, <2>2 DEF EndJob, IInv, TypeOK, PhaseOK, StopOK, ContextDone, Workers, Returned, Closing, WorkerUnchanged
<1>3. \A r \in Requests : ReqOK(req[r])'
  BY RequestsKept DEF EndJob, IInv, TypeOK, ReqOK, PhaseOK, StopOK, WorkerUnchanged
<1> QED
  BY <1>1, <1>2, <1>3 DEF IInv

(* ClosePool: the code is 0 only without an error.                          *)
LEMMA ClosePoolStep ==
    ASSUME IInv, ClosePool
    PROVE  IInv'
<1> USE DEF process, server, loop
<1>1. TypeOK'
  BY DEF ClosePool, IInv, TypeOK
<1>2. PhaseOK' /\ StopOK'
  BY DEF ClosePool, IInv, TypeOK, PhaseOK, StopOK, ContextDone, Workers, Returned, Closing
<1>3. \A r \in Requests : ReqOK(req[r])'
  BY RequestsKept DEF ClosePool, IInv, TypeOK, ReqOK, PhaseOK, StopOK
<1> QED
  BY <1>1, <1>2, <1>3 DEF IInv

(* BeginShutdown: no request has spent less than the time since now.        *)
LEMMA BeginShutdownStep ==
    ASSUME IInv, BeginShutdown
    PROVE  IInv'
<1> USE DEF process, server, loop
<1>1. ShutdownTimeout \in Nat
  BY ShutdownNat DEF BeginShutdown, IInv, TypeOK, PhaseOK, StopOK, Kinds
<1>2. TypeOK'
  BY <1>1 DEF BeginShutdown, IInv, TypeOK, Timers
<1>3. PhaseOK' /\ StopOK'
  BY AbsentCode DEF BeginShutdown, IInv, TypeOK, PhaseOK, StopOK, ContextDone, Workers, Returned, Closing
<1>4. \A r \in Requests : ReqOK(req[r])'
  <2>1. ASSUME NEW r \in Requests, req[r].step \in Active
        PROVE  ShutdownTimeout - drain' <= Spent(req[r])
    <3>1. Remaining(req[r]) <= Allowance(req[r].input)
      BY <2>1, RemainingBound DEF BeginShutdown
    <3> QED
      BY <1>1, <2>1, <3>1, SpentBound DEF BeginShutdown
  <2> QED
    BY <2>1, RequestsKept DEF BeginShutdown, IInv, ReqOK, StopOK
<1> QED
  BY <1>2, <1>3, <1>4 DEF IInv

----------------------------------------------------------------------------
(* The handlers.                                                            *)

(* A handler returns: a lost answer has its reason.                         *)
LEMMA ReplyStep ==
    ASSUME IInv, NEW r \in Requests, req[r].step \in Active, phase # "exited",
           Reply(r), UNCHANGED Others
    PROVE  IInv'
<1> DEFINE q == [req[r] EXCEPT !.left = 0,
                               !.step = IF forced THEN "cut"
                                        ELSE IF req[r].write = 0 THEN "unsent" ELSE "answered"]
<1>1. ReqOK(req[r]) /\ req[r] \in Request
  BY DEF IInv, TypeOK
<1>2. phase \in {"run", "closing"}
  BY <1>1 DEF ReqOK, Active
<1>3. q \in Request /\ q.input = req[r].input /\ q.step \in Ended
  BY <1>1 DEF Request, Timers, Ended
<1>4. req' = [req EXCEPT ![r] = q]
  BY DEF Reply, IInv, TypeOK
<1>5. q.step = "cut" => failed /\ forced /\ Allowance(q.input) >= ShutdownTimeout
  BY <1>1, <1>3 DEF ReqOK, IInv, StopOK
<1>6. q.step = "unsent" => Allowance(q.input) >= WriteTimeout
  <2>1. req[r].write = 0 => WriteTimeout <= Spent(req[r])
    BY <1>1, ProcessAssumption DEF ReqOK
  <2>2. req[r].write = 0 => Allowance(req[r].input) >= WriteTimeout
    BY <1>2, <2>1, SpentBound, ProcessAssumption
  <2> QED
    BY <1>3, <2>2
<1>7. ReqOK(q)
  BY <1>1, <1>3, <1>5, <1>6 DEF ReqOK, Ended, Active
<1> QED
  BY <1>3, <1>4, <1>7, HandlerChanges

(* The database work begins: what was not used of the body's time is spent. *)
LEMMA StartWorkStep ==
    ASSUME IInv, NEW r \in Requests, req[r].step \in {"admit", "body"}, phase # "exited",
           UsesDatabase(req[r].input.route),
           req[r].step = "admit" => ~HasBody(req[r].input.route),
           StartWork(r), UNCHANGED Others
    PROVE  IInv'
<1> DEFINE q == [req[r] EXCEPT !.step = "acquire", !.left = Timeout(req[r].input.route)]
<1>1. ReqOK(req[r]) /\ req[r] \in Request
  BY DEF IInv, TypeOK
<1>2. phase \in {"run", "closing"} /\ kind = "api" /\ req[r].step \in Active
  BY <1>1 DEF ReqOK, Active, UsesDatabase
<1>3. req[r].input \in Inputs /\ Timeout(req[r].input.route) \in Nat
  BY <1>2, SpentBound, AllowanceNat
<1>4. q \in Request /\ q.input = req[r].input /\ q.step = "acquire" /\ q.write = req[r].write
      /\ q.left = Timeout(q.input.route)
  BY <1>1, <1>3 DEF Request, Timers, Active
<1>5. req' = [req EXCEPT ![r] = q]
  BY DEF StartWork, IInv, TypeOK
<1>6. Spent(req[r]) <= Spent(q) /\ Spent(req[r]) \in Int /\ Spent(q) \in Int
  <2>1. CASE req[r].step = "admit"
    BY <1>2, <1>3, <1>4, <2>1, SpentBound, ProcessAssumption DEF Spent, Remaining, Allowance
  <2>2. CASE req[r].step = "body"
    BY <1>1, <1>2, <1>3, <1>4, <2>2, SpentBound, ProcessAssumption DEF Spent, Remaining, Allowance, ReqOK, Request, Timers
  <2> QED
    BY <2>1, <2>2
<1>7. ShutdownTimeout \in Nat /\ drain \in Nat /\ WriteTimeout \in Nat /\ req[r].write \in Nat
  BY <1>1, <1>2, SpentBound, ProcessAssumption DEF IInv, TypeOK, Timers, Request
<1>8. /\ WriteTimeout - q.write <= Spent(q)
      /\ srv = "draining" => ShutdownTimeout - drain <= Spent(q)
  BY <1>1, <1>2, <1>4, <1>6, <1>7 DEF ReqOK
<1>9. ReqOK(q)
  <2>1. Timeout(q.input.route) <= Timeout(q.input.route)
    BY <1>3, <1>4
  <2> QED
    BY <1>1, <1>2, <1>4, <1>8, <2>1 DEF ReqOK
<1> QED
  BY <1>4, <1>5, <1>9, HandlerChanges

(* A step between the stages of a handler that no deadline depends on.      *)
LEMMA StageStep ==
    ASSUME IInv, NEW r \in Requests, NEW q \in Request, req[r].step \in {"acquire", "query"},
           q.step \in {"acquire", "query"}, q.input = req[r].input, q.left = req[r].left,
           q.write = req[r].write, req' = [req EXCEPT ![r] = q], UNCHANGED Others
    PROVE  IInv'
<1>1. ReqOK(req[r])
  BY DEF IInv
<1>2. Spent(q) = Spent(req[r])
  BY DEF Spent, Remaining
<1>3. ReqOK(q)
  BY <1>1, <1>2 DEF ReqOK, Active
<1> QED
  BY <1>3, HandlerChanges

(* Accept: a request begins with its whole allowance.                       *)
LEMMA AcceptStep ==
    ASSUME IInv, NEW r \in Requests, NEW in \in Inputs, Accept(r, in)
    PROVE  IInv'
<1> DEFINE q == [step |-> "admit", input |-> in, left |-> ReadTimeout, write |-> WriteTimeout,
                 queries |-> IF in.route = "dashboard" THEN 2 ELSE 1]
<1>1. q \in Request
  BY ProcessAssumption DEF Request, Timers, Active
<1>2. req' = [req EXCEPT ![r] = q] /\ UNCHANGED Others /\ phase = "run" /\ srv = "listening"
  BY DEF Accept
<1>3. kind # "reconciler" /\ kind \in Kinds
  BY <1>2 DEF IInv, StopOK, TypeOK
<1>4. Allowance(in) \in Nat /\ Spent(q) = Allowance(in) - Allowance(in)
  BY <1>2, AllowanceNat DEF Spent, Remaining
<1>5. WriteTimeout - q.write <= Spent(q)
  BY <1>4, ProcessAssumption
<1>6. ~forced
  BY <1>2 DEF IInv, StopOK
<1>7. ReqOK(q)
  BY <1>2, <1>3, <1>5, <1>6 DEF ReqOK, Accept, Workers, Kinds
<1> QED
  BY <1>1, <1>2, <1>7, HandlerChanges

(* Admit: a refusal, the body, or the database work.                        *)
LEMMA AdmitStep ==
    ASSUME IInv, NEW r \in Requests, Admit(r)
    PROVE  IInv'
<1>1. ReqOK(req[r]) /\ req[r] \in Request
  BY DEF IInv, TypeOK
<1>2. /\ phase # "exited" /\ req[r].step = "admit" /\ req[r].step \in Active
      /\ UNCHANGED Others
  BY DEF Admit, Active
<1>3. CASE Reply(r)
  BY <1>2, <1>3, ReplyStep
<1>4. CASE StartWork(r) /\ UsesDatabase(req[r].input.route) /\ ~HasBody(req[r].input.route)
  BY <1>2, <1>4, StartWorkStep
<1>5. CASE HasBody(req[r].input.route) /\ req' = [req EXCEPT ![r].step = "body"]
  <2> DEFINE q == [req[r] EXCEPT !.step = "body"]
  <2>1. /\ q \in Request /\ q.input = req[r].input /\ q.step = "body"
        /\ q.left = req[r].left /\ q.write = req[r].write
    BY <1>1 DEF Request, Active
  <2>2. req' = [req EXCEPT ![r] = q]
    BY <1>5 DEF IInv, TypeOK
  <2>3. kind = "api" /\ phase \in {"run", "closing"}
    BY <1>1, <1>2, <1>5 DEF ReqOK, HasBody
  <2>4. q.left = ReadTimeout
    BY <1>1, <1>2, <2>1 DEF ReqOK
  <2>5. Timeout(q.input.route) \in Nat /\ Allowance(q.input) \in Nat
    BY <1>2, <2>1, <2>3, SpentBound, AllowanceNat
  <2>6. Allowance(q.input) = ReadTimeout + Timeout(q.input.route)
    BY <1>5, <2>1, <2>3, <2>5, ProcessAssumption DEF Allowance, UsesDatabase, HasBody
  <2>7. Spent(q) = Spent(req[r])
    BY <1>2, <2>1, <2>4, <2>5, <2>6, ProcessAssumption DEF Spent, Remaining
  <2>8. ReqOK(q)
    BY <1>1, <1>2, <1>5, <2>1, <2>3, <2>4, <2>7, ProcessAssumption DEF ReqOK
  <2> QED
    BY <1>2, <2>1, <2>2, <2>8, HandlerChanges
<1> QED
  BY <1>3, <1>4, <1>5 DEF Admit

(* BodyArrives                                                              *)
LEMMA BodyArrivesStep ==
    ASSUME IInv, NEW r \in Requests, BodyArrives(r)
    PROVE  IInv'
<1>1. /\ phase # "exited" /\ req[r].step = "body" /\ req[r].step \in Active
      /\ UNCHANGED Others /\ (StartWork(r) \/ Reply(r))
  BY DEF BodyArrives, Active
<1>2. UsesDatabase(req[r].input.route)
  BY <1>1 DEF IInv, ReqOK, HasBody, UsesDatabase
<1> QED
  BY <1>1, <1>2, ReplyStep, StartWorkStep

(* BodyFails                                                                *)
LEMMA BodyFailsStep ==
    ASSUME IInv, NEW r \in Requests, BodyFails(r)
    PROVE  IInv'
BY ReplyStep DEF BodyFails, Active

(* Acquire                                                                  *)
LEMMA AcquireStep ==
    ASSUME IInv, NEW r \in Requests, Acquire(r)
    PROVE  IInv'
<1> DEFINE q == [req[r] EXCEPT !.step = "query"]
<1>1. /\ q \in Request /\ q.input = req[r].input /\ q.step = "query"
      /\ q.left = req[r].left /\ q.write = req[r].write
  BY DEF IInv, TypeOK, Request, Active
<1>2. req' = [req EXCEPT ![r] = q] /\ req[r].step = "acquire" /\ UNCHANGED Others
  BY DEF Acquire, IInv, TypeOK
<1> QED
  BY <1>1, <1>2, StageStep

(* AcquireFails                                                             *)
LEMMA AcquireFailsStep ==
    ASSUME IInv, NEW r \in Requests, AcquireFails(r)
    PROVE  IInv'
BY ReplyStep DEF AcquireFails, Active

(* QueryEnds                                                                *)
LEMMA QueryEndsStep ==
    ASSUME IInv, NEW r \in Requests, QueryEnds(r)
    PROVE  IInv'
<1>1. CASE Reply(r)
  BY <1>1, ReplyStep DEF QueryEnds, Active
<1>2. CASE req' = [req EXCEPT ![r].step = "acquire", ![r].queries = 1]
  <2> DEFINE q == [req[r] EXCEPT !.step = "acquire", !.queries = 1]
  <2>1. /\ q \in Request /\ q.input = req[r].input /\ q.step = "acquire"
        /\ q.left = req[r].left /\ q.write = req[r].write
    <3>1. req[r] \in Request /\ 1 \in 0..2 /\ "acquire" \in {"idle"} \cup Active \cup Ended
      BY DEF IInv, TypeOK, Active
    <3> QED
      BY <3>1, Zenon DEF Request
  <2>2. req' = [req EXCEPT ![r] = q]
    BY <1>2, Zenon DEF IInv, TypeOK
  <2>3. req[r].step = "query" /\ UNCHANGED Others
    BY DEF QueryEnds
  <2> QED
    BY <2>1, <2>2, <2>3, StageStep
<1> QED
  BY <1>1, <1>2 DEF QueryEnds

----------------------------------------------------------------------------
(* The steps that change every request.                                     *)

(* Exit: a request is cut only in a process that exits with an error.       *)
LEMMA ExitStep ==
    ASSUME IInv, Exit
    PROVE  IInv'
<1> USE DEF process, server, loop
<1> DEFINE next(r) == IF req[r].step \in Active THEN [req[r] EXCEPT !.step = "cut"] ELSE req[r]
<1>1. \A r \in Requests : next(r) \in Request /\ next(r).input = req[r].input
  BY DEF IInv, TypeOK, Request, Ended
<1>2. req' = [r \in Requests |-> next(r)]
  BY DEF Exit
<1>3. TypeOK'
  <2>1. req' \in [Requests -> Request]
    BY <1>1, <1>2
  <2> QED
    BY <2>1 DEF Exit, IInv, TypeOK
<1>4. PhaseOK' /\ StopOK'
  BY DEF Exit, IInv, TypeOK, PhaseOK, StopOK, ContextDone
<1>5. ASSUME NEW r \in Requests
      PROVE  ReqOK(req[r])'
  <2>1. req'[r] = next(r) /\ ReqOK(req[r]) /\ req[r] \in Request
    BY <1>2 DEF IInv, TypeOK
  <2>2. /\ kind' = kind /\ env' = env /\ srv' = srv /\ srv = "returned" /\ drain' = drain
        /\ failed' = failed /\ forced' = forced /\ phase' = "exited" /\ phase = "closing"
    BY DEF Exit, IInv, PhaseOK
  <2>3. CASE req[r].step \in Active
    <3>1. next(r).step = "cut" /\ next(r).input = req[r].input
      BY <2>1, <2>3 DEF Request
    <3> QED
      BY <2>1, <2>2, <2>3, <3>1, TimesFixed DEF ReqOK, Active
  <2>4. CASE req[r].step \notin Active
    BY <2>1, <2>2, <2>4, TimesFixed DEF ReqOK, Active
  <2> QED
    BY <2>3, <2>4
<1> QED
  BY <1>3, <1>4, <1>5 DEF IInv

(* A unit of time is spent by every request that waits, and by Shutdown.    *)
LEMMA TickStep ==
    ASSUME IInv, Tick
    PROVE  IInv'
<1> USE DEF process, server, loop
<1> DEFINE next(r) == IF r \in Waiting
                      THEN [req[r] EXCEPT !.left = Less(@), !.write = Less(@)] ELSE req[r]
<1>1. \A n \in Nat : Less(n) \in Nat /\ Less(n) <= n /\ Less(n) >= n - 1
  BY DEF Less
<1>2. \A r \in Requests : req[r] \in Request /\ req[r].left \in Nat /\ req[r].write \in Nat
  BY DEF IInv, TypeOK, Request, Timers
<1>3. \A r \in Waiting :
        /\ next(r) \in Request
        /\ next(r).step = req[r].step /\ next(r).input = req[r].input
        /\ next(r).left = Less(req[r].left) /\ next(r).write = Less(req[r].write)
  BY <1>1, <1>2, Zenon DEF Request, Timers, Waiting
<1>4. req' = [r \in Requests |-> next(r)]
  BY DEF Tick
<1>5. /\ kind' = kind /\ env' = env /\ srv' = srv /\ failed' = failed /\ forced' = forced
      /\ phase' = phase /\ phase \in {"run", "closing"} /\ drain' = Less(drain) /\ drain \in Nat
      /\ code' = code /\ signalled' = signalled /\ worker' = worker /\ held' = held
  BY DEF Tick, IInv, TypeOK, Timers
<1>6. TypeOK'
  <2>1. req' \in [Requests -> Request]
    BY <1>2, <1>3, <1>4
  <2>2. drain' \in Timers
    BY <1>1, <1>5 DEF Timers
  <2> QED
    BY <1>5, <2>1, <2>2 DEF IInv, TypeOK
<1>7. PhaseOK' /\ StopOK'
  BY <1>5 DEF IInv, PhaseOK, StopOK, ContextDone
<1>8. ASSUME NEW r \in Requests
      PROVE  ReqOK(req[r])'
  <2>1. req'[r] = next(r) /\ ReqOK(req[r])
    BY <1>4 DEF IInv
  <2>2. CASE r \notin Waiting
    <3>1. req'[r] = req[r] /\ req[r].step \notin Active
      BY <2>1, <2>2 DEF Tick, Waiting, Active
    <3> QED
      BY <1>5, <2>1, <3>1, TimesFixed DEF ReqOK, Active
  <2>3. CASE r \in Waiting
    <3> DEFINE q == next(r)
    <3>1. /\ q.step = req[r].step /\ q.input = req[r].input /\ req[r].left > 0
          /\ q.left = req[r].left - 1 /\ q.write \in Nat /\ q.write >= req[r].write - 1
      BY <1>1, <1>2, <1>3, <2>3 DEF Tick, Less
    <3>2. req[r].step \in {"body", "acquire", "query"} /\ req[r].step \in Active
      BY <2>3 DEF Waiting, Active
    <3>3. /\ Allowance(req[r].input) \in Nat /\ Remaining(req[r]) \in Nat /\ ShutdownTimeout \in Nat
          /\ Timeout(req[r].input.route) \in Nat
          /\ Spent(req[r]) = Allowance(req[r].input) - Remaining(req[r])
      BY <1>5, <2>1, <3>2, SpentBound, AllowanceNat DEF ReqOK
    <3>4. Spent(q) = Spent(req[r]) + 1
      BY <1>2, <3>1, <3>2, <3>3 DEF Spent, Remaining
    <3>5. WriteTimeout - q.write <= Spent(q)
      BY <1>2, <2>1, <3>1, <3>2, <3>3, <3>4, ProcessAssumption DEF ReqOK
    <3>6. srv = "draining" => ShutdownTimeout - Less(drain) <= Spent(q)
      BY <1>1, <1>5, <2>1, <3>2, <3>3, <3>4 DEF ReqOK
    <3>7. /\ q.step = "body" => q.left <= ReadTimeout
          /\ q.step \in {"acquire", "query"} => q.left <= Timeout(q.input.route)
      BY <1>2, <2>1, <3>1, <3>3, ProcessAssumption DEF ReqOK
    <3>8. req'[r] = q
      BY <2>1
    <3> HIDE DEF q
    <3> QED
      BY <1>5, <2>1, <3>1, <3>2, <3>5, <3>6, <3>7, <3>8, TimesFixed DEF ReqOK
  <2> QED
    BY <2>2, <2>3
<1> QED
  BY <1>6, <1>7, <1>8 DEF IInv

----------------------------------------------------------------------------
(* The inductive invariant.                                                 *)

(* The invariant holds when a process starts,                               *)
LEMMA InitInv == Init => IInv
<1> SUFFICES ASSUME Init PROVE IInv
  OBVIOUS
<1> DEFINE q == [step |-> "idle", input |-> Absent, left |-> 0, write |-> 0, queries |-> 0]
<1>1. q \in Request /\ q.step = "idle"
  BY DEF Request, Timers
<1>2. \A r \in Requests : req[r] = q
  BY DEF Init
<1>3. TypeOK
  BY <1>1 DEF Init, TypeOK, Returned, Timers
<1>4. PhaseOK /\ StopOK
  BY AbsentCode DEF Init, PhaseOK, StopOK, Closing
<1>5. \A r \in Requests : ReqOK(req[r])
  BY <1>1, <1>2 DEF ReqOK, Active
<1> QED
  BY <1>3, <1>4, <1>5 DEF IInv

(* and every step keeps it.                                                 *)
LEMMA NextInv == IInv /\ [Next]_vars => IInv'
<1> SUFFICES ASSUME IInv, [Next]_vars PROVE IInv'
  OBVIOUS
<1>1. CASE MainStep
  BY <1>1, LoadConfigStep, ConstructStep, ListenStep, BeginShutdownStep, DrainedStep,
     DrainExpiresStep, ClosePoolStep, ExitStep DEF MainStep
<1>2. CASE Signal \/ ServeFails \/ Tick
  BY <1>2, SignalStep, ServeFailsStep, TickStep
<1>3. CASE \E r \in Requests, in \in Inputs : Accept(r, in)
  BY <1>3, AcceptStep
<1>4. CASE \E r \in Requests : HandlerStep(r)
  BY <1>4, AdmitStep, BodyArrivesStep, BodyFailsStep, AcquireStep, AcquireFailsStep, QueryEndsStep
     DEF HandlerStep
<1>5. CASE PollFails \/ StartAttempt \/ WorkerStep
  BY <1>5, PollFailsStep, StartAttemptStep, EndAttemptStep, CommitRecordStep, WorkerStopsStep,
     CloseConsumerStep, EndJobStep DEF WorkerStep
<1>6. CASE UNCHANGED vars
  <2>1. \A r \in Requests : ReqOK(req[r])'
    BY <1>6, RequestsKept DEF vars, process, server, loop, IInv, ReqOK
  <2> QED
    BY <1>6, <2>1 DEF vars, process, server, loop, IInv, TypeOK, PhaseOK, StopOK, ContextDone
<1> QED
  BY <1>1, <1>2, <1>3, <1>4, <1>5, <1>6 DEF Next

(* What every state of a process satisfies: ReqOK relates the deadlines of  *)
(* each request to the write deadline and to Shutdown.                      *)
THEOREM Invariance == Spec => []IInv
BY InitInv, NextInv, PTL DEF Spec

(* The variables keep their types; no deadline is ever negative.            *)
THEOREM TypeCorrect == Spec => []TypeOK
<1>1. IInv => TypeOK
  BY DEF IInv
<1> QED
  BY <1>1, Invariance, PTL

(* No constructor called by run() refuses settings that internal/config     *)
(* accepted, whatever the environment.                                      *)
THEOREM ConstructorsNeverRefuse == Spec => []ConstructorsAccept
<1>1. IInv => ConstructorsAccept
  BY LoadedConstructs DEF IInv, TypeOK, PhaseOK, ConstructorsAccept
<1> QED
  BY <1>1, Invariance, PTL

(* Every token of the running API authenticates the reviewer it was issued  *)
(* to and nobody else, for any number of credentials.                       *)
THEOREM TokensIdentifyReviewers == Spec => []TokensIdentify
<1>1. IInv => TokensIdentify
  <2> SUFFICES ASSUME IInv, kind = "api", phase = "run" PROVE TokensIdentify
    BY DEF TokensIdentify
  <2> DEFINE c == Setting("REVIEW_AUTH_CREDENTIALS_JSON")
  <2>1. env \in Environments["api"] /\ load(env)
    BY DEF IInv, TypeOK, PhaseOK, Loads
  <2>2. c # Malformed /\ NewTokenAuthenticator(c)
    BY <2>1 DEF load, parseReviewCredentials, Setting
  <2>3. Defaults["REVIEW_AUTH_CREDENTIALS_JSON"] = <<>>
    BY DEF Defaults
  <2>4. c \in Seq([reviewer : RawIds, role : RawRoles, token : Tokens \cup {Malformed}])
    <3>1. env["REVIEW_AUTH_CREDENTIALS_JSON"] \in {Absent, Malformed} \cup
            Seq([reviewer : RawIds, role : RawRoles, token : Tokens \cup {Malformed}])
      BY <2>1, EnvironmentAssumption DEF Kinds
    <3> QED
      BY <2>2, <2>3, <3>1 DEF Setting, value
  <2> HIDE DEF c
  <2>5. \A i \in DOMAIN c :
          /\ Authenticate(c, c[i].token) = Principal(c[i])
          /\ \A j \in DOMAIN c : Principal(c[j]).reviewer = Principal(c[i]).reviewer => i = j
    BY <2>2, <2>4, TokenPrincipal
  <2> QED
    BY <2>5 DEF TokensIdentify, c
<1> QED
  BY <1>1, Invariance, PTL

(* A process that exits with code 0 was told to stop (or was the            *)
(* reconciler), and left no request and no worker behind.                   *)
THEOREM CleanExitIsComplete == Spec => []CleanExitComplete
<1>1. IInv => CleanExitComplete
  <2> SUFFICES ASSUME IInv, phase = "exited", code = 0 PROVE CleanExitComplete
    BY DEF CleanExitComplete
  <2>1. ~failed /\ srv = "returned"
    BY DEF IInv, PhaseOK
  <2>2. (signalled \/ kind = "reconciler") /\ worker # "failed" /\ ~forced
    BY <2>1 DEF IInv, StopOK
  <2>3. \A r \in Requests : req[r].step \in {"idle", "answered", "unsent"}
    <3> SUFFICES ASSUME NEW r \in Requests PROVE req[r].step \in {"idle", "answered", "unsent"}
      OBVIOUS
    <3>1. ReqOK(req[r]) /\ req[r].step \in {"idle"} \cup Active \cup Ended
      BY DEF IInv, TypeOK, Request
    <3> QED
      BY <2>1, <3>1 DEF ReqOK, Ended
  <2> QED
    BY <2>2, <2>3 DEF CleanExitComplete
<1> QED
  BY <1>1, Invariance, PTL

(* Whatever the timeouts, an answer is lost in a shutdown only if the       *)
(* request may last as long as SHUTDOWN_TIMEOUT, and after it was computed  *)
(* only if the request may last as long as WriteTimeout.                    *)
THEOREM LostAnswersAreExplained == Spec => []LostAnswersExplained
<1>1. IInv => LostAnswersExplained
  BY DEF IInv, ReqOK, LostAnswersExplained
<1> QED
  BY <1>1, Invariance, PTL

(* A worker process whose worker loop has returned, or only closes its      *)
(* client before it returns, is shutting down.                              *)
THEOREM WorkerNeverHalfAlive == Spec => []NeverHalfAlive
<1>1. IInv => NeverHalfAlive
  BY DEF IInv, StopOK, NeverHalfAlive, Returned, ContextDone
<1> QED
  BY <1>1, Invariance, PTL
=============================================================================
