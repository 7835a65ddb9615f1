# RiskFlow: TLA+ models, model checking and proofs

RiskFlow accepts payments over HTTP, moves each of them through a transactional
outbox to Kafka, scores it, persists the decision and lets reviewers resolve the
payments that need one. All hard guarantees are about what survives races,
retries and crashes, and this directory states and checks them for the services
on that path: payment acceptance, outbox delivery, risk scoring, decision
ingestion and manual review, for the dashboard that reads them, and for the
processes that carry them: how each starts, serves, stops and fails.

## Inventory

| Component (source) | State | Operations | Hard part |
|---|---|---|---|
| Payment acceptance (`payment/`, `httpapi/payments.go`) | `payments`, `outbox_events` | `POST /v1/payments`; GET reads | requests with one idempotency key race across instances; timeouts after a commit |
| Outbox publisher (`outbox/`) | delivery columns of `outbox_events`, the topic | `ProcessNext`, `publish`, `recordFailure`, backoff | ambiguous publishes, crash between acknowledgement and mark, shutdown in flight, rows that fail for ever |
| Decision consumer (`decision/`) | `payment_decisions`, `decision_ingestion_records`, `payments.status`, `audit_events`, `manual_review_queue`, group offsets | `Poll`, `Apply`, `Reject`, `Commit` | redelivery, evicted members that keep working, unique-key races across partitions, lost COMMIT answers |
| Manual review (`review/`, `httpapi/reviews.go`) | `manual_review_queue`, `payments.status`, `audit_events` | `Resolve`; `ListPending` reads | two reviewers, lock order opposite to the consumer's |
| Reconciliation (`decision/reconciliation.go`) | none, reads all of the above | one query with seven exception classes | what must never be found |
| Risk service (`risk-service/`: rules, model, processor, feature store, worker) | Redis features and decision cache, group offsets | score, cache, publish, commit | cache expiry, out-of-order events, model-dependent decision ids |
| Streaming analytics | checkpoint and lake files | micro-batch transform and write | replayed batches |
| Dashboard API (`dashboard/`, `httpapi/dashboard.go`) | none, reads the rows | six statements in one transaction, then the reconciliation counts | commits between the statements; two read boundaries |
| Processes (`cmd/*`, `server/`, `database/`, worker loops) | phase, exit code, HTTP server, pool, requests in flight | load, construct, bind, serve, drain, close, exit | shutdown against deadlines, a server or a loop that dies alone, an exhausted pool |
| Configuration and authentication (`config/`, `review/auth.go`) | the settings and credentials of a process | four loaders, constructors, `Authenticate` | checks made twice in different words; tokens that must name one person |
| Dashboard UI, observability | none; counters | render, count | none that changes shared state |

Components interact through PostgreSQL rows (acceptance to outbox, consumer to
review), through the topics `payments.created` (outbox to risk service) and
`risk.decisions` (risk service to consumer), and through nothing else.

What makes each part correct: one payment per key and durable answers
(acceptance); nothing marked published that is not in Kafka, no starvation
(outbox); one answer per event, features that a replay does not disturb, no
skipped input, a verdict that more risk never softens (risk service); one
decision per payment, true receipts, no skipped record (consumer); one reviewer
wins and the audit trail says who (review); a document whose parts agree
(dashboard); an exit code that tells the truth, no process that half works, no
request without end, tokens that identify (processes); and, of consumer and
review together, a payment's status is always what its decision and its review
imply. `PROJECT.json` lists the hazards line by line, with the
properties aimed at each.

## Modules

| Module | Models |
|---|---|
| `DecisionTables` | the rows, row locks and transaction ends that consumer and review API share; the reconciliation query, one operator per class |
| `DecisionConsumer` | group assignment, polling, `Worker.handle`, `Apply`, `Reject`, offset commit, failures |
| `ManualReview` | `Resolve`, one READ COMMITTED transaction per request |
| `DecisionControls` | both on one database, and their properties |
| `PaymentLifecycle` | the abstract specification: what the two promise about a payment |
| `Backoff` | `nextBackoff`, `deliveryBackoff` |
| `OutboxDelivery` | publishers, the rows they claim, Kafka's answers, the clock, shutdown and crash |
| `PaymentAcceptance` | handlers of `POST /v1/payments` and the insert they race on |
| `RiskScoring` | `RuleEngine.evaluate` and the verdict and score of `DecisionProcessor.process`, as operators |
| `RiskEscalation` | one payment that is scored while what is known of it gets worse, to state an order between cases |
| `FeatureStore` | the Redis keys and the two Lua scripts |
| `RiskWorker` | the workers of the risk service on `payments.created`, with the feature store and the scoring |
| `Dashboard` | a `GET /v1/dashboard` request that reads while `DecisionControls` goes on; the rest of the reconciliation classes |
| `Configuration` | the loaders of the four Go processes, the constructors they feed, reviewer credentials, as operators |
| `ServiceProcess` | one Go process from start to exit with its HTTP server, worker loop, pool and requests |
| `*Proofs` | the theorems of the module they are named after |
| `MC*` | instances for TLC |

### How state and actions correspond to the code

*Transactions.* A transaction's writes become visible when it commits, so only
committed rows are variables, and writes are one action at the commit. The
statements before it are separate actions wherever they read shared rows or wait
for a lock, because PostgreSQL's default READ COMMITTED lets every statement see
what others committed meanwhile. Program counters name the next statement. A row
lock is a function from row to holder; a waiting statement is a disabled action;
`EndTransaction` is COMMIT or ROLLBACK. In `PaymentAcceptance` the variable
`inserting` is the index entry of an uncommitted insert, on which a second
`INSERT ... ON CONFLICT DO NOTHING` waits.

*The consumer.* `Assign` and `Revoke` are the group coordinator.
`BlockRebalanceOnPoll` holds off a rebalance, but not past the rebalance
timeout, so `Revoke` may hit a member in the middle of an attempt, which then
works on beside the new owner; only its offset commit is fenced. `position` is
the client's fetch position: after the commit of an offset fails, `Run` returns
and the process restarts from the committed offset. Apply is the sequence
`ApplyReceipt`, `LockPayment`, `LoadDecision`, `CheckSource`, `WriteDecision`
(or `WriteReplay`), with the unique keys in `UniqueViolation`. An event is its
decision id, payment, source event and verdict; equality of events is equality
of fingerprints. A receipt is represented by its disposition or, when rejected,
by its error code. `Unstorable` are records that parsing lets through, or
rejects, and that the schema then refuses: an event whose velocity exceeds
INTEGER fails in `WriteDecision`, a tombstone fails in `WriteReject` because
`rejected_value` may not be NULL. Both are retried for ever, as in the code.

*The review API.* `ResolveQueueRow` is the conditional UPDATE (it locks),
`CurrentConflict` the second look after it matched nothing,
`UpdateReviewedPayment` the second UPDATE, `FinishResolve` audit insert and
COMMIT. The rows change at the COMMIT.

*The publisher.* Time is counted in units of the smallest retry delay: `wait` is
what is left until `next_attempt_at`, and `due` holds the rows that are due in
the order the claiming query returns them. Rows with equal times are ordered
arbitrarily, and a row may become visible behind its time, because its default
is the start of the accepting transaction. `PublishFails` leaves open whether
Kafka stored the record. `RecordFailure` also runs when the context was
cancelled, since the code gives it a context of its own.

*The risk service.* Each Redis call of `process` is one atomic action, since a
Lua script is: `LoadDecision`, `ObserveAndScore` (the scoring after it is local)
and `Save`. `Poll` moves the client's position past the record, so `Retry` has to
seek back; a seek that raises ends the process. `Publish` succeeds only when the
flush leaves nothing in the producer; a record that stays there after a timeout
is in `unacked` until `LateDelivery` delivers or drops it. A worker starts with
a model version or without a model, and a loaded model may fail for any
payment. A worker that lost a partition goes on until its commit is refused. An
event stands for its payment; the clock value in a snapshot is represented by
the worker that read it, so two observations by different workers differ. The
three keys of a customer expire together because they get the same expiry at the
same instant. Probabilities are in thousandths, and the rounding to a score takes
ties to the even neighbour as Python's `round` does.

*The dashboard.* `LoadSection` is one statement of `repository.Load`; the first
one takes the snapshot that the others see (`View`), and `CountControls` reads
the rows as they are by then. A section is the record of counts the statement
returns. Only one request is followed, since requests only read. The outbox
counts are left out, and which payments are published and older than the grace
period is an arbitrary set. The `ORDER BY` of the recent decisions is the
constant `Order`, which lists the events; `Rank` counts the decisions that come
before one, so `NewestFirst` is the sorted result and `UpTo` its `LIMIT`.

*The processes.* `kind` says which of the four programs runs. An environment
maps each variable to what its text means, to `Malformed` or to `Absent`; the
loaders are predicates on it, and so are the constructors. `srv` follows
`server.Run`: bind, listen, drain, return. `ContextDone` is the context that
server and worker share: cancelled by the signal and, in the two workers, by
errgroup when one of them fails. A request goes through admission
(authentication, role, query), its body, waiting for a connection and using it;
`left` counts down the deadline it is under (first `ReadTimeout`, then the
timeout of its route) and `write` the write deadline of its connection. The
dashboard acquires a connection twice. `Cancelled` leaves out `/metrics`, whose
collector has a context of its own. `Tick` lets one unit pass unless some
deadline has come and its owner has not reacted. Worker loops are reduced to
where they block and how they return; what they do is in the other modules. The
consumer's loop returns through the deferred `consumer.Close()`
(`CloseConsumer`): its client is built with `BlockRebalanceOnPoll`, so `held`
records what the last poll returned until `AllowRebalance` is called. A record
is always let go of, by the commit or by both returns around an attempt; a poll
that returned a fetch error (`PollFails`) is not. `CloseConsumer` waits until
nothing is held, as franz-go documents of `Close`.

*Failures.* Crashes, failing statements, expired deadlines, evictions and lost
answers each count against `MaxFaults`. A lost answer of a COMMIT is a separate
outcome: the rows have changed and the caller sees an error.

## Runs

| Run | Instance | Shows |
|---|---|---|
| `consumer_safety` | 2 members, 1 partition, up to 3 records out of 6 events, a malformed value and a tombstone, 2 failures | reconciliation finds nothing, no record is passed over, one APPLIED receipt per decision, receipts and offsets never go back |
| `review_safety` | 2 requests, 2 members, 2 REVIEW decisions of one payment, 1 failure | exact audit trail, success is recorded, no state conflict, no deadlock, the lifecycle is implemented |
| `liveness` | 2 members, 2 records, 1 request, 1 payment, 2 failures, fair | acceptable, replayed and malformed records settle; the request is answered |
| `dashboard` | 1 dashboard request, 2 members, 2 partitions of one record, 4 events that clash in id, source or payment, 1 reviewer, reset `latest` | the document's sections agree, its controls are not older than its totals, every receipt is true of its record |
| `service_process` | each kind of process in good environments and one per check of its loader, 2 requests, 1 connection, fair | constructors accept, tokens identify, clean exits are complete, lost answers are explained, no process is half alive; signals, failures and requests come to an end, but for `CloseHangs` (see Findings) |
| `reject_redelivery` (violation) | 1 member, a decision for an unknown payment, 1 failure, fair | see Findings |
| `outbox` | 2 publishers; a good, a refused, an undeliverable row; 1 failure, fair | nothing lost, quarantine exact, claims exclusive, finished rows final; the good row is published, the refused row quarantined |
| `outbox_cancellation` (violation) | 1 publisher, 1 row, 1 shutdown | see Findings |
| `acceptance` | 3 requests, 2 keys, 2 contents in several spellings, 2 failures, fair | one payment per key, durable answers, real conflicts, the loser finds the row, every request is answered |
| `risk_scoring` | amounts, velocities and probabilities on both sides of every limit, all signals | the verdict never becomes milder as risk grows or the model fails; the score supports the verdict |
| `risk_features` | 2 workers, 3 payments of one customer on 2 partitions, 1 failure | first use flagged once, one home country, velocity exact in order and never too high |
| `risk_replay` | 2 workers, an event published twice and a malformed record, 2 failures, 1 expiry, fair | no input skipped, one answer per event while nothing has expired, every input settles |

*Bounds.* Two members and two requests are enough for every pairwise race; a
third could only wait as the second does, since row locks and unique keys admit
one winner. The consumer's failure needs one failure to make a member a zombie
and one to hit the other. The event sets contain each way in which two decisions
can clash: same payment, same id, same source, unknown payment. The three
payments of `risk_features` put one event exactly at the start of another's
window and one beyond it, so that pruning, the boundary and an out-of-order
observation all happen. Three records
are a decision, its redelivery and a conflict. `RetryMin` 1 and `RetryMax` 3
make the doubling meet the ceiling between two powers, and `MaxAttempts` 3 is
where the delay has reached it; the attempt counter stays there so that the row
that fails for ever has finitely many states. In `service_process` a unit of time is about
five seconds: `ReadTimeout` and `WriteTimeout` are 2, the dashboard's timeout 2
and the others 1, and SHUTDOWN_TIMEOUT is 1, 2 and 4, so that a request can be
shorter than, as long as and longer than each deadline it meets; one connection
makes the second request wait. The dashboard run has no failures, since a failed
transaction shows a reader nothing; two decisions, or a decision and a
rejection, and a resolution can fall between any two of its statements. The
liveness run has one event, so that a reviewer, a replay and a malformed record
fit together with two failures. The theorems below remove these
bounds for what they prove. Members, requests and workers are symmetric
in the runs that check no liveness; no liveness run uses symmetry. Deadlock checking
is off since a system without work left rightly stops; `NoDeadlock` and the
liveness properties state what must not stop.

*Fairness.* Weak fairness of a member's or publisher's steps: a goroutine that
can go on does, and a stopped container is restarted (`restart: unless-stopped`).
Weak fairness of assignment: the coordinator gives a free partition to a running
member. Weak fairness of a received request's steps, and of the clock. Strong
fairness is assumed once: Kafka does not fail every attempt of a record that it
can accept. No fairness is assumed of producers, clients, `Cancel` or failures.
In `ServiceProcess`: the scheduler runs every goroutine, timers fire, and a call
returns at the latest when its context has ended; `consumer.Close()` has no
context, and returns once nothing is held. No fairness makes a poll fail or
succeed. Bodies need not arrive,
connections need not become free, and a query may use all of its time.

## Findings

* `reject_redelivery`: when a record was rejected for what Apply found and its
  offset was not committed (crash, failed offset commit, lost answer), the
  redelivered record finds its own REJECTED receipt; Apply reports
  `ErrSourceRecordConflict`, which the worker retries for ever. The partition
  does not advance, although the comment in `Run` calls the redelivery harmless.
  Records that ParseEvent refuses do not have the problem: they go to Reject
  directly, which is idempotent, and `liveness` shows that they settle.
* `outbox_cancellation`: the comment on `Worker.Run` says that cancellation
  rolls the attempt back. `recordFailure` commits it: the attempt is counted and
  the row postponed.

One finding has no run of its own, because it rests on the documentation of
franz-go, which the repository only imports. The decision consumer may never
exit after SIGTERM. Its client blocks rebalances from a poll that returned
something until `AllowRebalance` (`kafka_consumer.go:37`); when a poll returned
a fetch error (`kafka_consumer.go:70-72`), the loop waits and goes on without
that call (`worker.go:91-105`). If the context is cancelled then, or while the
following polls time out, the deferred `Close` (`worker.go:80`,
`kafka_consumer.go:98-100`) leaves the group, waits for the rebalance to be
allowed, and `Run`, the errgroup and the process wait with it until they are
killed. `StopLeadsToExit` names this state as its one exception, `CloseHangs`:
no other state of any process keeps it from ending, and a consumer that holds a
record always lets go of it first. Calling `AllowRebalance` whenever Poll
returned an error, or closing with `CloseAllowingRebalance`, would remove the
exception.

Two results speak for the code where a reader might doubt it:
`review_state_conflict` is unreachable (`NoStateConflict`), and the opposite lock
orders of Apply and Resolve cannot deadlock, because Apply inserts a queue row
only for a payment that has none (`NoDeadlock`, which is about two transactions;
the theorem `WaitingEnds` excludes cycles of any length).

Two results are worth knowing when the service is configured. With the defaults
(ReadTimeout 10 s, SHUTDOWN_TIMEOUT 10 s) a request with a slow body may be cut
in a shutdown; `LostAnswersExplained` says exactly when: only if body and work
together may last as long as the shutdown timeout. And an ordinary SIGTERM may
end the decision consumer with code 1, because the offset commit runs under the
cancelled context; it is never the other way round, a failure reported as 0.

## Proofs

`DecisionControlsProofs`. The inductive invariant adds four parts to the types.
`HoldsRecord`: a member between `Poll` and its offset commit holds a record, an
event of a known payment once it is past the lock, and a chosen code when it
rejects. `HoldsRow`: a request past its UPDATE holds the lock of a queue row that
is pending, at version 1, for the decision it found. `DecisionsUnique`: one
decision per payment and per decision id. `RowsAgree`: payment by payment, status
and queue row follow from the decision and its resolution. None of the
reconciliation classes is inductive alone: a duplicate decision is excluded only
together with the status it would have to find. The proof needs nothing about a
member's payment lock: that no second decision is written rests on the UPDATE
guarded by `status = 'PENDING_RISK'`, which the commit evaluates again. On the
review side the queue lock is needed, since the decision found by the UPDATE is
used at the COMMIT.
One lemma per action shows the invariant is kept. From it follow `TypeCorrect`,
`Reconciled` and `LifecycleRefined`; the refinement proof shows that only
`WriteDecision` and `FinishResolve` change what the mapping reads, that the first
is `Decide` and the second `Resolve`.

`DecisionRecordsProofs` goes on from that invariant with one part per subject,
each inductive relative to it.

* Audit trail and answers. `AuditTrailExact` and `SuccessFinal` (who was told
  "ok" is named by a queue row that is no longer pending) follow from the rows
  alone. `NoStateConflict` holds because a request past its UPDATE holds a
  pending queue row, and by `RowsAgree` its payment is in REVIEW.
  Theorems: `AuditExact`, `SuccessRecorded`, `StateConflictIsDead`.
* Offsets. `NoRecordSkipped` speaks of committed offsets, but a commit moves the
  offset over everything before it. So `OwnersSettle` says it of the owner's
  fetch position, except for the record in hand; `OwnersInStep` says that this
  record is the last; and `Persisted` that a member about to commit has stored a
  receipt. Evicted members are covered because their commit is refused, and a
  new owner starts at the committed offset. Theorems: `OffsetsFollowReceipts`,
  `ProgressKept`.
* Locks. `LocksHeld` gives each row lock to the transaction and statement that
  holds it. A member that waits for a queue row has a payment in PENDING_RISK,
  for which there is none; whoever else waits, waits for a transaction that does
  not wait, or that waits for one that does not. Theorems: `WaitingEnds` (no
  chain of three waits, hence no cycle), `DeadlockFree`.
* Receipts. `KnowledgeHolds`: what a member read in an earlier statement (the
  event is not stored, or is, or the rows justify the code it chose) still holds
  when it acts on it. This is where the payment lock is needed: without it a
  member could store a receipt that another has made false in between.
  `RecordOfLog` ties the record in hand to its place in the topic.
  Theorems: `ReceiptsJustified`, `AppliedExactlyOnce`.

`RiskWorkerProofs`. `IInv` is the types with `HoldsJob` (from the save on, a
worker's decision is about the event of its record) and `CachedByEvent` (so is
the cached one). Four independent parts extend it. Offsets follow the consumer's
argument: `Persisted`, `OwnersInStep`, `OwnersSettle`; here a failed record is
read again by seeking back, so the position can move down as well as up.
`AnswersCached`: what is published, or left in a producer, or about to be
published, is what the cache holds. `KeysAgree`: a customer's keys are those of
the events that were observed. `WindowsKept`: only events too old for a later
one have left the sorted set. The last three hold while no key has expired, like
the properties they prove. Theorems: `TypeCorrect`, `OffsetsFollowOutputs`,
`OneAnswer`, `FirstUseOnce`, `VelocityIsExact`, for any number of workers,
customers, devices and any finite topics.

`DashboardProofs`. The request only reads (`ReadOnly`), so everything proved of
the writers holds while it runs. The first statement takes a snapshot of rows
that satisfy the writers' invariant; `StatusesFollow` is what the counts need of
it. From it the counts agree by cardinalities: the statuses partition the payments,
and each decided payment has one decision. `MovedOn` relates the snapshot to the
current rows: pending payments only become fewer, rejected records only more. It
gives the order between the totals and the later controls. Theorems: `OneDocument`,
`ControlsFollow`.

`OutboxDeliveryProofs`. The invariant says that due rows are pending, without
repetition; that a claimed row is due; that a publisher about to mark has its
event in the topic; and the three properties. The sequence lemmas (`Removed`,
`Inserted`, `Appended`) say that `due` keeps its elements distinct. Theorems:
`NothingLost`, `QuarantineExact`, `ClaimsAreExclusive`, `FinishedRowsFinal`,
`BackoffExact`. The loop of `deliveryBackoff` is a recursive function, and its
delays are proved by least counterexamples: `LeastNumber` is the well-ordering of
the naturals, `DelaysExist` and `DelaysUnique` say that the loop has exactly one
sequence of delays. `BackoffDoubles`: the delay is the minimum at first, then
doubles up to the maximum, and never leaves that range. With it `TypeCorrect`
bounds `wait`.

`PaymentAcceptanceProofs`. The invariant: an attempt about to commit is the one
its key's index entry names and no row of the key is stored; an attempt that saw
a conflict has a stored row; and the answers are true. Theorems: `TypeCorrect`,
`KeysUnique`, `SuccessDurable`, `ConflictsReal`, `LoserFindsWinner`.

`RiskScoringProofs`. No invariant is needed beyond the types. `RuleScoreMonotone`
compares two payments signal by signal, `DecideMonotone` lifts the order to
verdicts, and every step of `RiskEscalation` is shown to make its case worse.
Theorems: `TypeCorrect`, `VerdictNeverMilder`, `ScoreSound`, for all settings that
`Settings.validate` accepts.

`ServiceProcessProofs`. The invariant has three parts beside the types.
`PhaseOK`: past a phase, what the phase checked holds (the environment loads,
the constructors accept) and the exit code is what `failed` says. `StopOK`: a
server or loop that has returned did so because of the context or a failure, a
loop that closes its client is on the way to one of these, and a forced close is
a failure. `ReqOK`, request by request, is the arithmetic: the
time a request has used is at most what its step allows (`Spent`), and what has
run off its write deadline, or off the drain time of a shutdown that found it in
flight, is at most that. So a drain that expires over a request shows that the
request may last as long. Theorems: `TypeCorrect`, `ConstructorsNeverRefuse`,
`TokensIdentifyReviewers`, `CleanExitIsComplete`, `LostAnswersAreExplained`,
`WorkerNeverHalfAlive`, for any number of requests, any environments, any
timeouts and any pool size.

*Assumptions.* Those named in the modules: `None` and other sentinels are not
ordinary values (nor an answer to a reviewer, a snapshot or a decision), bounds
are natural numbers, the sets of outbox events and, for the dashboard, of
payments and partitions are finite, the dashboard's `Order` lists every event,
members and requests are different processes, `0 < RetryMin <= RetryMax`,
normalisation yields normalised values or `Invalid`, and an environment gives
each duration an integer, `Absent` or `Malformed`. TLC evaluates them in the
runs.

*Only model-checked.* Every invariant and every action property of the passing
runs is a theorem. What is left to TLC is liveness, since fairness and ENABLED
are outside the prover: `EveryRecordSettles`, `EveryRequestAnswered`,
`EveryEventSettles`, `EveryAttemptAnswered`, `EveryInputSettles`,
`StopLeadsToExit` and `EveryRequestEnds`; and the two counterexamples. Type
invariants are theorems; the runs `outbox` and `risk_features` check theirs as well.

## Not modelled

* Streaming analytics: its state is Spark's checkpoint and files, and what
  happens on a replayed micro-batch is decided by Spark; the code here is a
  pipeline of relational transformations.
* The dashboard UI renders one fetched document; model training is an offline
  program; the execution of migrations precedes everything modelled.
* Observability apart from the metrics server and the collector's database
  work: counters, histograms, logs and request ids are written and never read
  back by the services.
* With reset policy `latest` a group without a committed offset skips what was
  produced before its first assignment, by design; `NoRecordSkipped` is stated
  for the default. Likewise `VelocityExact` holds while nothing has expired,
  and FEATURE_STATE_TTL_SECONDS may be set below the velocity window.
* Inside the modelled parts: contents of events and payments beyond what the
  code compares; the outbox counts of the dashboard; idle keep-alive
  connections, header reading and TLS of the HTTP server; clock skew between a
  publisher and PostgreSQL; the exact length of the publisher's own sleep; a
  rollback that PostgreSQL never answers, which has no deadline in the code.
* In `DecisionConsumer` no poll returns a fetch error. One that does holds off
  the next rebalance until a record was handled, so assignment, and with it
  `EveryRecordSettles`, may wait longer than the model shows when a topic goes
  idle after a broker error. That kgo's `Close` and rebalances wait for
  `AllowRebalance` is external, from the library's documentation.
* The second part of `ControlsNotOlder` is about a fixed set of payments. A
  payment accepted between the snapshot of the totals and the count of the
  controls adds to the controls only.
* `VelocityExact` bounds the velocity of an observation out of order from above
  only; that it may be too low is how the pruning works. After an expiry a
  second decision for one event may be published (`NoInputSkipped` and
  `OneAnswerPerEvent` do not exclude it); what the consumer makes of two
  decisions for one payment is shown by `ReceiptsTrue` and `ReconciliationClean`.
* The whole path from an accepted request to a decision as one composition. The
  parts meet only in the outbox rows and in two topics, each of them state of
  the modules on both sides, and each side makes no assumption on the other
  beyond what may be in them: `DecisionConsumer` accepts any sequence of
  records, `RiskWorker` any topic with repetitions, `OutboxDelivery` any rows.
  Composed at this level of detail they are out of TLC's reach.

## Plan

Done: the decision controls (tables, consumer, review, lifecycle), outbox
delivery, payment acceptance, the risk service (scoring, feature store,
worker), the dashboard, the configuration and the processes, with their runs and
the theorems above.

Every safety property of a run is proved as well.

Next, in this order:

1. An abstract specification of the publisher and of the risk worker as relays:
   an input leads to at most one answer, and what was delivered stays delivered.
   `NothingLost` and `OneAnswer` are the invariants its refinement rests on.
2. Lemmas on the dashboard's recent rows: that the `LIMIT` keeps the newest.
