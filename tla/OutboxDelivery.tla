--------------------------- MODULE OutboxDelivery ---------------------------
(***************************************************************************)
(* The transactional outbox: publishers claim due rows of outbox_events    *)
(* with FOR UPDATE SKIP LOCKED, publish each row to Kafka while they hold  *)
(* its lock, and mark it published, or record the failure with a backoff,  *)
(* or quarantine it, before the lock is released.                          *)
(*                                                                         *)
(* Time is counted in units of the smallest retry delay.  A pending row    *)
(* whose next_attempt_at lies ahead has a countdown; the rows that are due *)
(* are kept in the order of their next_attempt_at, in which the claiming   *)
(* query returns them.                                                     *)
(*                                                                         *)
(* A publisher's program counter: "down" (not running), "ready" (about to  *)
(* call ProcessNext), "publish" (row claimed, waiting for Kafka), "mark"   *)
(* (acknowledged), "record" (publish failed), "sleep" (between attempts).  *)
(***************************************************************************)
EXTENDS Backoff, FiniteSets, Sequences

CONSTANTS
    Events,       \* payments.created events that the API may commit to the outbox
    Poison,       \* those whose type or envelope publish refuses for good
    Unpublishable,\* those that Kafka never accepts, e.g. over its size limit
    Publishers,   \* outbox-publisher processes
    RetryMin, RetryMax,   \* the configured delays
    MaxAttempts,  \* bound: attempts are counted up to here, where the delay is RetryMax
    MaxFaults,    \* bound: crashes, shutdowns and database errors
    None

ASSUME OutboxAssumption ==
    /\ IsFiniteSet(Events)
    /\ Poison \subseteq Events /\ Unpublishable \subseteq Events
    /\ None \notin Publishers /\ None \notin Events
    /\ RetryMin \in Nat \ {0} /\ RetryMax \in Nat /\ RetryMin <= RetryMax
    /\ MaxAttempts \in Nat /\ MaxFaults \in Nat

VARIABLES
    state,      \* per row: "absent", "pending", "published" or "dead"
    attempts,   \* per row: delivery_attempts
    wait,       \* per row: the time until next_attempt_at, 0 once it has passed
    due,        \* the pending rows that are due, ordered by next_attempt_at
    lock,       \* per row: the publisher whose transaction holds it
    topic,      \* the events of which payments.created holds at least one copy
    pc,         \* per publisher: its next statement
    event,      \* per publisher: the row it has claimed
    stopping,   \* per publisher: whether its context has been cancelled
    faults      \* failures injected so far

rows == <<state, attempts, wait, due>>
publishers == <<pc, event, stopping>>
vars == <<rows, lock, topic, publishers, faults>>

TypeOK ==
    /\ state \in [Events -> {"absent", "pending", "published", "dead"}]
    /\ attempts \in [Events -> 0..MaxAttempts]
    /\ wait \in [Events -> 0..RetryMax]
    /\ due \in Seq(Events)
    /\ lock \in [Events -> Publishers \cup {None}]
    /\ topic \subseteq Events
    /\ pc \in [Publishers -> {"down", "ready", "publish", "mark", "record", "sleep"}]
    /\ event \in [Publishers -> Events \cup {None}]
    /\ stopping \in [Publishers -> BOOLEAN]
    /\ faults \in 0..MaxFaults

Init ==
    /\ state = [e \in Events |-> "absent"]
    /\ attempts = [e \in Events |-> 0]
    /\ wait = [e \in Events |-> 0]
    /\ due = <<>>
    /\ lock = [e \in Events |-> None]
    /\ topic = {}
    /\ pc = [w \in Publishers |-> "ready"]
    /\ event = [w \in Publishers |-> None]
    /\ stopping = [w \in Publishers |-> FALSE]
    /\ faults = 0

Fault == faults < MaxFaults /\ faults' = faults + 1

----------------------------------------------------------------------------
(* The environment.                                                         *)

\* The payment API commits a payment and with it the row.  The row's
\* next_attempt_at is the start of that transaction, so it may be earlier than
\* that of rows which are already visible.
Insert(e) ==
    /\ state[e] = "absent"
    /\ state' = [state EXCEPT ![e] = "pending"]
    /\ \E i \in 0..Len(due) : due' = SubSeq(due, 1, i) \o <<e>> \o SubSeq(due, i + 1, Len(due))
    /\ UNCHANGED <<attempts, wait, lock, topic, publishers, faults>>

\* The orders in which a set of rows with the same next_attempt_at may be returned.
Orders(S) == {s \in [1..Cardinality(S) -> S] : \A i, j \in DOMAIN s : s[i] = s[j] => i = j}

\* One unit of time passes.
Tick ==
    /\ \E e \in Events : wait[e] > 0
    /\ wait' = [e \in Events |-> IF wait[e] > 0 THEN wait[e] - 1 ELSE 0]
    /\ \E s \in Orders({e \in Events : wait[e] = 1}) : due' = due \o s
    /\ UNCHANGED <<state, attempts, lock, topic, publishers, faults>>

----------------------------------------------------------------------------
(* One attempt: ProcessNext with Worker.publish as its callback.            *)

\* Mutant: FOR UPDATE without SKIP LOCKED's check of the lock.
FirstUnlocked_IgnoresLocks(e) == Len(due) > 0 /\ due[1] = e

\* The row that the claiming query returns: the first due row nobody has locked.
FirstUnlocked(e) ==
    \E i \in DOMAIN due : /\ due[i] = e /\ lock[e] = None
                          /\ \A j \in 1..(i - 1) : lock[due[j]] # None

\* The due rows without the claimed row e, whose transaction has given it
\* another time or ended its delivery.
Without(e) ==
    LET i == CHOOSE i \in DOMAIN due : due[i] = e
    IN  SubSeq(due, 1, i - 1) \o SubSeq(due, i + 1, Len(due))

\* The row w leaves: its transaction ends and Run goes on at pc label, or
\* returns when its context was cancelled.
Leave(w, label) ==
    /\ lock' = [e \in Events |-> IF lock[e] = w THEN None ELSE lock[e]]
    /\ event' = [event EXCEPT ![w] = None]
    /\ pc' = [pc EXCEPT ![w] = IF stopping[w] THEN "down" ELSE label]
    /\ stopping' = [stopping EXCEPT ![w] = FALSE]

\* SELECT ... FOR UPDATE SKIP LOCKED LIMIT 1 finds a row.
Claim(w, e) ==
    /\ pc[w] = "ready" /\ FirstUnlocked(e)
    /\ lock' = [lock EXCEPT ![e] = w]
    /\ event' = [event EXCEPT ![w] = e]
    /\ pc' = [pc EXCEPT ![w] = "publish"]
    /\ UNCHANGED <<rows, topic, stopping, faults>>

\* ... or finds none: Run sleeps for the poll interval.
FindNone(w) ==
    /\ pc[w] = "ready" /\ ~\E e \in Events : FirstUnlocked(e)
    /\ pc' = [pc EXCEPT ![w] = "sleep"]
    /\ UNCHANGED <<rows, lock, topic, event, stopping, faults>>

\* Worker.publish refuses the row: wrong event type or invalid envelope.
Refused(e) == e \in Poison

\* Kafka stores the record on all in-sync replicas and acknowledges it.
Acknowledge(w) ==
    /\ pc[w] = "publish" /\ ~Refused(event[w]) /\ event[w] \notin Unpublishable
    /\ topic' = topic \cup {event[w]}
    /\ pc' = [pc EXCEPT ![w] = "mark"]
    /\ UNCHANGED <<rows, lock, event, stopping, faults>>

\* publish returns an error: a refusal, or a Kafka error, timeout or
\* cancellation after which the record may or may not have been stored.
PublishFails(w) ==
    /\ pc[w] = "publish"
    /\ \/ UNCHANGED topic
       \/ ~Refused(event[w]) /\ event[w] \notin Unpublishable /\ topic' = topic \cup {event[w]}
    /\ pc' = [pc EXCEPT ![w] = "record"]
    /\ UNCHANGED <<rows, lock, event, stopping, faults>>

\* Mutant: a failed attempt also ends the row, as if it had been delivered.
RecordFailure_AsPublished(w) ==
    LET e == event[w]
    IN  /\ pc[w] = "record"
        /\ state' = [state EXCEPT ![e] = IF Refused(e) THEN "dead" ELSE "published"]
        /\ due' = Without(e)
        /\ Leave(w, "sleep")
        /\ UNCHANGED <<attempts, wait, topic, faults>>

\* Mutant: every failure quarantines the row.
RecordFailure_AlwaysDead(w) ==
    LET e == event[w]
    IN  /\ pc[w] = "record"
        /\ state' = [state EXCEPT ![e] = "dead"]
        /\ due' = Without(e)
        /\ Leave(w, "sleep")
        /\ UNCHANGED <<attempts, wait, topic, faults>>

\* Mutant: the failed row stays due at its old time.
RecordFailure_NoBackoff(w) ==
    LET e == event[w]
        failedAttempt == IF attempts[e] < MaxAttempts THEN attempts[e] + 1 ELSE attempts[e]
    IN  /\ pc[w] = "record"
        /\ attempts' = [attempts EXCEPT ![e] = failedAttempt]
        /\ state' = [state EXCEPT ![e] = IF Refused(e) THEN "dead" ELSE "pending"]
        /\ due' = IF Refused(e) THEN Without(e) ELSE due
        /\ Leave(w, "sleep")
        /\ UNCHANGED <<wait, topic, faults>>

\* recordFailure, with a context of its own: the attempt is counted, the row is
\* postponed, a permanent failure quarantines it, and the transaction commits.
RecordFailure(w) ==
    LET e == event[w]
        failedAttempt == IF attempts[e] < MaxAttempts THEN attempts[e] + 1 ELSE attempts[e]
    IN  /\ pc[w] = "record"
        /\ attempts' = [attempts EXCEPT ![e] = failedAttempt]
        /\ due' = Without(e)
        /\ wait' = [wait EXCEPT ![e] =
                      IF Refused(e) THEN 0 ELSE deliveryBackoff(failedAttempt, RetryMin, RetryMax)]
        /\ state' = [state EXCEPT ![e] = IF Refused(e) THEN "dead" ELSE "pending"]
        /\ Leave(w, "sleep")
        /\ UNCHANGED <<topic, faults>>

\* Mutant: the published row is still selected as pending work.
MarkPublished_StaysDue(w) ==
    LET e == event[w]
    IN  /\ pc[w] = "mark" /\ ~stopping[w]
        /\ state' = [state EXCEPT ![e] = "published"]
        /\ attempts' = [attempts EXCEPT ![e] = IF @ < MaxAttempts THEN @ + 1 ELSE @]
        /\ Leave(w, "ready")
        /\ UNCHANGED <<due, wait, topic, faults>>

\* Marking the row and committing, within what is left of the attempt's time.
MarkPublished(w) ==
    LET e == event[w]
    IN  /\ pc[w] = "mark" /\ ~stopping[w]
        /\ state' = [state EXCEPT ![e] = "published"]
        /\ attempts' = [attempts EXCEPT ![e] = IF @ < MaxAttempts THEN @ + 1 ELSE @]
        /\ due' = Without(e)
        /\ Leave(w, "ready")
        /\ UNCHANGED <<wait, topic, faults>>

\* COMMIT took effect but its answer was lost: the worker counts an error.
MarkAnswerLost(w) ==
    LET e == event[w]
    IN  /\ pc[w] = "mark" /\ Fault
        /\ state' = [state EXCEPT ![e] = "published"]
        /\ attempts' = [attempts EXCEPT ![e] = IF @ < MaxAttempts THEN @ + 1 ELSE @]
        /\ due' = Without(e)
        /\ Leave(w, "sleep")
        /\ UNCHANGED <<wait, topic>>

\* BEGIN or a statement of the attempt fails, or, in "mark", the attempt's
\* context has expired or was cancelled: the transaction is rolled back.
AttemptFails(w) ==
    /\ pc[w] \in {"ready", "mark", "record"}
    /\ \/ pc[w] = "mark" /\ stopping[w] /\ UNCHANGED faults
       \/ Fault
    /\ Leave(w, "sleep")
    /\ UNCHANGED <<rows, topic>>

\* The sleep between attempts ends.
Wake(w) ==
    /\ pc[w] = "sleep"
    /\ pc' = [pc EXCEPT ![w] = "ready"]
    /\ UNCHANGED <<rows, lock, topic, event, stopping, faults>>

----------------------------------------------------------------------------
(* Shutdown, crash and restart.                                             *)

\* SIGTERM cancels the context.  A sleeping or idle worker returns at once; one
\* in an attempt sees the cancellation as an error of its current call.  The
\* context of recordFailure is not cancelled, so a cancellation during it is
\* one at the sleep that follows.
Cancel(w) ==
    /\ pc[w] \notin {"down", "record"} /\ ~stopping[w] /\ Fault
    /\ IF pc[w] \in {"ready", "sleep"}
       THEN pc' = [pc EXCEPT ![w] = "down"] /\ UNCHANGED stopping
       ELSE stopping' = [stopping EXCEPT ![w] = TRUE] /\ UNCHANGED pc
    /\ UNCHANGED <<rows, lock, topic, event>>

\* The process dies; PostgreSQL rolls its transaction back.
Crash(w) ==
    /\ pc[w] # "down" /\ Fault
    /\ lock' = [e \in Events |-> IF lock[e] = w THEN None ELSE lock[e]]
    /\ event' = [event EXCEPT ![w] = None]
    /\ pc' = [pc EXCEPT ![w] = "down"]
    /\ stopping' = [stopping EXCEPT ![w] = FALSE]
    /\ UNCHANGED <<rows, topic>>

\* The container is restarted.
Restart(w) ==
    /\ pc[w] = "down"
    /\ pc' = [pc EXCEPT ![w] = "ready"]
    /\ UNCHANGED <<rows, lock, topic, event, stopping, faults>>

----------------------------------------------------------------------------
WorkerStep(w) ==
    \/ \E e \in Events : Claim(w, e)
    \/ FindNone(w) \/ Acknowledge(w) \/ PublishFails(w) \/ RecordFailure(w)
    \/ MarkPublished(w) \/ MarkAnswerLost(w) \/ AttemptFails(w) \/ Wake(w) \/ Restart(w)

Next ==
    \/ \E e \in Events : Insert(e)
    \/ Tick
    \/ \E w \in Publishers : WorkerStep(w)
    \/ \E w \in Publishers : Cancel(w)
    \/ \E w \in Publishers : Crash(w)

Spec == Init /\ [][Next]_vars

(* Workers and time go on; Kafka does not fail every attempt of an event    *)
(* that it can accept.                                                      *)
Fairness ==
    /\ WF_vars(Tick)
    /\ \A w \in Publishers : WF_vars(WorkerStep(w))
    /\ \A e \in Events : SF_vars(\E w \in Publishers : event[w] = e /\ Acknowledge(w))

FairSpec == Spec /\ Fairness

----------------------------------------------------------------------------
(* A row marked published is in the topic, whatever crashed, timed out or   *)
(* was answered late in between (Worker.Run, ProcessNext).                  *)
PublishedWasDelivered == \A e \in Events : state[e] = "published" => e \in topic

(* Only rows that publish refuses for good are quarantined, and none of     *)
(* them ever reaches Kafka: retryable failures never end in the dead letter *)
(* state (recordFailure, isPermanent).                                      *)
OnlyPoisonQuarantined ==
    \A e \in Events : /\ state[e] = "dead" => e \in Poison
                      /\ e \in Poison => e \notin topic /\ state[e] # "published"

(* A row is worked on by the publisher that holds its lock and by no other, *)
(* and a lock is held only during an attempt: nothing leaks a claim.        *)
ClaimsExclusive ==
    \A w \in Publishers :
        /\ pc[w] \in {"publish", "mark", "record"} <=> event[w] # None
        /\ \A e \in Events : lock[e] = w <=> event[w] = e

(* Published and quarantined rows are final: no late worker counts another  *)
(* attempt on them or brings them back.                                     *)
TerminalRowsFinal ==
    [][\A e \in Events : state[e] \in {"published", "dead"} =>
            state'[e] = state[e] /\ attempts'[e] = attempts[e]]_vars

(* The comment on Run: "Cancellation aborts an in-flight publish, causing   *)
(* PostgreSQL to roll back so the event remains available after restart."   *)
CancellationRollsBack ==
    [][\A w \in Publishers : stopping[w] /\ pc'[w] = "down" => UNCHANGED rows]_vars

(* Every event that can be published is published, also when other rows     *)
(* fail for ever, because failing rows are ordered behind due ones, and the *)
(* rows that publish refuses end in quarantine (ProcessNext).               *)
EveryEventSettles ==
    /\ \A e \in Events \ (Poison \cup Unpublishable) :
          state[e] = "pending" ~> state[e] = "published"
    /\ \A e \in Poison : state[e] = "pending" ~> state[e] = "dead"
=============================================================================
