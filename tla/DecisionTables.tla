--------------------------- MODULE DecisionTables ---------------------------
(***************************************************************************)
(* The PostgreSQL rows that the risk-decision consumer and the manual      *)
(* review API share: payments.status, payment_decisions,                   *)
(* decision_ingestion_records, audit_events and manual_review_queue, with  *)
(* the row locks their transactions hold, and the reconciliation query     *)
(* that audits the rows.                                                   *)
(*                                                                         *)
(* Only committed rows are modelled: a transaction's writes become visible *)
(* at once when it commits.  The statements before the commit are separate *)
(* steps where they read shared rows or wait for a lock, because the       *)
(* isolation level is READ COMMITTED.                                      *)
(***************************************************************************)
EXTENDS Naturals, FiniteSets

CONSTANTS
    Payments,    \* payments accepted by the API, all stored before any decision
    Events,      \* the well-formed risk.decision.completed events that may occur
    Partitions,  \* partitions of the risk.decisions topic
    MaxRecords,  \* bound: records appended to each partition
    MaxFaults,   \* bound: crashes, database errors, lost answers, evictions
    Members,     \* risk-decision-consumer processes
    Requests,    \* POST /approve and /reject requests, one transaction each
    None         \* absent row, absent record, or no lock holder

Verdicts == {"ALLOW", "REVIEW", "BLOCK"}

\* paymentStatusForDecision: the payment status each verdict leads to.
paymentStatusForDecision == [ALLOW |-> "ALLOWED", REVIEW |-> "REVIEW", BLOCK |-> "BLOCKED"]

PaymentStatuses == {"PENDING_RISK", "ALLOWED", "REVIEW", "BLOCKED"}

(* The permanent error codes a REJECTED receipt stores in error_code.  A    *)
(* receipt is represented by its disposition, and a REJECTED one by its code. *)
RejectionCodes == {"invalid_event", "payment_not_found",
                   "decision_conflict", "payment_state_conflict"}
Accepted       == {"APPLIED", "REPLAYED"}
Dispositions   == Accepted \cup RejectionCodes

Offsets == 1..MaxRecords     \* the n-th record of a partition has Kafka offset n-1
Transactions == Members \cup Requests

ReviewStatuses == {"PENDING", "APPROVED", "REJECTED"}
DecisionIds    == {e.id : e \in Events}
QueueRow == [decision : DecisionIds, status : ReviewStatuses,
             version : 1..2, reviewer : Requests \cup {None}]
AuditTypes == {"RISK_DECISION_RECORDED", "MANUAL_REVIEW_APPROVED", "MANUAL_REVIEW_REJECTED"}
AuditRow == [type : AuditTypes, decision : DecisionIds, actor : Requests \cup {"SYSTEM"}]

\* Every event carries its decision id, payment, source event and verdict; two
\* events are equal exactly when their fingerprints are.
ASSUME EventsAssumption ==
    \A e \in Events : /\ DOMAIN e = {"id", "payment", "source", "verdict"}
                      /\ e.verdict \in Verdicts
ASSUME NoneAssumption ==
    /\ None \notin Payments /\ None \notin Events /\ None \notin Transactions
    /\ None \notin Dispositions /\ None \notin QueueRow
ASSUME ProcessAssumption == Members \cap Requests = {} /\ "SYSTEM" \notin Requests
ASSUME BoundAssumption   == MaxRecords \in Nat /\ MaxFaults \in Nat

VARIABLES
    status,      \* payments.status, by payment
    decisions,   \* rows of payment_decisions
    receipts,    \* decision_ingestion_records, by partition and offset
    audit,       \* rows of audit_events
    queue,       \* manual_review_queue, by payment
    payLock,     \* holder of the row lock on each payment
    queueLock,   \* holder of the row lock on each queue row
    faults       \* failures injected so far

rows  == <<status, decisions, receipts, audit, queue>>
locks == <<payLock, queueLock>>

TablesTypeOK ==
    /\ status \in [Payments -> PaymentStatuses]
    /\ decisions \subseteq Events
    /\ receipts \in [Partitions -> [Offsets -> Dispositions \cup {None}]]
    /\ audit \subseteq AuditRow
    /\ queue \in [Payments -> QueueRow \cup {None}]
    /\ payLock \in [Payments -> Transactions \cup {None}]
    /\ queueLock \in [Payments -> Requests \cup {None}]
    /\ faults \in 0..MaxFaults

TablesInit ==
    /\ status = [p \in Payments |-> "PENDING_RISK"]
    /\ decisions = {}
    /\ receipts = [p \in Partitions |-> [o \in Offsets |-> None]]
    /\ audit = {}
    /\ queue = [p \in Payments |-> None]
    /\ payLock = [p \in Payments |-> None]
    /\ queueLock = [p \in Payments |-> None]
    /\ faults = 0

\* One more failure of the environment, while the bound allows it.
Fault == faults < MaxFaults /\ faults' = faults + 1

\* A lock table after transaction t has ended.
Released(lock, t) == [p \in DOMAIN lock |-> IF lock[p] = t THEN None ELSE lock[p]]

\* Mutant: the connection is returned to the pool with the payment still locked.
EndTransaction_LeaksPaymentLock(t) == UNCHANGED payLock /\ queueLock' = Released(queueLock, t)

\* The end of transaction t: its row locks are released, by COMMIT or ROLLBACK.
EndTransaction(t) == payLock' = Released(payLock, t) /\ queueLock' = Released(queueLock, t)

----------------------------------------------------------------------------
(* The reconciliation query, one operator per exception class.              *)

\* Decision rows of a payment.
DecisionsOf(p) == {d \in decisions : d.payment = p}

\* DUPLICATE_DECISION: payments with more than one automated decision.
DuplicateDecision ==
    {p \in Payments : \E d1, d2 \in DecisionsOf(p) : d1 # d2}

\* The status the query expects of a payment that has decision row d; the
\* queue row is joined on its decision id.
ExpectedStatus(d) ==
    LET joined == {queue[p] : p \in {q \in Payments : queue[q] # None /\ queue[q].decision = d.id}}
    IN  IF d.verdict = "REVIEW" /\ \E q \in joined : q.status = "APPROVED" THEN "ALLOWED"
        ELSE IF d.verdict = "REVIEW" /\ \E q \in joined : q.status = "REJECTED" THEN "BLOCKED"
        ELSE paymentStatusForDecision[d.verdict]

\* PAYMENT_STATUS_MISMATCH
PaymentStatusMismatch ==
    {d \in decisions : d.payment \in Payments /\ status[d.payment] # ExpectedStatus(d)}

\* REVIEW_QUEUE_MISSING
ReviewQueueMissing ==
    {d \in decisions : /\ d.verdict = "REVIEW"
                       /\ ~\E p \in Payments : queue[p] # None /\ queue[p].decision = d.id}

\* UNEXPECTED_REVIEW_QUEUE
UnexpectedReviewQueue ==
    {p \in Payments : /\ queue[p] # None
                      /\ \E d \in decisions : d.id = queue[p].decision /\ d.verdict # "REVIEW"}
=============================================================================
