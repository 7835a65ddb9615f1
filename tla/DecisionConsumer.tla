-------------------------- MODULE DecisionConsumer --------------------------
(***************************************************************************)
(* The risk-decision-consumer: members of one Kafka consumer group read    *)
(* risk.decisions one record at a time, persist each record in PostgreSQL  *)
(* (Apply, or Reject with evidence) and only then commit its offset.       *)
(*                                                                         *)
(* A member is one process running decision.Worker.Run.  Its program       *)
(* counter names the statement it is about to execute:                     *)
(*   "down"     the process is not running                                 *)
(*   "poll"     waiting for a record                                       *)
(*   "handle"   a record is held; an attempt is about to start             *)
(*   "receipt", "lock", "load", "source", "write", "replay"   in Apply     *)
(*   "rejecting", "rejected"                                  in Reject    *)
(*   "commit"   persisted; the Kafka offset is about to be committed       *)
(* An attempt that fails returns to "handle": Run waits and tries again    *)
(* with the same record.                                                   *)
(***************************************************************************)
EXTENDS DecisionTables, Sequences

CONSTANTS
    Malformed,        \* a record value that ParseEvent refuses
    Unstorable,       \* records that the schema refuses to store: events whose
                      \* velocity exceeds INTEGER, and null values (tombstones),
                      \* which ParseEvent refuses and rejected_value cannot hold
    AutoOffsetReset   \* "earliest" or "latest": where a group without offset starts

Records == Events \cup {Malformed} \cup Unstorable

ASSUME RecordsAssumption ==
    /\ Malformed # None /\ Malformed \notin Events \cup Unstorable
    /\ None \notin Unstorable
ASSUME ResetAssumption   == AutoOffsetReset \in {"earliest", "latest"}

VARIABLES
    log,         \* the topic: per partition, the sequence of record values
    committed,   \* per partition, the group's committed offset; 0 when there is none
    owner,       \* per partition, the member it is assigned to
    position,    \* per partition, the owner's fetch position
    pc,          \* per member, the statement it is about to execute
    part,        \* per member, the partition of the record it holds
    offset,      \* per member, the offset of the record it holds
    value,       \* per member, the value of the record it holds
    seen,        \* per member, the payment status Apply read under its lock
    code         \* per member, the rejection code handle passes to Reject

kafka    == <<log, committed, owner, position>>
record   == <<part, offset, value>>
consumer == <<kafka, pc, record, seen, code>>

InApply  == {"receipt", "lock", "load", "source", "write", "replay"}
InReject == {"rejecting", "rejected"}
PCs      == {"down", "poll", "handle", "commit"} \cup InApply \cup InReject

ConsumerTypeOK ==
    /\ log \in [Partitions -> Seq(Records)]
    /\ \A p \in Partitions : Len(log[p]) <= MaxRecords
    /\ committed \in [Partitions -> 0..MaxRecords]
    /\ owner \in [Partitions -> Members \cup {None}]
    /\ position \in [Partitions -> 0..MaxRecords]
    /\ pc \in [Members -> PCs]
    /\ part \in [Members -> Partitions \cup {None}]
    /\ offset \in [Members -> Offsets \cup {None}]
    /\ value \in [Members -> Records \cup {None}]
    /\ seen \in [Members -> PaymentStatuses \cup {None}]
    /\ code \in [Members -> RejectionCodes \cup {None}]

ConsumerInit ==
    /\ log = [p \in Partitions |-> <<>>]
    /\ committed = [p \in Partitions |-> 0]
    /\ owner = [p \in Partitions |-> None]
    /\ position = [p \in Partitions |-> 0]
    /\ pc = [m \in Members |-> "poll"]
    /\ part = [m \in Members |-> None]
    /\ offset = [m \in Members |-> None]
    /\ value = [m \in Members |-> None]
    /\ seen = [m \in Members |-> None]
    /\ code = [m \in Members |-> None]

\* The stored receipt of the record that member m holds.
Receipt(m) == receipts[part[m]][offset[m]]

StoreReceipt(m, d) == receipts' = [receipts EXCEPT ![part[m]][offset[m]] = d]

Goto(m, label) == pc' = [pc EXCEPT ![m] = label]

\* The record and the attempt's local values are dropped.
Forget(m) ==
    /\ part'   = [part   EXCEPT ![m] = None]
    /\ offset' = [offset EXCEPT ![m] = None]
    /\ value'  = [value  EXCEPT ![m] = None]
    /\ seen'   = [seen   EXCEPT ![m] = None]
    /\ code'   = [code   EXCEPT ![m] = None]

\* The partitions of a member that left or was removed from the group.
Disowned(m) == [p \in Partitions |-> IF owner[p] = m THEN None ELSE owner[p]]

----------------------------------------------------------------------------
(* The topic and the consumer group.                                        *)

\* The risk service, or a redelivery by it, appends a record to the topic.
Produce(p, r) ==
    /\ Len(log[p]) < MaxRecords
    /\ log' = [log EXCEPT ![p] = Append(@, r)]
    /\ UNCHANGED <<rows, locks, faults, committed, owner, position, pc, record, seen, code>>

\* The coordinator assigns a free partition.  BlockRebalanceOnPoll keeps a
\* member that holds a record out of a rebalance.
Assign(m, p) ==
    /\ pc[m] = "poll" /\ owner[p] = None
    /\ owner' = [owner EXCEPT ![p] = m]
    /\ position' = [position EXCEPT ![p] =
                      IF committed[p] > 0 THEN committed[p]
                      ELSE IF AutoOffsetReset = "earliest" THEN 0 ELSE Len(log[p])]
    /\ UNCHANGED <<rows, locks, faults, log, committed, pc, record, seen, code>>

\* The coordinator takes all partitions of m away.  At "poll" this is a
\* rebalance; elsewhere m has overstayed the rebalance timeout and goes on
\* working on a record that another member may be given too.
Revoke(m) ==
    /\ Fault
    /\ \E p \in Partitions : owner[p] = m
    /\ owner' = Disowned(m)
    /\ UNCHANGED <<rows, locks, log, committed, position, pc, record, seen, code>>

\* Poll returns the next record of one of the member's partitions.
Poll(m, p) ==
    /\ pc[m] = "poll" /\ owner[p] = m
    /\ position[p] < Len(log[p])
    /\ part'   = [part   EXCEPT ![m] = p]
    /\ offset' = [offset EXCEPT ![m] = position[p] + 1]
    /\ value'  = [value  EXCEPT ![m] = log[p][position[p] + 1]]
    /\ position' = [position EXCEPT ![p] = @ + 1]
    /\ Goto(m, "handle")
    /\ UNCHANGED <<rows, locks, faults, log, committed, owner, seen, code>>

\* handle: ParseEvent decides between Apply and Reject("invalid_event").
Handle(m) ==
    /\ pc[m] = "handle"
    /\ seen' = [seen EXCEPT ![m] = None]
    /\ IF value[m] \notin Events
       THEN /\ code' = [code EXCEPT ![m] = "invalid_event"]
            /\ Goto(m, "rejecting")
       ELSE /\ code' = [code EXCEPT ![m] = None]
            /\ Goto(m, "receipt")
    /\ UNCHANGED <<rows, locks, faults, kafka, record>>

\* Apply fails with an error applicationRejectionCode knows: the transaction
\* is rolled back and handle calls Reject with the code.
RejectWith(m, c) ==
    /\ code' = [code EXCEPT ![m] = c]
    /\ Goto(m, "rejecting")
    /\ EndTransaction(m)
    /\ UNCHANGED <<rows, faults, kafka, record, seen>>

\* Mutant: the worker gives up on the record after the error.
RetryLater_GivesUp(m) ==
    /\ Goto(m, "commit")
    /\ EndTransaction(m)
    /\ UNCHANGED <<rows, kafka, record, seen, code>>

\* Apply or Reject fails with any other error: rollback, wait, try again.
RetryLater(m) ==
    /\ Goto(m, "handle")
    /\ EndTransaction(m)
    /\ UNCHANGED <<rows, kafka, record, seen, code>>

\* COMMIT was executed; its answer arrives, or is lost and the worker retries.
AfterCommit(m) ==
    /\ EndTransaction(m)
    /\ \/ Goto(m, "commit") /\ UNCHANGED faults
       \/ Goto(m, "handle") /\ Fault
    /\ UNCHANGED <<kafka, record, seen, code>>

----------------------------------------------------------------------------
(* Apply: one transaction per attempt.                                      *)

\* existingReceipt: a coordinate that was accepted before needs no more work;
\* one that was rejected before is ErrSourceRecordConflict.
ApplyReceipt(m) ==
    /\ pc[m] = "receipt"
    /\ \/ /\ Receipt(m) = None
          /\ Goto(m, "lock")
          /\ UNCHANGED <<rows, locks, faults, kafka, record, seen, code>>
       \/ /\ Receipt(m) \in RejectionCodes
          /\ RetryLater(m) /\ UNCHANGED faults
       \/ /\ Receipt(m) \in Accepted
          /\ Goto(m, "commit")
          /\ UNCHANGED <<rows, locks, faults, kafka, record, seen, code>>

\* SELECT status ... FOR UPDATE: waits while another transaction holds the row.
LockPayment(m) ==
    LET p == value[m].payment
    IN  /\ pc[m] = "lock"
        /\ \/ p \notin Payments /\ RejectWith(m, "payment_not_found")
           \/ /\ p \in Payments /\ payLock[p] = None
              /\ payLock' = [payLock EXCEPT ![p] = m]
              /\ seen' = [seen EXCEPT ![m] = status[p]]
              /\ Goto(m, "load")
              /\ UNCHANGED <<rows, queueLock, faults, kafka, record, code>>

\* Mutant: any decision with the same id counts as a replay.
LoadDecision_NoFingerprint(m) ==
    LET stored == {d \in decisions : d.id = value[m].id}
    IN  /\ pc[m] = "load"
        /\ IF stored # {} THEN Goto(m, "replay") ELSE Goto(m, "source")
        /\ UNCHANGED <<rows, locks, faults, kafka, record, seen, code>>

\* Load the decision with the event's id and compare fingerprints.
LoadDecision(m) ==
    LET stored == {d \in decisions : d.id = value[m].id}
    IN  /\ pc[m] = "load"
        /\ \/ stored # {} /\ value[m] \notin stored /\ RejectWith(m, "decision_conflict")
           \/ /\ value[m] \in stored
              /\ Goto(m, "replay")
              /\ UNCHANGED <<rows, locks, faults, kafka, record, seen, code>>
           \/ /\ stored = {}
              /\ Goto(m, "source")
              /\ UNCHANGED <<rows, locks, faults, kafka, record, seen, code>>

\* Mutant: the status read under the lock is not checked.
CheckSource_NoStatus(m) ==
    LET taken == \E d \in decisions : d.source = value[m].source
    IN  /\ pc[m] = "source"
        /\ \/ taken /\ RejectWith(m, "decision_conflict")
           \/ /\ ~taken
              /\ Goto(m, "write")
              /\ UNCHANGED <<rows, locks, faults, kafka, record, seen, code>>

\* The source event must not belong to another decision, and the status read
\* under the lock must still be PENDING_RISK.
CheckSource(m) ==
    LET taken == \E d \in decisions : d.source = value[m].source
    IN  /\ pc[m] = "source"
        /\ \/ taken /\ RejectWith(m, "decision_conflict")
           \/ ~taken /\ seen[m] # "PENDING_RISK" /\ RejectWith(m, "payment_state_conflict")
           \/ /\ ~taken /\ seen[m] = "PENDING_RISK"
              /\ Goto(m, "write")
              /\ UNCHANGED <<rows, locks, faults, kafka, record, seen, code>>

\* Mutant: a REVIEW decision is not queued for a reviewer.
InsertDecision_NoQueue(e) ==
    /\ decisions' = decisions \cup {e}
    /\ status' = [status EXCEPT ![e.payment] = paymentStatusForDecision[e.verdict]]
    /\ audit' = audit \cup {[type |-> "RISK_DECISION_RECORDED",
                             decision |-> e.id, actor |-> "SYSTEM"]}
    /\ UNCHANGED queue

\* Mutant: the payment keeps its status.
InsertDecision_NoStatus(e) ==
    /\ decisions' = decisions \cup {e}
    /\ UNCHANGED status
    /\ audit' = audit \cup {[type |-> "RISK_DECISION_RECORDED",
                             decision |-> e.id, actor |-> "SYSTEM"]}
    /\ queue' = IF e.verdict = "REVIEW"
                THEN [queue EXCEPT ![e.payment] =
                        [decision |-> e.id, status |-> "PENDING", version |-> 1, reviewer |-> None]]
                ELSE queue

\* The rows an accepted decision adds or changes.
InsertDecision(e) ==
    /\ decisions' = decisions \cup {e}
    /\ status' = [status EXCEPT ![e.payment] = paymentStatusForDecision[e.verdict]]
    /\ audit' = audit \cup {[type |-> "RISK_DECISION_RECORDED",
                             decision |-> e.id, actor |-> "SYSTEM"]}
    /\ queue' = IF e.verdict = "REVIEW"
                THEN [queue EXCEPT ![e.payment] =
                        [decision |-> e.id, status |-> "PENDING", version |-> 1, reviewer |-> None]]
                ELSE queue

\* A unique key of payment_decisions, audit_events or manual_review_queue that
\* another committed transaction has taken since the checks.
UniqueViolation(e) ==
    \/ \E d \in decisions : d.id = e.id \/ d.source = e.source
    \/ \E a \in audit : a.type = "RISK_DECISION_RECORDED" /\ a.decision = e.id
    \/ e.verdict = "REVIEW" /\ \/ queue[e.payment] # None
                               \/ \E p \in Payments : queue[p] # None /\ queue[p].decision = e.id

\* The INSERT of the decision, its audit row or its queue row fails.
Refused(e) == e \in Unstorable \/ UniqueViolation(e)

\* INSERT decision, guarded UPDATE of the payment, INSERT audit, INSERT queue,
\* insertReceipt, COMMIT.  The INSERT into the queue would wait for a request
\* that holds the row with its key; here the whole write waits for it, the
\* guarded UPDATE included.
WriteDecision(m) ==
    LET e == value[m]
    IN  /\ pc[m] = "write"
        /\ e.verdict = "REVIEW" => queueLock[e.payment] = None
        /\ \/ Refused(e) /\ RetryLater(m) /\ UNCHANGED faults
           \/ /\ ~Refused(e) /\ status[e.payment] # "PENDING_RISK"
              /\ RejectWith(m, "payment_state_conflict")
           \/ /\ ~Refused(e) /\ status[e.payment] = "PENDING_RISK"
              /\ Receipt(m) \in RejectionCodes
              /\ RetryLater(m) /\ UNCHANGED faults
           \/ /\ ~Refused(e) /\ status[e.payment] = "PENDING_RISK"
              /\ Receipt(m) \notin RejectionCodes
              /\ InsertDecision(e)
              /\ IF Receipt(m) = None THEN StoreReceipt(m, "APPLIED") ELSE UNCHANGED receipts
              /\ AfterCommit(m)

\* Mutant: the replay is recorded as a second application.
WriteReplay_AsApplied(m) ==
    /\ pc[m] = "replay"
    /\ \/ Receipt(m) \in RejectionCodes /\ RetryLater(m) /\ UNCHANGED faults
       \/ /\ Receipt(m) \notin RejectionCodes
          /\ IF Receipt(m) = None THEN StoreReceipt(m, "APPLIED") ELSE UNCHANGED receipts
          /\ AfterCommit(m)
          /\ UNCHANGED <<status, decisions, audit, queue>>

\* A replay of a stored decision adds only its own receipt.
WriteReplay(m) ==
    /\ pc[m] = "replay"
    /\ \/ Receipt(m) \in RejectionCodes /\ RetryLater(m) /\ UNCHANGED faults
       \/ /\ Receipt(m) \notin RejectionCodes
          /\ IF Receipt(m) = None THEN StoreReceipt(m, "REPLAYED") ELSE UNCHANGED receipts
          /\ AfterCommit(m)
          /\ UNCHANGED <<status, decisions, audit, queue>>

----------------------------------------------------------------------------
(* Reject: one transaction.                                                 *)

\* Mutant: a record that was rejected before is refused again.
RejectReceipt_NotIdempotent(m) ==
    /\ pc[m] = "rejecting"
    /\ \/ /\ Receipt(m) = None
          /\ Goto(m, "rejected")
          /\ UNCHANGED <<rows, locks, faults, kafka, record, seen, code>>
       \/ /\ Receipt(m) # None
          /\ RetryLater(m) /\ UNCHANGED faults

\* Reject's existingReceipt: already rejected is success, already accepted is
\* ErrSourceRecordConflict.
RejectReceipt(m) ==
    /\ pc[m] = "rejecting"
    /\ \/ /\ Receipt(m) = None
          /\ Goto(m, "rejected")
          /\ UNCHANGED <<rows, locks, faults, kafka, record, seen, code>>
       \/ /\ Receipt(m) \in RejectionCodes
          /\ Goto(m, "commit")
          /\ UNCHANGED <<rows, locks, faults, kafka, record, seen, code>>
       \/ /\ Receipt(m) \in Accepted
          /\ RetryLater(m) /\ UNCHANGED faults

\* INSERT the rejected record and COMMIT.
WriteReject(m) ==
    /\ pc[m] = "rejected"
    /\ \/ /\ Receipt(m) # None \/ value[m] \in Unstorable \ Events
          /\ RetryLater(m) /\ UNCHANGED faults
       \/ /\ Receipt(m) = None /\ value[m] \notin Unstorable \ Events
          /\ StoreReceipt(m, code[m])
          /\ AfterCommit(m)
          /\ UNCHANGED <<status, decisions, audit, queue>>

----------------------------------------------------------------------------
(* The offset commit and the failures.                                      *)

\* Mutant: the commit is not fenced by the group generation.
CommitOffset_Unfenced(m) ==
    /\ pc[m] = "commit"
    /\ committed' = [committed EXCEPT ![part[m]] = offset[m]]
    /\ Goto(m, "poll") /\ Forget(m)
    /\ UNCHANGED <<rows, locks, faults, log, owner, position>>

\* CommitRecords succeeds for the current owner of the partition.
CommitOffset(m) ==
    /\ pc[m] = "commit" /\ owner[part[m]] = m
    /\ committed' = [committed EXCEPT ![part[m]] = offset[m]]
    /\ Goto(m, "poll") /\ Forget(m)
    /\ UNCHANGED <<rows, locks, faults, log, owner, position>>

\* CommitRecords fails: the member is no longer in the group, or the broker's
\* answer is an error or lost after the commit took effect.  Run returns the
\* error and the process leaves the group.
CommitOffsetFails(m) ==
    /\ pc[m] = "commit"
    /\ \/ owner[part[m]] # m /\ UNCHANGED <<committed, faults>>
       \/ /\ owner[part[m]] = m /\ Fault
          /\ \/ UNCHANGED committed
             \/ committed' = [committed EXCEPT ![part[m]] = offset[m]]
    /\ owner' = Disowned(m)
    /\ Goto(m, "down") /\ Forget(m)
    /\ UNCHANGED <<rows, locks, log, position>>

\* A statement fails or the attempt's deadline expires: rollback and retry.
DatabaseError(m) ==
    /\ pc[m] \in InApply \cup InReject
    /\ Fault /\ RetryLater(m)

\* The process dies or is stopped; PostgreSQL rolls its transaction back.
Crash(m) ==
    /\ pc[m] # "down" /\ Fault
    /\ owner' = Disowned(m)
    /\ Goto(m, "down") /\ Forget(m)
    /\ EndTransaction(m)
    /\ UNCHANGED <<rows, log, committed, position>>

\* The container is restarted (restart: unless-stopped).
Restart(m) ==
    /\ pc[m] = "down"
    /\ Goto(m, "poll")
    /\ UNCHANGED <<rows, locks, faults, kafka, record, seen, code>>

\* The steps a running member takes by itself.
MemberStep(m) ==
    \/ \E p \in Partitions : Poll(m, p)
    \/ Handle(m)
    \/ ApplyReceipt(m) \/ LockPayment(m) \/ LoadDecision(m) \/ CheckSource(m)
    \/ WriteDecision(m) \/ WriteReplay(m)
    \/ RejectReceipt(m) \/ WriteReject(m)
    \/ CommitOffset(m) \/ CommitOffsetFails(m)
    \/ Restart(m)

\* Members keep running and are restarted; the coordinator assigns partitions.
ConsumerFairness ==
    /\ \A m \in Members : WF_<<rows, locks, faults, consumer>>(MemberStep(m))
    /\ \A p \in Partitions : WF_<<rows, locks, faults, consumer>>(\E m \in Members : Assign(m, p))
=============================================================================
