-------------------------- MODULE DecisionControls --------------------------
(***************************************************************************)
(* The decision consumer and the manual review API on the same database,   *)
(* and the properties of the rows they write together.                     *)
(***************************************************************************)
EXTENDS DecisionConsumer, ManualReview

vars == <<rows, locks, faults, consumer, reviews>>

Init == TablesInit /\ ConsumerInit /\ ReviewInit

Next ==
    \/ \E p \in Partitions, r \in Records : Produce(p, r) /\ UNCHANGED reviews
    \/ \E m \in Members, p \in Partitions : Assign(m, p) /\ UNCHANGED reviews
    \/ \E m \in Members, p \in Partitions : Poll(m, p) /\ UNCHANGED reviews
    \/ \E m \in Members :
        \/ Revoke(m) /\ UNCHANGED reviews
        \/ Handle(m) /\ UNCHANGED reviews
        \/ ApplyReceipt(m) /\ UNCHANGED reviews
        \/ LockPayment(m) /\ UNCHANGED reviews
        \/ LoadDecision(m) /\ UNCHANGED reviews
        \/ CheckSource(m) /\ UNCHANGED reviews
        \/ WriteDecision(m) /\ UNCHANGED reviews
        \/ WriteReplay(m) /\ UNCHANGED reviews
        \/ RejectReceipt(m) /\ UNCHANGED reviews
        \/ WriteReject(m) /\ UNCHANGED reviews
        \/ CommitOffset(m) /\ UNCHANGED reviews
        \/ CommitOffsetFails(m) /\ UNCHANGED reviews
        \/ DatabaseError(m) /\ UNCHANGED reviews
        \/ Crash(m) /\ UNCHANGED reviews
        \/ Restart(m) /\ UNCHANGED reviews
    \/ \E r \in Requests, c \in ResolveCommand : Receive(r, c) /\ UNCHANGED consumer
    \/ \E r \in Requests :
        \/ ResolveQueueRow(r) /\ UNCHANGED consumer
        \/ CurrentConflict(r) /\ UNCHANGED consumer
        \/ UpdateReviewedPayment(r) /\ UNCHANGED consumer
        \/ FinishResolve(r) /\ UNCHANGED consumer
        \/ ResolveFails(r) /\ UNCHANGED consumer

Spec == Init /\ [][Next]_vars

FairSpec == Spec /\ ConsumerFairness /\ ReviewFairness

----------------------------------------------------------------------------
(* The types of all variables.                                              *)
TypeOK == TablesTypeOK /\ ConsumerTypeOK /\ ReviewTypeOK

(* The reconciler never finds a row-level exception: no payment has two     *)
(* decisions, every status follows from the decision and the review, every  *)
(* REVIEW decision is queued and nothing else is (reconciliation.go).       *)
(* Members working on the same or on conflicting records, reviewers, lost   *)
(* answers and crashes may interleave in any way.                           *)
ReconciliationClean ==
    /\ DuplicateDecision = {}
    /\ PaymentStatusMismatch = {}
    /\ ReviewQueueMissing = {}
    /\ UnexpectedReviewQueue = {}

(* Run advances a Kafka offset only after Apply or Reject committed: with   *)
(* the default reset every record below the committed offset has a receipt. *)
NoRecordSkipped ==
    AutoOffsetReset = "earliest" =>
        \A p \in Partitions : \A o \in 1..committed[p] : receipts[p][o] # None

(* What a receipt says about its record is true: an accepted record's event *)
(* is stored, and a rejected record's event is not stored and never will be *)
(* since its code still describes the rows.                                 *)
ReceiptJustified(e, c) ==
    CASE c \in Accepted                 -> e \in decisions
      [] c = "invalid_event"            -> e \notin Events
      [] c = "payment_not_found"        -> e.payment \notin Payments
      [] c = "decision_conflict"        ->
            /\ e \notin decisions
            /\ \E d \in decisions : d.id = e.id \/ d.source = e.source
      [] c = "payment_state_conflict"   ->
            /\ e \notin decisions
            /\ \E d \in decisions : d.payment = e.payment

ReceiptsTrue ==
    \A p \in Partitions : \A o \in Offsets :
        receipts[p][o] # None =>
            o <= Len(log[p]) /\ ReceiptJustified(log[p][o], receipts[p][o])

(* The audit trail matches the rows: one SYSTEM entry per stored decision,  *)
(* one reviewer entry per resolved queue row naming the reviewer and the    *)
(* outcome the row records, and no entry for anything else.                 *)
AuditTrailExact ==
    audit = {[type |-> "RISK_DECISION_RECORDED", decision |-> d.id, actor |-> "SYSTEM"] : d \in decisions}
            \cup {[type |-> IF queue[p].status = "APPROVED" THEN "MANUAL_REVIEW_APPROVED"
                            ELSE "MANUAL_REVIEW_REJECTED",
                   decision |-> queue[p].decision, actor |-> queue[p].reviewer] :
                  p \in {q \in Payments : queue[q] # None /\ queue[q].status # "PENDING"}}

(* Exactly one receipt says APPLIED for each stored decision: every other   *)
(* delivery of the event is a replay (store comment on Apply).              *)
AppliedOnce ==
    \A d \in decisions :
        \E p \in Partitions : \E o \in 1..Len(log[p]) :
            /\ log[p][o] = d /\ receipts[p][o] = "APPLIED"
            /\ \A p2 \in Partitions : \A o2 \in 1..Len(log[p2]) :
                  log[p2][o2] = d /\ receipts[p2][o2] = "APPLIED" => p2 = p /\ o2 = o

(* A reviewer who was answered with success is the one the queue row names, *)
(* with the outcome requested: of two reviewers only one is told "ok".      *)
SuccessIsRecorded ==
    \A r \in Requests : response[r] = "ok" =>
        LET p == command[r].payment
        IN  /\ queue[p].reviewer = r
            /\ queue[p].status = actionState[command[r].action].review
            /\ status[p] = actionState[command[r].action].payment

(* The UPDATE of the payment never finds a payment out of REVIEW while the  *)
(* request holds the pending queue row: review_state_conflict is dead code. *)
NoStateConflict == \A r \in Requests : response[r] # "review_state_conflict"

(* Consumers lock payment then queue, reviewers queue then payment: still   *)
(* no transaction waits for one that waits for it.                          *)
WaitsFor(t, u) ==
    \/ t \in Members /\ pc[t] = "lock" /\ value[t].payment \in Payments /\ payLock[value[t].payment] = u
    \/ t \in Requests /\ rpc[t] = "update" /\ Matches(t) /\ queueLock[command[t].payment] = u
    \/ t \in Requests /\ rpc[t] = "payment" /\ payLock[command[t].payment] = u
    \/ /\ t \in Members /\ pc[t] = "write" /\ value[t].verdict = "REVIEW"
       /\ queueLock[value[t].payment] = u

NoDeadlock == \A t, u \in Transactions : ~(WaitsFor(t, u) /\ WaitsFor(u, t))

(* Status steps: a payment leaves PENDING_RISK once, leaves REVIEW once and *)
(* is final afterwards; stored rows are never changed or removed.           *)
Lifecycle == INSTANCE PaymentLifecycle WITH
    Reviewers   <- Requests,
    verdicts    <- [p \in Payments |-> {d.verdict : d \in DecisionsOf(p)}],
    resolutions <- [p \in Payments |->
                      IF queue[p] = None \/ queue[p].status = "PENDING" THEN {}
                      ELSE {<<queue[p].reviewer,
                              IF queue[p].status = "APPROVED" THEN "ALLOWED" ELSE "BLOCKED">>}]
ImplementsLifecycle == Lifecycle!Spec

(* A receipt is immutable (trigger decision_ingestion_records_are_immutable)*)
(* and an offset never moves back while it is the default reset.            *)
ProgressNeverUndone ==
    [][ /\ \A p \in Partitions : \A o \in Offsets :
              receipts[p][o] # None => receipts'[p][o] = receipts[p][o]
        /\ \A p \in Partitions : committed'[p] >= committed[p] ]_vars

(* Every record of the topic is eventually below the committed offset.      *)
EveryRecordSettles ==
    \A p \in Partitions : \A o \in Offsets : o <= Len(log[p]) ~> committed[p] >= o

(* Every review request that was received is answered.                      *)
EveryRequestAnswered == \A r \in Requests : rpc[r] = "update" ~> rpc[r] = "done"
=============================================================================
