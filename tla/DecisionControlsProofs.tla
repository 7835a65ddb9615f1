----------------------- MODULE DecisionControlsProofs -----------------------
(***************************************************************************)
(* Proofs about DecisionControls for every set of payments, events,        *)
(* members, requests and partitions and every value of the bounds.         *)
(***************************************************************************)
EXTENDS DecisionControls, TLAPS

(* A member between Poll and the offset commit holds a record; in Apply the *)
(* record is an event, in Reject a code has been chosen.                    *)
HoldsRecord ==
    \A m \in Members :
        /\ pc[m] \notin {"down", "poll"} =>
              part[m] \in Partitions /\ offset[m] \in Offsets /\ value[m] \in Records
        /\ pc[m] \in InApply => value[m] \in Events
        /\ pc[m] \in {"load", "source", "write", "replay"} => value[m].payment \in Payments
        /\ pc[m] \in InReject => code[m] \in RejectionCodes

(* A request in its transaction holds the pending row it will resolve, and  *)
(* once past the payment UPDATE also the payment, which is in REVIEW.       *)
HoldsRow ==
    \A r \in Requests :
        /\ rpc[r] # "idle" => command[r] \in ResolveCommand
        /\ rpc[r] \in {"payment", "finish"} =>
              LET p == command[r].payment
              IN  /\ queueLock[p] = r
                  /\ queue[p] # None
                  /\ queue[p].status = "PENDING" /\ queue[p].version = 1
                  /\ found[r] = queue[p].decision

(* A payment is pending exactly as long as it has no decision, and then has *)
(* one; its decision determines whether it has a queue row, and both its    *)
(* status.                                                                  *)
StatusOf(p, d) ==
    IF d.verdict = "REVIEW"
    THEN IF queue[p].status = "PENDING" THEN "REVIEW"
         ELSE IF queue[p].status = "APPROVED" THEN "ALLOWED" ELSE "BLOCKED"
    ELSE paymentStatusForDecision[d.verdict]

DecisionsUnique ==
    \A d1, d2 \in decisions : d1.payment = d2.payment \/ d1.id = d2.id => d1 = d2

RowsAgree ==
    /\ \A d \in decisions :
          /\ d.payment \in Payments
          /\ status[d.payment] = StatusOf(d.payment, d)
          /\ d.verdict = "REVIEW" => queue[d.payment] # None /\ queue[d.payment].decision = d.id
    /\ \A p \in Payments :
          /\ (\A d \in decisions : d.payment # p) => status[p] = "PENDING_RISK"
          /\ queue[p] # None => /\ \E d \in decisions : d.payment = p /\ d.verdict = "REVIEW"
                                /\ queue[p].status = "PENDING" => queue[p].version = 1

IInv == TypeOK /\ HoldsRecord /\ HoldsRow /\ DecisionsUnique /\ RowsAgree

----------------------------------------------------------------------------
(* The initial state satisfies the inductive invariant.                     *)
LEMMA InitIInv == Init => IInv
<1> SUFFICES ASSUME Init PROVE IInv
    OBVIOUS
<1> USE DEF Init, TablesInit, ConsumerInit, ReviewInit
<1>1. TablesTypeOK
    BY BoundAssumption DEF TablesTypeOK, PaymentStatuses
<1>2. ConsumerTypeOK
    BY BoundAssumption DEF ConsumerTypeOK, PCs
<1>3. ReviewTypeOK
    BY DEF ReviewTypeOK, RequestPCs
<1>4. HoldsRecord /\ HoldsRow /\ DecisionsUnique /\ RowsAgree
    BY DEF HoldsRecord, HoldsRow, DecisionsUnique, RowsAgree, InApply, InReject
<1> QED BY <1>1, <1>2, <1>3, <1>4 DEF IInv, TypeOK

(* Releasing the locks of a transaction keeps lock tables well-typed and    *)
(* leaves the locks of every other transaction alone.                       *)
LEMMA ReleasedLocks ==
    ASSUME TablesTypeOK, NEW t, EndTransaction(t)
    PROVE  /\ payLock' \in [Payments -> Transactions \cup {None}]
           /\ queueLock' \in [Payments -> Requests \cup {None}]
           /\ \A r \in Requests : \A p \in Payments : r # t /\ queueLock[p] = r => queueLock'[p] = r
BY DEF TablesTypeOK, EndTransaction, Released

(* A step that leaves the payments, decisions and queue alone keeps them in *)
(* agreement.                                                               *)
LEMMA RowsStutter ==
    ASSUME DecisionsUnique, RowsAgree, UNCHANGED <<status, decisions, queue>>
    PROVE  DecisionsUnique' /\ RowsAgree'
BY DEF DecisionsUnique, RowsAgree, StatusOf

(* A step of a member that leaves the queue alone does not disturb requests. *)
LEMMA HoldsRowStutter ==
    ASSUME HoldsRow, UNCHANGED <<queue, reviews>>, TablesTypeOK,
           \/ UNCHANGED queueLock
           \/ \E m \in Members : EndTransaction(m)
    PROVE  HoldsRow'
<1>1. ASSUME NEW r \in Requests, rpc[r] \in {"payment", "finish"}
      PROVE  queueLock'[command[r].payment] = r
    BY <1>1, ReleasedLocks, ProcessAssumption DEF HoldsRow, ResolveCommand
<1> QED BY <1>1 DEF HoldsRow, reviews
----------------------------------------------------------------------------
(* The steps of members and of their environment, one lemma per action:     *)
(* types, the record held, the rows held by requests, and the rows          *)
(* themselves, which only WriteDecision changes.                            *)

(* A new record in the topic disturbs nobody.                               *)
LEMMA ProduceStep ==
    ASSUME IInv, NEW p \in Partitions, NEW r \in Records, Produce(p, r), UNCHANGED reviews
    PROVE  IInv'
<1> USE DEF IInv, TypeOK, rows, locks, kafka, record
<1>1. TablesTypeOK'
    BY DEF TablesTypeOK, Produce
<1>2. ConsumerTypeOK'
    BY BoundAssumption DEF ConsumerTypeOK, PCs, InApply, InReject, RejectionCodes, Offsets, Produce
<1>3. ReviewTypeOK'
    BY DEF ReviewTypeOK, reviews
<1>4. HoldsRecord'
    BY DEF HoldsRecord, ConsumerTypeOK, InApply, InReject, Produce
<1>5. UNCHANGED <<status, decisions, queue>>
    BY DEF Produce
<1>6. HoldsRow'
    BY <1>5, HoldsRowStutter DEF Produce
<1> QED BY <1>1, <1>2, <1>3, <1>4, <1>5, <1>6, RowsStutter

(* An assignment moves only the fetch position.                             *)
LEMMA AssignStep ==
    ASSUME IInv, NEW m \in Members, NEW p \in Partitions, Assign(m, p), UNCHANGED reviews
    PROVE  IInv'
<1> USE DEF IInv, TypeOK, rows, locks, kafka, record
<1>1. TablesTypeOK'
    BY DEF TablesTypeOK, Assign
<1>2. ConsumerTypeOK'
    BY BoundAssumption DEF ConsumerTypeOK, PCs, InApply, InReject, RejectionCodes, Offsets, Assign
<1>3. ReviewTypeOK'
    BY DEF ReviewTypeOK, reviews
<1>4. HoldsRecord'
    BY DEF HoldsRecord, ConsumerTypeOK, InApply, InReject, Assign
<1>5. UNCHANGED <<status, decisions, queue>>
    BY DEF Assign
<1>6. HoldsRow'
    BY <1>5, HoldsRowStutter DEF Assign
<1> QED BY <1>1, <1>2, <1>3, <1>4, <1>5, <1>6, RowsStutter

(* Poll gives the member a record of the topic.                             *)
LEMMA PollStep ==
    ASSUME IInv, NEW m \in Members, NEW p \in Partitions, Poll(m, p), UNCHANGED reviews
    PROVE  IInv'
<1> USE DEF IInv, TypeOK, rows, locks, kafka, record
<1>1. TablesTypeOK'
    BY DEF TablesTypeOK, Poll
<1>2. ConsumerTypeOK'
    BY BoundAssumption DEF ConsumerTypeOK, PCs, InApply, InReject, RejectionCodes, Offsets,
           Poll, Goto
<1>3. ReviewTypeOK'
    BY DEF ReviewTypeOK, reviews
<1>4. HoldsRecord'
    BY BoundAssumption, RecordsAssumption DEF HoldsRecord, ConsumerTypeOK, InApply, InReject,
           Records, Offsets, Poll, Goto
<1>5. UNCHANGED <<status, decisions, queue>>
    BY DEF Poll
<1>6. HoldsRow'
    BY <1>5, HoldsRowStutter DEF Poll
<1> QED BY <1>1, <1>2, <1>3, <1>4, <1>5, <1>6, RowsStutter

(* A member whose partitions are taken away keeps its record.               *)
LEMMA RevokeStep ==
    ASSUME IInv, NEW m \in Members, Revoke(m), UNCHANGED reviews
    PROVE  IInv'
<1> USE DEF IInv, TypeOK, rows, locks, kafka, record
<1>1. TablesTypeOK'
    BY BoundAssumption DEF TablesTypeOK, Revoke, Fault
<1>2. ConsumerTypeOK'
    BY DEF ConsumerTypeOK, PCs, InApply, InReject, RejectionCodes, Revoke, Disowned
<1>3. ReviewTypeOK'
    BY DEF ReviewTypeOK, reviews
<1>4. HoldsRecord'
    BY DEF HoldsRecord, ConsumerTypeOK, InApply, InReject, Revoke
<1>5. UNCHANGED <<status, decisions, queue>>
    BY DEF Revoke
<1>6. HoldsRow'
    BY <1>5, HoldsRowStutter DEF Revoke
<1> QED BY <1>1, <1>2, <1>3, <1>4, <1>5, <1>6, RowsStutter

(* handle chooses Apply for events and Reject for malformed records.        *)
LEMMA HandleStep ==
    ASSUME IInv, NEW m \in Members, Handle(m), UNCHANGED reviews
    PROVE  IInv'
<1> USE DEF IInv, TypeOK, rows, locks, kafka, record
<1>1. TablesTypeOK'
    BY DEF TablesTypeOK, Handle
<1>2. ConsumerTypeOK'
    BY DEF ConsumerTypeOK, PCs, InApply, InReject, RejectionCodes, Handle, Goto
<1>3. ReviewTypeOK'
    BY DEF ReviewTypeOK, reviews
<1>4. HoldsRecord'
    BY DEF HoldsRecord, ConsumerTypeOK, InApply, InReject, RejectionCodes, Records, Handle, Goto
<1>5. UNCHANGED <<status, decisions, queue>>
    BY DEF Handle
<1>6. HoldsRow'
    BY <1>5, HoldsRowStutter DEF Handle
<1> QED BY <1>1, <1>2, <1>3, <1>4, <1>5, <1>6, RowsStutter

(* The receipt lookup of Apply changes no row.                              *)
LEMMA ApplyReceiptStep ==
    ASSUME IInv, NEW m \in Members, ApplyReceipt(m), UNCHANGED reviews
    PROVE  IInv'
<1> USE DEF IInv, TypeOK, rows, locks, kafka, record
<1>0. UNCHANGED locks \/ EndTransaction(m)
    BY DEF ApplyReceipt, RetryLater
<1>1. TablesTypeOK'
    BY <1>0, ReleasedLocks DEF TablesTypeOK, ApplyReceipt, RetryLater
<1>2. ConsumerTypeOK'
    BY DEF ConsumerTypeOK, PCs, InApply, InReject, RejectionCodes, ApplyReceipt, Goto, RetryLater
<1>3. ReviewTypeOK'
    BY DEF ReviewTypeOK, reviews
<1>4. HoldsRecord'
    BY DEF HoldsRecord, ConsumerTypeOK, InApply, InReject, ApplyReceipt, Goto, RetryLater
<1>5. UNCHANGED <<status, decisions, queue>>
    BY DEF ApplyReceipt, RetryLater
<1>6. HoldsRow'
    BY <1>0, <1>5, HoldsRowStutter DEF ApplyReceipt
<1> QED BY <1>1, <1>2, <1>3, <1>4, <1>5, <1>6, RowsStutter

(* Locking a payment, or finding none, changes no row.                      *)
LEMMA LockPaymentStep ==
    ASSUME IInv, NEW m \in Members, LockPayment(m), UNCHANGED reviews
    PROVE  IInv'
<1> USE DEF IInv, TypeOK, rows, locks, kafka, record
<1>0. UNCHANGED locks \/ EndTransaction(m) \/ UNCHANGED queueLock
    BY DEF LockPayment, RejectWith
<1>1. TablesTypeOK'
    BY <1>0, ReleasedLocks DEF TablesTypeOK, Transactions, LockPayment, RejectWith
<1>2. ConsumerTypeOK'
  <2>1. CASE RejectWith(m, "payment_not_found")
    BY <2>1 DEF RejectWith, Goto, ConsumerTypeOK, PCs, InReject, RejectionCodes
  <2>2. CASE value[m].payment \in Payments
    <3>1. seen' \in [Members -> PaymentStatuses \cup {None}]
      BY <2>2 DEF LockPayment, RejectWith, ConsumerTypeOK, TablesTypeOK
    <3>2. pc' \in [Members -> PCs] /\ code' \in [Members -> RejectionCodes \cup {None}]
      BY <2>2 DEF LockPayment, RejectWith, Goto, ConsumerTypeOK, PCs, InApply
    <3> QED BY <2>2, <3>1, <3>2 DEF LockPayment, RejectWith, ConsumerTypeOK
  <2> QED BY <2>1, <2>2 DEF LockPayment
<1>3. ReviewTypeOK'
    BY DEF ReviewTypeOK, reviews
<1>4. HoldsRecord'
    BY DEF HoldsRecord, ConsumerTypeOK, InApply, InReject, RejectionCodes, LockPayment, Goto,
           RejectWith
<1>5. UNCHANGED <<status, decisions, queue>>
    BY DEF LockPayment, RejectWith
<1>6. HoldsRow'
    BY <1>0, <1>5, HoldsRowStutter DEF LockPayment
<1> QED BY <1>1, <1>2, <1>3, <1>4, <1>5, <1>6, RowsStutter

(* Looking the decision up changes no row.                                  *)
LEMMA LoadDecisionStep ==
    ASSUME IInv, NEW m \in Members, LoadDecision(m), UNCHANGED reviews
    PROVE  IInv'
<1> USE DEF IInv, TypeOK, rows, locks, kafka, record
<1>0. UNCHANGED locks \/ EndTransaction(m)
    BY DEF LoadDecision, RejectWith
<1>1. TablesTypeOK'
    BY <1>0, ReleasedLocks DEF TablesTypeOK, LoadDecision, RejectWith
<1>2. ConsumerTypeOK'
    BY DEF ConsumerTypeOK, PCs, InApply, InReject, RejectionCodes, LoadDecision, Goto, RejectWith
<1>3. ReviewTypeOK'
    BY DEF ReviewTypeOK, reviews
<1>4. HoldsRecord'
    BY DEF HoldsRecord, ConsumerTypeOK, InApply, InReject, RejectionCodes, LoadDecision, Goto,
           RejectWith
<1>5. UNCHANGED <<status, decisions, queue>>
    BY DEF LoadDecision, RejectWith
<1>6. HoldsRow'
    BY <1>0, <1>5, HoldsRowStutter DEF LoadDecision
<1> QED BY <1>1, <1>2, <1>3, <1>4, <1>5, <1>6, RowsStutter

(* The checks before the insert change no row.                              *)
LEMMA CheckSourceStep ==
    ASSUME IInv, NEW m \in Members, CheckSource(m), UNCHANGED reviews
    PROVE  IInv'
<1> USE DEF IInv, TypeOK, rows, locks, kafka, record
<1>0. UNCHANGED locks \/ EndTransaction(m)
    BY DEF CheckSource, RejectWith
<1>1. TablesTypeOK'
    BY <1>0, ReleasedLocks DEF TablesTypeOK, CheckSource, RejectWith
<1>2. ConsumerTypeOK'
    BY DEF ConsumerTypeOK, PCs, InApply, InReject, RejectionCodes, CheckSource, Goto, RejectWith
<1>3. ReviewTypeOK'
    BY DEF ReviewTypeOK, reviews
<1>4. HoldsRecord'
    BY DEF HoldsRecord, ConsumerTypeOK, InApply, InReject, RejectionCodes, CheckSource, Goto,
           RejectWith
<1>5. UNCHANGED <<status, decisions, queue>>
    BY DEF CheckSource, RejectWith
<1>6. HoldsRow'
    BY <1>0, <1>5, HoldsRowStutter DEF CheckSource
<1> QED BY <1>1, <1>2, <1>3, <1>4, <1>5, <1>6, RowsStutter

(* A replay stores a receipt only.                                          *)
LEMMA WriteReplayStep ==
    ASSUME IInv, NEW m \in Members, WriteReplay(m), UNCHANGED reviews
    PROVE  IInv'
<1> USE DEF IInv, TypeOK, rows, locks, kafka, record
<1>0. UNCHANGED locks \/ EndTransaction(m)
    BY DEF WriteReplay, RetryLater, AfterCommit
<1>1. TablesTypeOK'
  <2>1. receipts' \in [Partitions -> [Offsets -> Dispositions \cup {None}]]
    <3>1. part[m] \in Partitions /\ offset[m] \in Offsets /\ "REPLAYED" \in Dispositions
      BY DEF WriteReplay, HoldsRecord, InApply, InReject, Dispositions, Accepted
    <3> QED BY <3>1 DEF WriteReplay, StoreReceipt, RetryLater, TablesTypeOK
  <2>2. faults' \in 0..MaxFaults
    BY BoundAssumption DEF WriteReplay, RetryLater, AfterCommit, Fault, TablesTypeOK
  <2>3. UNCHANGED <<status, decisions, audit, queue>>
    BY DEF WriteReplay, RetryLater
  <2> QED BY <1>0, <2>1, <2>2, <2>3, ReleasedLocks DEF TablesTypeOK
<1>2. ConsumerTypeOK'
    BY DEF ConsumerTypeOK, PCs, InApply, InReject, RejectionCodes, WriteReplay, Goto,
           RetryLater, AfterCommit
<1>3. ReviewTypeOK'
    BY DEF ReviewTypeOK, reviews
<1>4. HoldsRecord'
    BY DEF HoldsRecord, ConsumerTypeOK, InApply, InReject, WriteReplay, Goto, RetryLater,
           AfterCommit
<1>5. UNCHANGED <<status, decisions, queue>>
    BY DEF WriteReplay, RetryLater
<1>6. HoldsRow'
    BY <1>0, <1>5, HoldsRowStutter DEF WriteReplay
<1> QED BY <1>1, <1>2, <1>3, <1>4, <1>5, <1>6, RowsStutter

(* The receipt lookup of Reject changes no row.                             *)
LEMMA RejectReceiptStep ==
    ASSUME IInv, NEW m \in Members, RejectReceipt(m), UNCHANGED reviews
    PROVE  IInv'
<1> USE DEF IInv, TypeOK, rows, locks, kafka, record
<1>0. UNCHANGED locks \/ EndTransaction(m)
    BY DEF RejectReceipt, RetryLater
<1>1. TablesTypeOK'
    BY <1>0, ReleasedLocks DEF TablesTypeOK, RejectReceipt, RetryLater
<1>2. ConsumerTypeOK'
    BY DEF ConsumerTypeOK, PCs, InApply, InReject, RejectionCodes, RejectReceipt, Goto, RetryLater
<1>3. ReviewTypeOK'
    BY DEF ReviewTypeOK, reviews
<1>4. HoldsRecord'
    BY DEF HoldsRecord, ConsumerTypeOK, InApply, InReject, RejectReceipt, Goto, RetryLater
<1>5. UNCHANGED <<status, decisions, queue>>
    BY DEF RejectReceipt, RetryLater
<1>6. HoldsRow'
    BY <1>0, <1>5, HoldsRowStutter DEF RejectReceipt
<1> QED BY <1>1, <1>2, <1>3, <1>4, <1>5, <1>6, RowsStutter

(* A rejection stores a receipt only.                                       *)
LEMMA WriteRejectStep ==
    ASSUME IInv, NEW m \in Members, WriteReject(m), UNCHANGED reviews
    PROVE  IInv'
<1> USE DEF IInv, TypeOK, rows, locks, kafka, record
<1>0. UNCHANGED locks \/ EndTransaction(m)
    BY DEF WriteReject, RetryLater, AfterCommit
<1>1. TablesTypeOK'
  <2>1. receipts' \in [Partitions -> [Offsets -> Dispositions \cup {None}]]
    <3>1. part[m] \in Partitions /\ offset[m] \in Offsets /\ code[m] \in Dispositions
      BY DEF WriteReject, HoldsRecord, InApply, InReject, Dispositions, Accepted
    <3>2. UNCHANGED receipts \/ StoreReceipt(m, code[m])
      BY DEF WriteReject, RetryLater
    <3> QED BY <3>1, <3>2 DEF StoreReceipt, TablesTypeOK
  <2>2. faults' \in 0..MaxFaults
    BY BoundAssumption DEF WriteReject, RetryLater, AfterCommit, Fault, TablesTypeOK
  <2>3. UNCHANGED <<status, decisions, audit, queue>>
    BY DEF WriteReject, RetryLater
  <2> QED BY <1>0, <2>1, <2>2, <2>3, ReleasedLocks DEF TablesTypeOK
<1>2. ConsumerTypeOK'
    BY DEF ConsumerTypeOK, PCs, InApply, InReject, RejectionCodes, WriteReject, Goto,
           RetryLater, AfterCommit
<1>3. ReviewTypeOK'
    BY DEF ReviewTypeOK, reviews
<1>4. HoldsRecord'
    BY DEF HoldsRecord, ConsumerTypeOK, InApply, InReject, WriteReject, Goto, RetryLater,
           AfterCommit
<1>5. UNCHANGED <<status, decisions, queue>>
    BY DEF WriteReject, RetryLater
<1>6. HoldsRow'
    BY <1>0, <1>5, HoldsRowStutter DEF WriteReject
<1> QED BY <1>1, <1>2, <1>3, <1>4, <1>5, <1>6, RowsStutter

(* The offset commit ends the work on a record.                             *)
LEMMA CommitOffsetStep ==
    ASSUME IInv, NEW m \in Members, CommitOffset(m), UNCHANGED reviews
    PROVE  IInv'
<1> USE DEF IInv, TypeOK, rows, locks, kafka, record
<1>1. TablesTypeOK'
    BY DEF TablesTypeOK, CommitOffset
<1>2. ConsumerTypeOK'
  <2>1. committed' \in [Partitions -> 0..MaxRecords]
    <3>1. offset[m] \in 1..MaxRecords
      BY DEF CommitOffset, HoldsRecord, Offsets
    <3>2. offset[m] \in 0..MaxRecords
      BY <3>1, BoundAssumption
    <3> QED BY <3>2 DEF CommitOffset, ConsumerTypeOK
  <2> QED BY <2>1 DEF CommitOffset, Goto, Forget, ConsumerTypeOK, PCs
<1>3. ReviewTypeOK'
    BY DEF ReviewTypeOK, reviews
<1>4. HoldsRecord'
    BY DEF HoldsRecord, ConsumerTypeOK, InApply, InReject, CommitOffset, Goto, Forget
<1>5. UNCHANGED <<status, decisions, queue>>
    BY DEF CommitOffset
<1>6. HoldsRow'
    BY <1>5, HoldsRowStutter DEF CommitOffset
<1> QED BY <1>1, <1>2, <1>3, <1>4, <1>5, <1>6, RowsStutter

(* A failed offset commit stops the member.                                 *)
LEMMA CommitOffsetFailsStep ==
    ASSUME IInv, NEW m \in Members, CommitOffsetFails(m), UNCHANGED reviews
    PROVE  IInv'
<1> USE DEF IInv, TypeOK, rows, locks, kafka, record
<1>1. TablesTypeOK'
    BY BoundAssumption DEF TablesTypeOK, CommitOffsetFails, Fault
<1>2. ConsumerTypeOK'
  <2>1. committed' \in [Partitions -> 0..MaxRecords]
    <3>1. offset[m] \in 1..MaxRecords
      BY DEF CommitOffsetFails, HoldsRecord, Offsets
    <3>2. offset[m] \in 0..MaxRecords
      BY <3>1, BoundAssumption
    <3> QED BY <3>2 DEF CommitOffsetFails, ConsumerTypeOK
  <2>2. owner' \in [Partitions -> Members \cup {None}]
    BY DEF CommitOffsetFails, ConsumerTypeOK, Disowned
  <2> QED BY <2>1, <2>2 DEF CommitOffsetFails, Goto, Forget, ConsumerTypeOK, PCs
<1>3. ReviewTypeOK'
    BY DEF ReviewTypeOK, reviews
<1>4. HoldsRecord'
    BY DEF HoldsRecord, ConsumerTypeOK, InApply, InReject, CommitOffsetFails, Goto, Forget
<1>5. UNCHANGED <<status, decisions, queue>>
    BY DEF CommitOffsetFails
<1>6. HoldsRow'
    BY <1>5, HoldsRowStutter DEF CommitOffsetFails
<1> QED BY <1>1, <1>2, <1>3, <1>4, <1>5, <1>6, RowsStutter

(* A database error sends the member back to handle.                        *)
LEMMA DatabaseErrorStep ==
    ASSUME IInv, NEW m \in Members, DatabaseError(m), UNCHANGED reviews
    PROVE  IInv'
<1> USE DEF IInv, TypeOK, rows, locks, kafka, record
<1>0. UNCHANGED locks \/ EndTransaction(m)
    BY DEF DatabaseError, RetryLater
<1>1. TablesTypeOK'
    BY BoundAssumption, <1>0, ReleasedLocks DEF TablesTypeOK, DatabaseError, RetryLater, Fault
<1>2. ConsumerTypeOK'
    BY DEF ConsumerTypeOK, PCs, InApply, InReject, RejectionCodes, DatabaseError, Goto, RetryLater
<1>3. ReviewTypeOK'
    BY DEF ReviewTypeOK, reviews
<1>4. HoldsRecord'
    BY DEF HoldsRecord, ConsumerTypeOK, InApply, InReject, DatabaseError, Goto, RetryLater
<1>5. UNCHANGED <<status, decisions, queue>>
    BY DEF DatabaseError, RetryLater
<1>6. HoldsRow'
    BY <1>0, <1>5, HoldsRowStutter DEF DatabaseError
<1> QED BY <1>1, <1>2, <1>3, <1>4, <1>5, <1>6, RowsStutter

(* A crash drops the record and the locks.                                  *)
LEMMA CrashStep ==
    ASSUME IInv, NEW m \in Members, Crash(m), UNCHANGED reviews
    PROVE  IInv'
<1> USE DEF IInv, TypeOK, rows, locks, kafka, record
<1>0. UNCHANGED locks \/ EndTransaction(m)
    BY DEF Crash
<1>1. TablesTypeOK'
    BY BoundAssumption, <1>0, ReleasedLocks DEF TablesTypeOK, Crash, Fault
<1>2. ConsumerTypeOK'
    BY DEF ConsumerTypeOK, PCs, InApply, InReject, RejectionCodes, Crash, Goto, Forget, Disowned
<1>3. ReviewTypeOK'
    BY DEF ReviewTypeOK, reviews
<1>4. HoldsRecord'
    BY DEF HoldsRecord, ConsumerTypeOK, InApply, InReject, Crash, Goto, Forget
<1>5. UNCHANGED <<status, decisions, queue>>
    BY DEF Crash
<1>6. HoldsRow'
    BY <1>0, <1>5, HoldsRowStutter DEF Crash
<1> QED BY <1>1, <1>2, <1>3, <1>4, <1>5, <1>6, RowsStutter

(* A restarted member polls.                                                *)
LEMMA RestartStep ==
    ASSUME IInv, NEW m \in Members, Restart(m), UNCHANGED reviews
    PROVE  IInv'
<1> USE DEF IInv, TypeOK, rows, locks, kafka, record
<1>1. TablesTypeOK'
    BY DEF TablesTypeOK, Restart
<1>2. ConsumerTypeOK'
    BY DEF ConsumerTypeOK, PCs, InApply, InReject, RejectionCodes, Restart, Goto
<1>3. ReviewTypeOK'
    BY DEF ReviewTypeOK, reviews
<1>4. HoldsRecord'
    BY DEF HoldsRecord, ConsumerTypeOK, InApply, InReject, Restart, Goto
<1>5. UNCHANGED <<status, decisions, queue>>
    BY DEF Restart
<1>6. HoldsRow'
    BY <1>5, HoldsRowStutter DEF Restart
<1> QED BY <1>1, <1>2, <1>3, <1>4, <1>5, <1>6, RowsStutter
\* The status of a payment that has a decision is not PENDING_RISK.
LEMMA DecidedNotPending ==
    ASSUME decisions \subseteq Events, RowsAgree, NEW d \in decisions
    PROVE  status[d.payment] # "PENDING_RISK"
BY EventsAssumption DEF RowsAgree, StatusOf, paymentStatusForDecision, Verdicts

(* The rows that one accepted decision adds agree with each other and with  *)
(* the rows that were there: its payment had neither a decision nor a queue *)
(* row, because its status was still PENDING_RISK.                          *)
LEMMA InsertDecisionAgrees ==
    ASSUME TablesTypeOK, DecisionsUnique, RowsAgree,
           NEW e \in Events, e.payment \in Payments,
           status[e.payment] = "PENDING_RISK", ~UniqueViolation(e), InsertDecision(e)
    PROVE  /\ DecisionsUnique' /\ RowsAgree'
           /\ \A p \in Payments : queue[p] # None => queue'[p] = queue[p]
<1>1. \A d \in decisions : d.payment # e.payment
    BY DecidedNotPending DEF TablesTypeOK
<1>2. queue[e.payment] = None
    BY <1>1 DEF RowsAgree
<1>3. \A p \in Payments : p # e.payment => queue'[p] = queue[p] /\ status'[p] = status[p]
    BY DEF InsertDecision, TablesTypeOK
<1>4. \A p \in Payments : queue[p] # None => queue'[p] = queue[p]
    BY <1>2, <1>3
<1>5. DecisionsUnique'
    BY <1>1 DEF DecisionsUnique, InsertDecision, UniqueViolation
<1>6. status'[e.payment] = paymentStatusForDecision[e.verdict]
    BY DEF InsertDecision, TablesTypeOK
<1>7. e.verdict = "REVIEW" =>
        queue'[e.payment] = [decision |-> e.id, status |-> "PENDING", version |-> 1, reviewer |-> None]
    BY DEF InsertDecision, TablesTypeOK
<1>8. ASSUME NEW d \in decisions'
      PROVE  /\ d.payment \in Payments
             /\ status'[d.payment] = StatusOf(d.payment, d)'
             /\ d.verdict = "REVIEW" => queue'[d.payment] # None /\ queue'[d.payment].decision = d.id
  <2>1. CASE d = e
    <3>1. e.verdict = "REVIEW" => queue'[e.payment] \in QueueRow
      BY <1>7 DEF QueueRow, ReviewStatuses, DecisionIds
    <3> QED BY <2>1, <3>1, <1>6, <1>7, NoneAssumption
            DEF StatusOf, paymentStatusForDecision
  <2>2. CASE d \in decisions
    BY <2>2, <1>1, <1>3 DEF RowsAgree, StatusOf
  <2> QED BY <1>8, <2>1, <2>2 DEF InsertDecision
<1>9. ASSUME NEW p \in Payments
      PROVE  /\ (\A d \in decisions' : d.payment # p) => status'[p] = "PENDING_RISK"
             /\ queue'[p] # None => /\ \E d \in decisions' : d.payment = p /\ d.verdict = "REVIEW"
                                    /\ queue'[p].status = "PENDING" => queue'[p].version = 1
  <2>1. CASE p = e.payment
    <3>1. queue'[p] # None => e.verdict = "REVIEW"
      BY <2>1, <1>2 DEF InsertDecision
    <3> QED BY <2>1, <3>1, <1>7 DEF InsertDecision
  <2>2. CASE p # e.payment
    BY <2>2, <1>3 DEF RowsAgree, InsertDecision
  <2> QED BY <2>1, <2>2
<1>10. RowsAgree'
    BY <1>8, <1>9 DEF RowsAgree
<1> QED BY <1>4, <1>5, <1>10

(* WriteDecision keeps the rows in agreement, or fails and retries.         *)
LEMMA WriteDecisionStep ==
    ASSUME IInv, NEW m \in Members, WriteDecision(m), UNCHANGED reviews
    PROVE  IInv'
<1> USE DEF IInv, TypeOK, rows, locks, kafka, record
<1> DEFINE e == value[m]
<1>0. EndTransaction(m)
    BY DEF WriteDecision, RetryLater, RejectWith, AfterCommit
<1>1. e \in Events /\ e.payment \in Payments /\ part[m] \in Partitions /\ offset[m] \in Offsets
    BY DEF WriteDecision, HoldsRecord, InApply
<1>2. ConsumerTypeOK'
    BY DEF WriteDecision, RetryLater, RejectWith, AfterCommit, Goto, ConsumerTypeOK,
           PCs, InReject, RejectionCodes
<1>3. ReviewTypeOK'
    BY DEF ReviewTypeOK, reviews
<1>4. HoldsRecord'
    BY DEF WriteDecision, RetryLater, RejectWith, AfterCommit, Goto, HoldsRecord,
           ConsumerTypeOK, InApply, InReject, RejectionCodes
<1>5. faults' \in 0..MaxFaults
    BY BoundAssumption DEF WriteDecision, RetryLater, RejectWith, AfterCommit, Fault, TablesTypeOK
<1>6. CASE UNCHANGED rows
  <2>1. TablesTypeOK'
    BY <1>0, <1>5, <1>6, ReleasedLocks DEF TablesTypeOK
  <2>2. HoldsRow'
    BY <1>0, <1>6, HoldsRowStutter
  <2> QED BY <1>2, <1>3, <1>4, <1>6, <2>1, <2>2, RowsStutter
<1>7. CASE /\ ~UniqueViolation(e) /\ status[e.payment] = "PENDING_RISK" /\ InsertDecision(e)
           /\ IF Receipt(m) = None THEN StoreReceipt(m, "APPLIED") ELSE UNCHANGED receipts
  <2>1. receipts' \in [Partitions -> [Offsets -> Dispositions \cup {None}]]
    BY <1>1, <1>7 DEF StoreReceipt, TablesTypeOK, Dispositions, Accepted
  <2>2. e.id \in DecisionIds /\ e.verdict \in Verdicts
    BY <1>1, EventsAssumption DEF DecisionIds
  <2>3. paymentStatusForDecision[e.verdict] \in PaymentStatuses
    BY <2>2 DEF Verdicts, paymentStatusForDecision, PaymentStatuses
  <2>4. status' \in [Payments -> PaymentStatuses] /\ decisions' \subseteq Events
    BY <1>1, <1>7, <2>3 DEF InsertDecision, TablesTypeOK
  <2>5. audit' \subseteq AuditRow
    BY <1>7, <2>2 DEF InsertDecision, TablesTypeOK, AuditRow, AuditTypes
  <2>6. queue' \in [Payments -> QueueRow \cup {None}]
    <3>1. [decision |-> e.id, status |-> "PENDING", version |-> 1, reviewer |-> None] \in QueueRow
      BY <2>2 DEF QueueRow, ReviewStatuses
    <3> QED BY <1>1, <1>7, <3>1 DEF InsertDecision, TablesTypeOK
  <2>7. TablesTypeOK'
    BY <1>0, <1>5, <2>1, <2>4, <2>5, <2>6, ReleasedLocks DEF TablesTypeOK
  <2>8. /\ DecisionsUnique' /\ RowsAgree'
        /\ \A p \in Payments : queue[p] # None => queue'[p] = queue[p]
    BY <1>1, <1>7, InsertDecisionAgrees
  <2>9. HoldsRow'
    BY <1>0, <2>8, ReleasedLocks, ProcessAssumption DEF HoldsRow, reviews, ResolveCommand
  <2> QED BY <1>2, <1>3, <1>4, <2>7, <2>8, <2>9
<1> QED BY <1>6, <1>7 DEF WriteDecision, Refused, RetryLater, RejectWith
----------------------------------------------------------------------------
(* The steps of review requests.                                            *)

\* A step of request t that keeps the queue, and the locks of the others, does
\* not disturb the other requests.
LEMMA OtherRequests ==
    ASSUME TablesTypeOK, HoldsRow, NEW t \in Requests,
           \A r \in Requests \ {t} : /\ rpc'[r] = rpc[r] /\ command'[r] = command[r]
                                     /\ found'[r] = found[r],
           \A r \in Requests \ {t} : \A p \in Payments :
               queueLock[p] = r => queueLock'[p] = r /\ queue'[p] = queue[p],
           rpc'[t] # "idle" => command'[t] \in ResolveCommand,
           rpc'[t] \in {"payment", "finish"} =>
              LET p == command'[t].payment
              IN  /\ queueLock'[p] = t
                  /\ queue'[p] # None
                  /\ queue'[p].status = "PENDING" /\ queue'[p].version = 1
                  /\ found'[t] = queue'[p].decision
    PROVE  HoldsRow'
<1> SUFFICES ASSUME NEW r \in Requests \ {t}
             PROVE  /\ rpc'[r] # "idle" => command'[r] \in ResolveCommand
                    /\ rpc'[r] \in {"payment", "finish"} =>
                          LET p == command'[r].payment
                          IN  /\ queueLock'[p] = r
                              /\ queue'[p] # None
                              /\ queue'[p].status = "PENDING" /\ queue'[p].version = 1
                              /\ found'[r] = queue'[p].decision
    BY DEF HoldsRow
<1> QED BY DEF HoldsRow, ResolveCommand

(* An answered request holds no row any more.                               *)
LEMMA AnswerStep ==
    ASSUME IInv, NEW r \in Requests, rpc[r] # "idle", NEW a \in Responses, Answer(r, a),
           UNCHANGED <<rows, consumer>>, faults' \in 0..MaxFaults
    PROVE  IInv'
<1> USE DEF IInv, TypeOK, rows
<1>1. TablesTypeOK'
    BY ReleasedLocks DEF Answer, TablesTypeOK
<1>2. ConsumerTypeOK' /\ HoldsRecord'
    BY DEF consumer, kafka, record, ConsumerTypeOK, HoldsRecord
<1>3. ReviewTypeOK'
    BY DEF Answer, ReviewTypeOK, RequestPCs
<1>4. HoldsRow'
    BY ReleasedLocks, OtherRequests DEF Answer, ReviewTypeOK, HoldsRow
<1> QED BY <1>1, <1>2, <1>3, <1>4, RowsStutter

(* A received request holds nothing yet.                                    *)
LEMMA ReceiveStep ==
    ASSUME IInv, NEW r \in Requests, NEW c \in ResolveCommand, Receive(r, c), UNCHANGED consumer
    PROVE  IInv'
<1> USE DEF IInv, TypeOK, rows, locks
<1>1. TablesTypeOK'
    BY DEF Receive, TablesTypeOK
<1>2. ConsumerTypeOK' /\ HoldsRecord'
    BY DEF consumer, kafka, record, ConsumerTypeOK, HoldsRecord
<1>3. ReviewTypeOK'
    BY DEF Receive, ReviewTypeOK, RequestPCs
<1>4. HoldsRow'
    BY OtherRequests DEF Receive, ReviewTypeOK
<1> QED BY <1>1, <1>2, <1>3, <1>4, RowsStutter DEF Receive

(* The UPDATE of the queue locks the pending row it matches.                *)
LEMMA ResolveQueueRowStep ==
    ASSUME IInv, NEW r \in Requests, ResolveQueueRow(r), UNCHANGED consumer
    PROVE  IInv'
<1> USE DEF IInv, TypeOK, rows, locks
<1> DEFINE p == command[r].payment
<1>0. command[r] \in ResolveCommand /\ p \in Payments
    BY DEF ResolveQueueRow, HoldsRow, ResolveCommand
<1>1. TablesTypeOK'
    BY <1>0 DEF ResolveQueueRow, TablesTypeOK
<1>2. ConsumerTypeOK' /\ HoldsRecord'
    BY DEF consumer, kafka, record, ConsumerTypeOK, HoldsRecord
<1>3. Matches(r) => queue[p] \in QueueRow /\ queue[p].decision \in DecisionIds
    BY <1>0 DEF Matches, TablesTypeOK, QueueRow
<1>4. ReviewTypeOK'
    BY <1>3 DEF ResolveQueueRow, ReviewTypeOK, RequestPCs
<1>5. HoldsRow'
  <2>1. CASE Matches(r) /\ queueLock[p] = None
    <3>1. queue[p] # None /\ queue[p].status = "PENDING" /\ queue[p].version = 1
      BY <1>0, <2>1 DEF Matches, RowsAgree
    <3>2. queueLock' = [queueLock EXCEPT ![p] = r] /\ found'[r] = queue[p].decision
      BY <2>1 DEF ResolveQueueRow, ReviewTypeOK
    <3> QED BY <1>0, <2>1, <3>1, <3>2, NoneAssumption, OtherRequests
            DEF ResolveQueueRow, ReviewTypeOK, TablesTypeOK, Transactions
  <2>2. CASE ~Matches(r)
    BY <1>0, <2>2, OtherRequests DEF ResolveQueueRow, ReviewTypeOK
  <2> QED BY <2>1, <2>2 DEF ResolveQueueRow
<1> QED BY <1>1, <1>2, <1>4, <1>5, RowsStutter DEF ResolveQueueRow

(* The UPDATE of the payment locks it or ends the request.                  *)
LEMMA UpdateReviewedPaymentStep ==
    ASSUME IInv, NEW r \in Requests, UpdateReviewedPayment(r), UNCHANGED consumer
    PROVE  IInv'
<1> USE DEF IInv, TypeOK, rows, locks
<1> DEFINE p == command[r].payment
<1>0. command[r] \in ResolveCommand /\ p \in Payments
    BY DEF UpdateReviewedPayment, HoldsRow, ResolveCommand
<1>1. CASE status[p] = "REVIEW"
  <2>1. TablesTypeOK'
    BY <1>0, <1>1 DEF UpdateReviewedPayment, Answer, TablesTypeOK, Transactions
  <2>2. ConsumerTypeOK' /\ HoldsRecord'
    BY DEF consumer, kafka, record, ConsumerTypeOK, HoldsRecord
  <2>3. ReviewTypeOK'
    BY <1>1 DEF UpdateReviewedPayment, ReviewTypeOK, RequestPCs
  <2>4. HoldsRow'
    BY <1>1 DEF UpdateReviewedPayment, ReviewTypeOK, HoldsRow
  <2> QED BY <2>1, <2>2, <2>3, <2>4, RowsStutter DEF UpdateReviewedPayment
<1>2. CASE status[p] # "REVIEW"
    BY <1>2, AnswerStep DEF UpdateReviewedPayment, Responses, TablesTypeOK
<1> QED BY <1>1, <1>2

(* Reading the current row changes nothing.                                 *)
LEMMA CurrentConflictStep ==
    ASSUME IInv, NEW r \in Requests, CurrentConflict(r), UNCHANGED consumer
    PROVE  IInv'
BY AnswerStep DEF CurrentConflict, Responses, IInv, TypeOK, TablesTypeOK

(* A failed resolution changes no row.                                      *)
LEMMA ResolveFailsStep ==
    ASSUME IInv, NEW r \in Requests, ResolveFails(r), UNCHANGED consumer
    PROVE  IInv'
<1>1. faults' \in 0..MaxFaults
    BY BoundAssumption DEF ResolveFails, Fault, IInv, TypeOK, TablesTypeOK
<1> QED BY <1>1, AnswerStep DEF ResolveFails, Responses

(* The rows a resolution changes still agree: the row was pending at        *)
(* version 1, its payment's only decision is a REVIEW decision.             *)
LEMMA ResolveRowsAgrees ==
    ASSUME IInv, NEW r \in Requests, rpc[r] = "finish", ResolveRows(r)
    PROVE  LET p == command[r].payment
               s == actionState[command[r].action]
           IN  /\ p \in Payments
               /\ queue' = [queue EXCEPT ![p] =
                     [decision |-> queue[p].decision, status |-> s.review, version |-> 2, reviewer |-> r]]
               /\ status' = [status EXCEPT ![p] = s.payment]
               /\ queue[p] \in QueueRow
               /\ DecisionsUnique' /\ RowsAgree'
<1> USE DEF IInv, TypeOK
<1> DEFINE p == command[r].payment
           s == actionState[command[r].action]
           new == [decision |-> queue[p].decision, status |-> s.review, version |-> 2, reviewer |-> r]
<1>1. /\ p \in Payments /\ queue[p] # None /\ queue[p] \in QueueRow /\ queue[p].version = 1
      /\ command[r].action \in {"APPROVE", "REJECT"}
    BY DEF HoldsRow, ResolveCommand, Actions, actionState, TablesTypeOK
<1>2. /\ s.review \in {"APPROVED", "REJECTED"}
      /\ s.payment = IF s.review = "APPROVED" THEN "ALLOWED" ELSE "BLOCKED"
    BY <1>1 DEF actionState
<1>3. queue' = [queue EXCEPT ![p] = new]
    BY <1>1 DEF ResolveRows, QueueRow, TablesTypeOK
<1>4. status' = [status EXCEPT ![p] = s.payment] /\ decisions' = decisions
    BY DEF ResolveRows
<1>5. queue'[p] = new /\ status'[p] = s.payment
    BY <1>1, <1>3, <1>4 DEF TablesTypeOK
<1>6. \A q \in Payments : q # p => queue'[q] = queue[q] /\ status'[q] = status[q]
    BY <1>1, <1>3, <1>4 DEF TablesTypeOK
<1>7. new \in QueueRow
    BY <1>1, <1>2 DEF QueueRow, ReviewStatuses
<1>8. PICK d \in decisions : d.payment = p /\ d.verdict = "REVIEW"
    BY <1>1 DEF RowsAgree
<1>9. ASSUME NEW x \in decisions
      PROVE  /\ x.payment \in Payments
             /\ status'[x.payment] = StatusOf(x.payment, x)'
             /\ x.verdict = "REVIEW" => queue'[x.payment] # None /\ queue'[x.payment].decision = x.id
  <2>1. CASE x = d
    <3>1. queue[p].decision = d.id
      BY <1>1, <1>8 DEF RowsAgree
    <3> QED BY <2>1, <3>1, <1>1, <1>2, <1>5, <1>7, <1>8, NoneAssumption DEF StatusOf
  <2>2. CASE x # d
    <3>1. x.payment # p /\ x.payment \in Payments
      BY <2>2, <1>8 DEF DecisionsUnique, RowsAgree
    <3> QED BY <3>1, <1>6 DEF RowsAgree, StatusOf
  <2> QED BY <2>1, <2>2
<1>10. RowsAgree'
  <2>1. ASSUME NEW q \in Payments
        PROVE  /\ (\A x \in decisions : x.payment # q) => status'[q] = "PENDING_RISK"
               /\ queue'[q] # None =>
                     /\ \E x \in decisions : x.payment = q /\ x.verdict = "REVIEW"
                     /\ queue'[q].status = "PENDING" => queue'[q].version = 1
    BY <1>2, <1>5, <1>6, <1>8 DEF RowsAgree
  <2> QED BY <1>4, <1>9, <2>1 DEF RowsAgree
<1>11. DecisionsUnique'
    BY <1>4 DEF DecisionsUnique
<1> QED BY <1>1, <1>3, <1>4, <1>10, <1>11

(* A committed resolution keeps the rows in agreement.                      *)
LEMMA FinishResolveStep ==
    ASSUME IInv, NEW r \in Requests, FinishResolve(r), UNCHANGED consumer
    PROVE  IInv'
<1> USE DEF IInv, TypeOK, rows, locks
<1>1. CASE Answer(r, "error") /\ UNCHANGED <<rows, faults>>
    BY <1>1, AnswerStep DEF FinishResolve, Responses, TablesTypeOK
<1>2. CASE ResolveRows(r)
  <2> DEFINE p == command[r].payment
             s == actionState[command[r].action]
             new == [decision |-> queue[p].decision, status |-> s.review, version |-> 2, reviewer |-> r]
  <2>1. PICK a \in {"ok", "error"} : Answer(r, a)
    BY <1>2 DEF FinishResolve
  <2>2. rpc[r] = "finish"
    BY DEF FinishResolve
  <2>3. /\ p \in Payments /\ queue[p] \in QueueRow
        /\ queue' = [queue EXCEPT ![p] = new]
        /\ status' = [status EXCEPT ![p] = s.payment]
        /\ DecisionsUnique' /\ RowsAgree'
    BY <1>2, <2>2, ResolveRowsAgrees
  <2>4. command[r].action \in {"APPROVE", "REJECT"} /\ found[r] = queue[p].decision
        /\ queueLock[p] = r
    BY <2>2 DEF HoldsRow, ResolveCommand, Actions, actionState
  <2>5. s.review \in ReviewStatuses /\ s.payment \in PaymentStatuses /\ s.type \in AuditTypes
    BY <2>4 DEF actionState, ReviewStatuses, PaymentStatuses, AuditTypes
  <2>6. queue' \in [Payments -> QueueRow \cup {None}]
    <3>1. new \in QueueRow
      BY <2>3, <2>5 DEF QueueRow
    <3> QED BY <2>3, <3>1 DEF TablesTypeOK
  <2>7. audit' \subseteq AuditRow
    <3>1. found[r] \in DecisionIds
      BY <2>3, <2>4 DEF QueueRow
    <3> QED BY <1>2, <2>5, <3>1 DEF ResolveRows, AuditRow, TablesTypeOK
  <2>8. faults' \in 0..MaxFaults
    BY <1>2, BoundAssumption DEF FinishResolve, Fault, TablesTypeOK
  <2>9. TablesTypeOK'
    BY <1>2, <2>1, <2>3, <2>5, <2>6, <2>7, <2>8, ReleasedLocks DEF ResolveRows, Answer, TablesTypeOK
  <2>10. ConsumerTypeOK' /\ HoldsRecord'
    BY DEF consumer, kafka, record, ConsumerTypeOK, HoldsRecord
  <2>11. ReviewTypeOK'
    BY <2>1 DEF Answer, ReviewTypeOK, RequestPCs, Responses
  <2>12. HoldsRow'
    <3>1. \A q \in Requests \ {r} : \A x \in Payments :
             queueLock[x] = q => queueLock'[x] = q /\ queue'[x] = queue[x]
      BY <2>1, <2>3, <2>4, ReleasedLocks DEF Answer, TablesTypeOK
    <3>2. rpc'[r] = "done" /\ command' = command /\ found' = found /\ command[r] \in ResolveCommand
      BY <2>1, <2>2 DEF Answer, ReviewTypeOK, HoldsRow
    <3>3. \A q \in Requests \ {r} : rpc'[q] = rpc[q]
      BY <2>1 DEF Answer, ReviewTypeOK
    <3> QED BY <3>1, <3>2, <3>3, OtherRequests
  <2> QED BY <2>3, <2>9, <2>10, <2>11, <2>12
<1> QED BY <1>1, <1>2 DEF FinishResolve
----------------------------------------------------------------------------
(* The theorems.                                                            *)

(* Every step keeps the inductive invariant.                                *)
LEMMA NextIInv == IInv /\ [Next]_vars => IInv'
<1> SUFFICES ASSUME IInv, [Next]_vars PROVE IInv'
    OBVIOUS
<1>1. CASE UNCHANGED vars
    BY <1>1 DEF vars, rows, locks, consumer, kafka, record, reviews, IInv, TypeOK, TablesTypeOK,
                ConsumerTypeOK, ReviewTypeOK, HoldsRecord, HoldsRow, DecisionsUnique, RowsAgree, StatusOf
<1>2. ASSUME NEW p \in Partitions, NEW r \in Records, Produce(p, r) /\ UNCHANGED reviews PROVE IInv'
    BY <1>2, ProduceStep
<1>3. ASSUME NEW m \in Members, NEW p \in Partitions,
             (Assign(m, p) \/ Poll(m, p)) /\ UNCHANGED reviews
      PROVE  IInv'
    BY <1>3, AssignStep, PollStep
<1>4. ASSUME NEW m \in Members, UNCHANGED reviews,
             \/ Revoke(m) \/ Handle(m) \/ DatabaseError(m) \/ Crash(m) \/ Restart(m)
             \/ CommitOffset(m) \/ CommitOffsetFails(m)
      PROVE  IInv'
    BY <1>4, RevokeStep, HandleStep, DatabaseErrorStep, CrashStep, RestartStep,
       CommitOffsetStep, CommitOffsetFailsStep
<1>5. ASSUME NEW m \in Members, UNCHANGED reviews,
             \/ ApplyReceipt(m) \/ LockPayment(m) \/ LoadDecision(m) \/ CheckSource(m)
             \/ WriteDecision(m) \/ WriteReplay(m) \/ RejectReceipt(m) \/ WriteReject(m)
      PROVE  IInv'
    BY <1>5, ApplyReceiptStep, LockPaymentStep, LoadDecisionStep, CheckSourceStep,
       WriteDecisionStep, WriteReplayStep, RejectReceiptStep, WriteRejectStep
<1>6. ASSUME NEW r \in Requests, NEW c \in ResolveCommand, Receive(r, c), UNCHANGED consumer PROVE IInv'
    BY <1>6, ReceiveStep
<1>7. ASSUME NEW r \in Requests, UNCHANGED consumer,
             \/ ResolveQueueRow(r) \/ CurrentConflict(r) \/ UpdateReviewedPayment(r)
             \/ FinishResolve(r) \/ ResolveFails(r)
      PROVE  IInv'
    BY <1>7, ResolveQueueRowStep, CurrentConflictStep, UpdateReviewedPaymentStep,
       FinishResolveStep, ResolveFailsStep
<1> QED BY <1>1, <1>2, <1>3, <1>4, <1>5, <1>6, <1>7 DEF Next

(* The inductive invariant holds in every reachable state.                  *)
THEOREM Invariance == Spec => []IInv
<1>1. Init => IInv
    BY InitIInv
<1>2. IInv /\ [Next]_vars => IInv'
    BY NextIInv
<1> QED BY <1>1, <1>2, PTL DEF Spec

(* Type correctness of the consumer, the review API and their tables, for   *)
(* any number of members, requests, payments, records and failures.         *)
THEOREM TypeCorrect == Spec => []TypeOK
<1>1. IInv => TypeOK
    BY DEF IInv
<1> QED BY <1>1, Invariance, PTL

(* The inductive invariant leaves the reconciler nothing to report.         *)
LEMMA IInvReconciled == IInv => ReconciliationClean
<1> SUFFICES ASSUME IInv PROVE ReconciliationClean
    OBVIOUS
<1> USE DEF IInv, TypeOK
<1>1. DuplicateDecision = {}
    BY DEF DuplicateDecision, DecisionsOf, DecisionsUnique
<1>2. \A d \in decisions : \A p \in Payments :
         queue[p] # None /\ queue[p].decision = d.id => p = d.payment
    BY DEF RowsAgree, DecisionsUnique
<1>3. PaymentStatusMismatch = {}
  <2> SUFFICES ASSUME NEW d \in decisions PROVE status[d.payment] = ExpectedStatus(d)
    BY DEF PaymentStatusMismatch
  <2>1. d.payment \in Payments /\ status[d.payment] = StatusOf(d.payment, d)
    BY DEF RowsAgree
  <2>2. CASE d.verdict = "REVIEW"
    <3>1. queue[d.payment] # None /\ queue[d.payment].decision = d.id
      BY <2>2 DEF RowsAgree
    <3>2. {queue[p] : p \in {q \in Payments : queue[q] # None /\ queue[q].decision = d.id}}
             = {queue[d.payment]}
      BY <3>1, <2>1, <1>2
    <3>3. queue[d.payment].status \in ReviewStatuses
      BY <2>1, <3>1 DEF TablesTypeOK, QueueRow
    <3> QED BY <2>1, <2>2, <3>2, <3>3 DEF StatusOf, ExpectedStatus, ReviewStatuses, paymentStatusForDecision
  <2>3. CASE d.verdict # "REVIEW"
    BY <2>1, <2>3 DEF StatusOf, ExpectedStatus
  <2> QED BY <2>2, <2>3
<1>4. ReviewQueueMissing = {}
    BY DEF ReviewQueueMissing, RowsAgree
<1>5. UnexpectedReviewQueue = {}
    BY <1>2 DEF UnexpectedReviewQueue, RowsAgree, DecisionsUnique
<1> QED BY <1>1, <1>3, <1>4, <1>5 DEF ReconciliationClean

(* The reconciler never reports a duplicate decision, a status that differs *)
(* from the decision and the review, a missing or an unexpected queue row.  *)
THEOREM Reconciled == Spec => []ReconciliationClean
BY Invariance, IInvReconciled, PTL

----------------------------------------------------------------------------
(* The abstract lifecycle.                                                  *)

\* Only an accepted decision and a finished resolution write payments,
\* decisions or the queue.
LEMMA OnlyTwoWriters ==
    ASSUME IInv, [Next]_vars
    PROVE  \/ UNCHANGED <<status, decisions, queue>>
           \/ \E e \in Events : /\ e.payment \in Payments /\ status[e.payment] = "PENDING_RISK"
                                /\ ~UniqueViolation(e) /\ InsertDecision(e)
           \/ \E r \in Requests : rpc[r] = "finish" /\ ResolveRows(r)
<1>1. CASE \E m \in Members : WriteDecision(m)
  <2>1. PICK m \in Members : WriteDecision(m)
    BY <1>1
  <2>2. value[m] \in Events /\ value[m].payment \in Payments
    BY <2>1 DEF WriteDecision, IInv, HoldsRecord, InApply
  <2> QED BY <2>1, <2>2 DEF WriteDecision, Refused, RetryLater, RejectWith, rows
<1>2. CASE \E r \in Requests : FinishResolve(r)
    BY <1>2 DEF FinishResolve, rows
<1>3. CASE UNCHANGED vars
    BY <1>3 DEF vars, rows
<1>4. CASE \/ \E p \in Partitions, r \in Records : Produce(p, r)
           \/ \E m \in Members, p \in Partitions : Assign(m, p) \/ Poll(m, p)
           \/ \E m \in Members : \/ Revoke(m) \/ Handle(m) \/ DatabaseError(m) \/ Crash(m)
                                 \/ Restart(m) \/ CommitOffset(m) \/ CommitOffsetFails(m)
    BY <1>4 DEF Produce, Assign, Poll, Revoke, Handle, DatabaseError, RetryLater, Crash, Restart,
                CommitOffset, CommitOffsetFails, rows
<1>5. CASE \E m \in Members : \/ ApplyReceipt(m) \/ LockPayment(m) \/ LoadDecision(m) \/ CheckSource(m)
                              \/ WriteReplay(m) \/ RejectReceipt(m) \/ WriteReject(m)
    BY <1>5 DEF ApplyReceipt, LockPayment, LoadDecision, CheckSource, WriteReplay, RejectReceipt,
                WriteReject, RetryLater, RejectWith, rows
<1>6. CASE \/ \E r \in Requests, c \in ResolveCommand : Receive(r, c)
           \/ \E r \in Requests : \/ ResolveQueueRow(r) \/ CurrentConflict(r)
                                  \/ UpdateReviewedPayment(r) \/ ResolveFails(r)
    BY <1>6 DEF Receive, ResolveQueueRow, CurrentConflict, UpdateReviewedPayment, ResolveFails, rows
<1> QED BY <1>1, <1>2, <1>3, <1>4, <1>5, <1>6 DEF Next
\* The refinement mapping, as DecisionControls substitutes it.
verdictsOf ==
    [p \in Payments |-> {d.verdict : d \in DecisionsOf(p)}]
resolutionsOf ==
    [p \in Payments |->
        IF queue[p] = None \/ queue[p].status = "PENDING" THEN {}
        ELSE {<<queue[p].reviewer, IF queue[p].status = "APPROVED" THEN "ALLOWED" ELSE "BLOCKED">>}]

(* Storing a decision is the abstract Decide step.                          *)
LEMMA InsertIsDecide ==
    ASSUME IInv, NEW e \in Events, e.payment \in Payments, status[e.payment] = "PENDING_RISK",
           ~UniqueViolation(e), InsertDecision(e)
    PROVE  Lifecycle!Decide(e.payment)
<1> USE DEF IInv, TypeOK
<1> DEFINE p == e.payment
<1>1. \A d \in decisions : d.payment # p
    BY DecidedNotPending DEF TablesTypeOK
<1>2. queue[p] = None
    BY <1>1 DEF RowsAgree
<1>3. verdictsOf[p] = {} /\ resolutionsOf[p] = {}
    BY <1>1, <1>2 DEF verdictsOf, resolutionsOf, DecisionsOf
<1>4. e.verdict \in Verdicts
    BY EventsAssumption
<1>5. verdictsOf' = [verdictsOf EXCEPT ![p] = {e.verdict}]
  <2>1. DecisionsOf(p)' = {e}
    BY <1>1 DEF DecisionsOf, InsertDecision
  <2>2. \A q \in Payments : q # p => DecisionsOf(q)' = DecisionsOf(q)
    BY DEF DecisionsOf, InsertDecision
  <2>3. \A q \in Payments : q # p => verdictsOf'[q] = verdictsOf[q]
    BY <2>2 DEF verdictsOf
  <2>4. verdictsOf'[p] = {e.verdict}
    BY <2>1 DEF verdictsOf
  <2> QED BY <2>3, <2>4 DEF verdictsOf
<1>6. status' = [status EXCEPT ![p] = paymentStatusForDecision[e.verdict]]
    BY DEF InsertDecision
<1>7. resolutionsOf' = resolutionsOf
  <2>1. \A q \in Payments : q # p => queue'[q] = queue[q]
    BY DEF InsertDecision, TablesTypeOK
  <2>2. queue'[p] = None \/ queue'[p].status = "PENDING"
    BY <1>2 DEF InsertDecision, TablesTypeOK
  <2>3. \A q \in Payments : resolutionsOf'[q] = resolutionsOf[q]
    BY <1>2, <2>1, <2>2 DEF resolutionsOf
  <2> QED BY <2>3 DEF resolutionsOf
<1>8. \E d \in {<<"ALLOW", "ALLOWED">>, <<"REVIEW", "REVIEW">>, <<"BLOCK", "BLOCKED">>} :
          /\ verdictsOf' = [verdictsOf EXCEPT ![p] = {d[1]}]
          /\ status' = [status EXCEPT ![p] = d[2]]
  <2> DEFINE d == <<e.verdict, paymentStatusForDecision[e.verdict]>>
  <2>1. d \in {<<"ALLOW", "ALLOWED">>, <<"REVIEW", "REVIEW">>, <<"BLOCK", "BLOCKED">>}
    BY <1>4 DEF Verdicts, paymentStatusForDecision
  <2>2. d[1] = e.verdict /\ d[2] = paymentStatusForDecision[e.verdict]
    OBVIOUS
  <2> HIDE DEF d
  <2> QED BY <1>5, <1>6, <2>1, <2>2
<1> QED BY <1>3, <1>7, <1>8 DEF Lifecycle!Decide, verdictsOf, resolutionsOf

(* A committed resolution is the abstract Resolve step.                     *)
LEMMA ResolveIsResolve ==
    ASSUME IInv, NEW r \in Requests, rpc[r] = "finish", ResolveRows(r),
           NEW p \in Payments, p = command[r].payment
    PROVE  Lifecycle!Resolve(p)
<1> USE DEF IInv, TypeOK
<1> DEFINE s == actionState[command[r].action]
           new == [decision |-> queue[p].decision, status |-> s.review, version |-> 2, reviewer |-> r]
<1>1. /\ p \in Payments /\ queue[p] \in QueueRow /\ queue' = [queue EXCEPT ![p] = new]
      /\ status' = [status EXCEPT ![p] = s.payment]
    BY ResolveRowsAgrees
<1>2. /\ queue[p] # None /\ queue[p].status = "PENDING"
      /\ command[r].action \in {"APPROVE", "REJECT"}
    BY DEF HoldsRow, ResolveCommand, Actions, actionState
<1>3. PICK d \in decisions : d.payment = p /\ d.verdict = "REVIEW"
    BY <1>1, <1>2 DEF RowsAgree
<1>4. status[p] = "REVIEW"
    BY <1>2, <1>3 DEF RowsAgree, StatusOf
<1>5. DecisionsOf(p) = {d}
    BY <1>3 DEF DecisionsOf, DecisionsUnique
<1>6. verdictsOf[p] = {"REVIEW"}
    BY <1>1, <1>3, <1>5 DEF verdictsOf
<1>7. verdictsOf' = verdictsOf
    BY DEF ResolveRows, verdictsOf, DecisionsOf
<1>8. resolutionsOf[p] = {}
    BY <1>1, <1>2 DEF resolutionsOf
<1>9. /\ s.review \in {"APPROVED", "REJECTED"}
      /\ s.payment = IF s.review = "APPROVED" THEN "ALLOWED" ELSE "BLOCKED"
    BY <1>2 DEF actionState
<1>10. resolutionsOf' = [resolutionsOf EXCEPT ![p] = {<<r, s.payment>>}]
  <2>1. new \in QueueRow
    BY <1>1, <1>9 DEF QueueRow, ReviewStatuses
  <2>2. queue'[p] = new /\ queue'[p] # None
    BY <1>1, <2>1, NoneAssumption DEF TablesTypeOK
  <2>3. resolutionsOf'[p] = {<<r, s.payment>>}
    BY <1>1, <1>9, <2>2 DEF resolutionsOf
  <2>4. \A q \in Payments : q # p => resolutionsOf'[q] = resolutionsOf[q]
    BY <1>1 DEF resolutionsOf, TablesTypeOK
  <2> QED BY <2>3, <2>4 DEF resolutionsOf
<1>11. s.payment \in {"ALLOWED", "BLOCKED"}
    BY <1>9
<1> QED BY <1>1, <1>4, <1>6, <1>7, <1>8, <1>10, <1>11 DEF Lifecycle!Resolve, verdictsOf, resolutionsOf

(* Every behaviour of the consumer and the review API is, on statuses,      *)
(* verdicts and resolutions, one of the abstract payment lifecycle: one     *)
(* automated verdict, at most one resolution, nothing taken back.           *)
THEOREM LifecycleRefined == Spec => ImplementsLifecycle
<1>1. Init => Lifecycle!Init
    BY DEF Init, TablesInit, Lifecycle!Init, DecisionsOf
<1>2. IInv /\ [Next]_vars => [Lifecycle!Next]_<<status, verdictsOf, resolutionsOf>>
  <2> SUFFICES ASSUME IInv, [Next]_vars
               PROVE  Lifecycle!Next \/ UNCHANGED <<status, verdictsOf, resolutionsOf>>
    OBVIOUS
  <2>1. CASE UNCHANGED <<status, decisions, queue>>
    BY <2>1 DEF verdictsOf, resolutionsOf, DecisionsOf
  <2>2. CASE \E e \in Events : /\ e.payment \in Payments /\ status[e.payment] = "PENDING_RISK"
                               /\ ~UniqueViolation(e) /\ InsertDecision(e)
    BY <2>2, InsertIsDecide DEF Lifecycle!Next
  <2>3. CASE \E r \in Requests : rpc[r] = "finish" /\ ResolveRows(r)
    <3>1. PICK r \in Requests : rpc[r] = "finish" /\ ResolveRows(r)
      BY <2>3
    <3>2. PICK p \in Payments : p = command[r].payment
      BY <3>1 DEF IInv, HoldsRow, ResolveCommand
    <3>3. Lifecycle!Resolve(p)
      BY <3>1, <3>2, ResolveIsResolve
    <3> QED BY <3>3 DEF Lifecycle!Next
  <2> QED BY <2>1, <2>2, <2>3, OnlyTwoWriters
<1> QED BY <1>1, <1>2, Invariance, PTL
    DEF Spec, ImplementsLifecycle, Lifecycle!Spec, verdictsOf, resolutionsOf
=============================================================================
