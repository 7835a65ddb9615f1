---------------------- MODULE DecisionRecordsProofs ----------------------
(***************************************************************************)
(* Proofs about what DecisionControls records: receipts, committed offsets,*)
(* the audit trail and the answers given to reviewers; and that its two    *)
(* kinds of transactions never wait for each other.  They extend the       *)
(* inductive invariant of DecisionControlsProofs with one named part for   *)
(* each of these subjects.                                                 *)
(***************************************************************************)
EXTENDS DecisionControlsProofs

Working == PCs \ {"down", "poll"}
Locked  == {"load", "source", "write", "replay"}

(* The record a member works on is the one the topic has at its offset.     *)
RecordOfLog ==
    \A m \in Members : pc[m] \in Working =>
        offset[m] <= Len(log[part[m]]) /\ value[m] = log[part[m]][offset[m]]

(* Row locks are held by the transactions that took them, from the          *)
(* statement after the lock to the end: a member its payment, whose status  *)
(* is still the one it read, a request its queue row and then its payment.  *)
LocksHeld ==
    /\ \A m \in Members :
          /\ pc[m] \in Locked => /\ payLock[value[m].payment] = m
                                 /\ seen[m] = status[value[m].payment]
          /\ pc[m] = "write" => seen[m] = "PENDING_RISK"
    /\ \A r \in Requests : rpc[r] = "finish" => payLock[command[r].payment] = r
    /\ \A p \in Payments :
          /\ payLock[p] \in Members =>
                pc[payLock[p]] \in Locked /\ value[payLock[p]].payment = p
          /\ payLock[p] \in Requests =>
                rpc[payLock[p]] = "finish" /\ command[payLock[p]].payment = p
          /\ queueLock[p] # None =>
                rpc[queueLock[p]] \in {"payment", "finish"} /\ command[queueLock[p]].payment = p

(* What a member knows about the rows from earlier statements is still true *)
(* when it acts on it: an event about to be inserted is not stored, one     *)
(* about to be replayed is, a code about to be stored describes the rows.   *)
KnowledgeHolds ==
    \A m \in Members :
        /\ pc[m] \in {"source", "write"} => value[m] \notin decisions
        /\ pc[m] = "replay" => value[m] \in decisions
        /\ pc[m] \in InReject => ReceiptJustified(value[m], code[m])

(* A member commits an offset only when its record has a receipt.           *)
Persisted == \A m \in Members : pc[m] = "commit" => Receipt(m) # None

(* The owner of a partition has a receipt for every record below its fetch  *)
(* position, except for the one it works on, which is the last.             *)
Settled(p, o) == receipts[p][o] # None

OwnersInStep ==
    /\ \A p \in Partitions : owner[p] # None => committed[p] <= position[p]
    /\ \A m \in Members :
          pc[m] \in Working /\ owner[part[m]] = m => position[part[m]] = offset[m]

OwnersSettle ==
    AutoOffsetReset = "earliest" =>
        \A p \in Partitions : owner[p] # None =>
            \A o \in 1..position[p] :
                \/ Settled(p, o)
                \/ pc[owner[p]] \in Working /\ part[owner[p]] = p /\ offset[owner[p]] = o

(* A request that was answered with success is done, and the row that names *)
(* it is no longer pending.                                                 *)
SuccessFinal ==
    \A r \in Requests : response[r] = "ok" =>
        /\ rpc[r] = "done"
        /\ queue[command[r].payment] # None
        /\ queue[command[r].payment].status # "PENDING"

----------------------------------------------------------------------------
(* What kinds of steps there are.                                           *)

(* A step leaves the consumer alone, or is a statement of a member at work  *)
(* on its record, or one of those that change records or offsets.           *)
LEMMA ConsumerSteps ==
    ASSUME IInv, [Next]_vars
    PROVE  \/ UNCHANGED consumer
           \/ /\ UNCHANGED <<kafka, record>>
              /\ \E m \in Members, l \in Working : pc[m] \in Working /\ Goto(m, l)
           \/ \E p \in Partitions, r \in Records : Produce(p, r)
           \/ \E m \in Members, p \in Partitions : Assign(m, p) \/ Poll(m, p)
           \/ \E m \in Members : \/ Revoke(m) \/ CommitOffset(m) \/ CommitOffsetFails(m)
                                 \/ Crash(m) \/ Restart(m)
<1> DEFINE Work == /\ UNCHANGED <<kafka, record>>
                   /\ \E m \in Members, l \in Working : pc[m] \in Working /\ Goto(m, l)
<1>1. ASSUME NEW m \in Members, Handle(m) \/ DatabaseError(m) \/ ApplyReceipt(m) \/ LockPayment(m)
      PROVE  Work
    BY <1>1 DEF Handle, DatabaseError, ApplyReceipt, LockPayment, RejectWith, RetryLater, Working, PCs,
                InApply, InReject, Goto
<1>2. ASSUME NEW m \in Members, LoadDecision(m) \/ CheckSource(m) \/ RejectReceipt(m)
      PROVE  Work
    BY <1>2 DEF LoadDecision, CheckSource, RejectReceipt, RejectWith, RetryLater, Working, PCs,
                InApply, InReject, Goto
<1>3. ASSUME NEW m \in Members, WriteDecision(m) \/ WriteReplay(m) \/ WriteReject(m)
      PROVE  Work
    BY <1>3 DEF WriteDecision, WriteReplay, WriteReject, RejectWith, RetryLater, AfterCommit, Working, PCs,
                InApply, InReject, Goto
<1> QED BY <1>1, <1>2, <1>3 DEF Next, vars

(* The rows change in four ways: an accepted decision, a replay's receipt,  *)
(* a rejection's receipt, a resolution.  A receipt is only added.           *)
Accepts(m) ==
    /\ pc[m] = "write"
    /\ status[value[m].payment] = "PENDING_RISK" /\ ~UniqueViolation(value[m])
    /\ Receipt(m) \notin RejectionCodes
    /\ InsertDecision(value[m])
    /\ IF Receipt(m) = None THEN StoreReceipt(m, "APPLIED") ELSE UNCHANGED receipts
    /\ AfterCommit(m)

Replays(m) ==
    /\ pc[m] = "replay" /\ Receipt(m) = None /\ StoreReceipt(m, "REPLAYED")
    /\ UNCHANGED <<status, decisions, audit, queue>>

Rejects(m) ==
    /\ pc[m] = "rejected" /\ Receipt(m) = None /\ StoreReceipt(m, code[m])
    /\ UNCHANGED <<status, decisions, audit, queue>>

LEMMA RowSteps ==
    ASSUME IInv, [Next]_vars
    PROVE  \/ UNCHANGED rows
           \/ \E m \in Members : /\ Accepts(m) \/ Replays(m) \/ Rejects(m)
                                 /\ UNCHANGED <<kafka, record>>
           \/ \E r \in Requests : rpc[r] = "finish" /\ ResolveRows(r) /\ UNCHANGED consumer
<1>1. CASE UNCHANGED vars
    BY <1>1 DEF vars
<1>2. CASE \/ \E p \in Partitions, r \in Records : Produce(p, r)
           \/ \E m \in Members, p \in Partitions : Assign(m, p) \/ Poll(m, p)
           \/ \E m \in Members : \/ Revoke(m) \/ Handle(m) \/ DatabaseError(m) \/ Crash(m)
                                 \/ Restart(m) \/ CommitOffset(m) \/ CommitOffsetFails(m)
                                 \/ ApplyReceipt(m) \/ LockPayment(m) \/ LoadDecision(m)
                                 \/ CheckSource(m) \/ RejectReceipt(m)
    BY <1>2 DEF Produce, Assign, Poll, Revoke, Handle, DatabaseError, RetryLater, Crash, Restart,
                CommitOffset, CommitOffsetFails, ApplyReceipt, LockPayment, LoadDecision, CheckSource,
                RejectReceipt, RejectWith
<1>3. ASSUME NEW m \in Members, WriteDecision(m) PROVE UNCHANGED rows \/ Accepts(m)
    BY <1>3 DEF WriteDecision, Accepts, Refused, RetryLater, RejectWith
<1>4. ASSUME NEW m \in Members, WriteReplay(m) PROVE UNCHANGED rows \/ Replays(m)
    BY <1>4 DEF WriteReplay, Replays, RetryLater, rows
<1>5. ASSUME NEW m \in Members, WriteReject(m) PROVE UNCHANGED rows \/ Rejects(m)
    BY <1>5 DEF WriteReject, Rejects, RetryLater
<1>6. ASSUME NEW m \in Members, WriteDecision(m) \/ WriteReplay(m) \/ WriteReject(m)
      PROVE  UNCHANGED <<kafka, record>>
    BY <1>6 DEF WriteDecision, WriteReplay, WriteReject, RetryLater, RejectWith, AfterCommit
<1>7. CASE \/ \E r \in Requests, c \in ResolveCommand : Receive(r, c)
           \/ \E r \in Requests : \/ ResolveQueueRow(r) \/ CurrentConflict(r)
                                  \/ UpdateReviewedPayment(r) \/ ResolveFails(r)
    BY <1>7 DEF Receive, ResolveQueueRow, CurrentConflict, UpdateReviewedPayment, ResolveFails
<1>8. ASSUME NEW r \in Requests, FinishResolve(r)
      PROVE  UNCHANGED rows \/ (rpc[r] = "finish" /\ ResolveRows(r))
    BY <1>8 DEF FinishResolve
<1> QED BY <1>1, <1>2, <1>3, <1>4, <1>5, <1>6, <1>7, <1>8 DEF Next

(* A stored receipt never changes.                                          *)
LEMMA ReceiptsKept ==
    ASSUME IInv, [Next]_vars, NEW p \in Partitions, NEW o \in Offsets, receipts[p][o] # None
    PROVE  receipts'[p][o] = receipts[p][o]
<1>1. ASSUME NEW m \in Members, NEW c, Receipt(m) = None, StoreReceipt(m, c), pc[m] \in Working
      PROVE  receipts'[p][o] = receipts[p][o]
    BY <1>1 DEF Receipt, StoreReceipt, IInv, TypeOK, TablesTypeOK, HoldsRecord, Working
<1> QED BY <1>1, RowSteps DEF Accepts, Replays, Rejects, ResolveRows, rows, Working, PCs, InApply, InReject

----------------------------------------------------------------------------
(* The audit trail and the answers to reviewers.                            *)

(* A request that finishes turns the pending row of its payment into one    *)
(* with its name, and into the outcome it asked for.                        *)
LEMMA ResolvedRow ==
    ASSUME IInv, NEW r \in Requests, rpc[r] = "finish", ResolveRows(r)
    PROVE  LET p == command[r].payment
               s == actionState[command[r].action]
           IN  /\ p \in Payments /\ queue[p] # None /\ queue[p].status = "PENDING"
               /\ found[r] = queue[p].decision
               /\ \A q \in Payments : q # p => queue'[q] = queue[q] /\ status'[q] = status[q]
               /\ queue'[p] # None /\ queue'[p].reviewer = r /\ queue'[p].status = s.review
               /\ queue'[p].decision = found[r]
               /\ status'[p] = s.payment
               /\ s.review \in {"APPROVED", "REJECTED"}
               /\ s.type = IF s.review = "APPROVED" THEN "MANUAL_REVIEW_APPROVED" ELSE "MANUAL_REVIEW_REJECTED"
<1> USE DEF IInv, TypeOK
<1> DEFINE p == command[r].payment
           s == actionState[command[r].action]
           new == [decision |-> queue[p].decision, status |-> s.review, version |-> 2, reviewer |-> r]
<1>1. /\ p \in Payments /\ queue[p] \in QueueRow
      /\ queue' = [queue EXCEPT ![p] = new] /\ status' = [status EXCEPT ![p] = s.payment]
    BY ResolveRowsAgrees
<1>2. queue[p] # None /\ queue[p].status = "PENDING" /\ found[r] = queue[p].decision
    BY DEF HoldsRow
<1>3. command[r].action \in {"APPROVE", "REJECT"}
    BY DEF HoldsRow, ResolveCommand, Actions, actionState
<1>4. /\ s.review \in {"APPROVED", "REJECTED"}
      /\ s.type = IF s.review = "APPROVED" THEN "MANUAL_REVIEW_APPROVED" ELSE "MANUAL_REVIEW_REJECTED"
    BY <1>3 DEF actionState
<1>5. new \in QueueRow
    BY <1>1, <1>4 DEF QueueRow, ReviewStatuses
<1>6. queue'[p] = new /\ status'[p] = s.payment
    BY <1>1 DEF TablesTypeOK
<1>7. new # None
    BY <1>5, NoneAssumption
<1>8. \A q \in Payments : q # p => queue'[q] = queue[q] /\ status'[q] = status[q]
    BY <1>1 DEF TablesTypeOK
<1> QED BY <1>1, <1>2, <1>4, <1>6, <1>7, <1>8

\* A payment with a queue row has its decision, so that none is accepted for it.
LEMMA QueuedNotPending ==
    ASSUME IInv, NEW p \in Payments, queue[p] # None
    PROVE  /\ status[p] # "PENDING_RISK"
           /\ queue[p].status = "PENDING" => status[p] = "REVIEW"
<1>1. PICK d \in decisions : d.payment = p /\ d.verdict = "REVIEW"
    BY DEF IInv, RowsAgree
<1> QED BY <1>1 DEF IInv, RowsAgree, StatusOf

(* What an accepted decision does to the queue.                             *)
LEMMA AcceptedQueue ==
    ASSUME IInv, NEW m \in Members, Accepts(m), NEW p \in Payments
    PROVE  /\ queue[p] # None => queue'[p] = queue[p] /\ status'[p] = status[p]
           /\ queue[p] = None => queue'[p] = None \/ queue'[p].status = "PENDING"
<1> USE DEF IInv, TypeOK
<1>1. value[m] \in Events /\ value[m].payment \in Payments
    BY DEF Accepts, HoldsRecord, InApply
<1>2. queue[value[m].payment] = None
    BY <1>1, QueuedNotPending DEF Accepts
<1> QED BY <1>1, <1>2 DEF Accepts, InsertDecision, TablesTypeOK

(* The audit trail stays exact.                                             *)
LEMMA AuditStep == IInv /\ [Next]_vars /\ AuditTrailExact => AuditTrailExact'
<1> SUFFICES ASSUME IInv, [Next]_vars, AuditTrailExact PROVE AuditTrailExact'
    OBVIOUS
<1> DEFINE Resolved == {q \in Payments : queue[q] # None /\ queue[q].status # "PENDING"}
           System(d) == [type |-> "RISK_DECISION_RECORDED", decision |-> d.id, actor |-> "SYSTEM"]
           Entry(p) == [type |-> IF queue[p].status = "APPROVED" THEN "MANUAL_REVIEW_APPROVED"
                                 ELSE "MANUAL_REVIEW_REJECTED",
                        decision |-> queue[p].decision, actor |-> queue[p].reviewer]
<1>0. audit = {System(d) : d \in decisions} \cup {Entry(p) : p \in Resolved}
    BY DEF AuditTrailExact
<1>1. CASE UNCHANGED <<audit, decisions, queue>>
    BY <1>1 DEF AuditTrailExact
<1>2. CASE \E m \in Members : Accepts(m)
  <2>1. PICK m \in Members : Accepts(m)
    BY <1>2
  <2>2. decisions' = decisions \cup {value[m]} /\ audit' = audit \cup {System(value[m])}
    BY <2>1 DEF Accepts, InsertDecision
  <2>3. Resolved' = Resolved /\ \A p \in Resolved : Entry(p)' = Entry(p)
    BY <2>1, AcceptedQueue
  <2>4. audit' = {System(d) : d \in decisions'} \cup {Entry(p)' : p \in Resolved'}
    BY <1>0, <2>2, <2>3
  <2> QED BY <2>4 DEF AuditTrailExact
<1>3. CASE \E r \in Requests : rpc[r] = "finish" /\ ResolveRows(r)
  <2>1. PICK r \in Requests : rpc[r] = "finish" /\ ResolveRows(r)
    BY <1>3
  <2>2. PICK p \in Payments : p = command[r].payment
    BY <2>1, ResolvedRow
  <2> DEFINE s == actionState[command[r].action]
  <2>3. /\ queue[p].status = "PENDING" /\ queue'[p] # None
        /\ queue'[p].reviewer = r /\ queue'[p].status = s.review /\ queue'[p].decision = found[r]
        /\ s.review \in {"APPROVED", "REJECTED"}
        /\ s.type = IF s.review = "APPROVED" THEN "MANUAL_REVIEW_APPROVED" ELSE "MANUAL_REVIEW_REJECTED"
    BY <2>1, <2>2, ResolvedRow
  <2>4. \A q \in Payments : q # p => queue'[q] = queue[q]
    BY <2>1, <2>2, ResolvedRow
  <2>5. Entry(p)' = [type |-> s.type, decision |-> found[r], actor |-> r]
    BY <2>3
  <2>6. decisions' = decisions /\ audit' = audit \cup {Entry(p)'}
    BY <2>1, <2>2, <2>5 DEF ResolveRows
  <2>7. Resolved' = Resolved \cup {p} /\ \A q \in Resolved : Entry(q)' = Entry(q)
    BY <2>3, <2>4
  <2>8. {Entry(q)' : q \in Resolved'} = {Entry(q) : q \in Resolved} \cup {Entry(p)'}
    <3> HIDE DEF Entry, Resolved
    <3> QED BY <2>7
  <2>9. audit' = {System(d) : d \in decisions'} \cup {Entry(q)' : q \in Resolved'}
    <3> HIDE DEF Entry, Resolved
    <3> QED BY <1>0, <2>6, <2>8
  <2> QED BY <2>9 DEF AuditTrailExact
<1> QED BY <1>1, <1>2, <1>3, RowSteps DEF Replays, Rejects, rows

(* Success is answered only with the row that makes it true; a request that *)
(* was answered changes no more.                                            *)
LEMMA AnswerSteps ==
    ASSUME IInv, [Next]_vars, NEW r \in Requests
    PROVE  /\ rpc[r] = "done" => UNCHANGED <<rpc[r], command[r], response[r]>>
           /\ response'[r] = "ok" /\ response[r] # "ok" =>
                 rpc[r] = "finish" /\ rpc'[r] = "done" /\ ResolveRows(r) /\ UNCHANGED command
           /\ response'[r] = "review_state_conflict" /\ response[r] # "review_state_conflict" =>
                 rpc[r] = "payment" /\ status[command[r].payment] # "REVIEW"
<1>1. CASE UNCHANGED reviews
    BY <1>1 DEF reviews
<1>2. ASSUME NEW t \in Requests, NEW c \in ResolveCommand, Receive(t, c)
      PROVE  /\ rpc[t] # "done" /\ UNCHANGED response
             /\ \A x \in Requests \ {t} : UNCHANGED <<rpc[x], command[x]>>
    BY <1>2 DEF Receive, IInv, TypeOK, ReviewTypeOK
<1>3. ASSUME NEW t \in Requests, ResolveQueueRow(t)
      PROVE  /\ rpc[t] # "done" /\ UNCHANGED <<response, command>>
             /\ \A x \in Requests \ {t} : UNCHANGED rpc[x]
    BY <1>3 DEF ResolveQueueRow, IInv, TypeOK, ReviewTypeOK
<1>4. ASSUME NEW t \in Requests, NEW a \in Responses, Answer(t, a)
      PROVE  /\ rpc'[t] = "done" /\ response'[t] = a /\ UNCHANGED command
             /\ \A x \in Requests \ {t} : UNCHANGED <<rpc[x], response[x]>>
    BY <1>4 DEF Answer, IInv, TypeOK, ReviewTypeOK
<1>5. ASSUME NEW t \in Requests, CurrentConflict(t) \/ ResolveFails(t)
      PROVE  /\ rpc[t] # "done"
             /\ \E a \in Responses \ {"ok", "review_state_conflict"} : Answer(t, a)
    BY <1>5 DEF CurrentConflict, ResolveFails, Responses
<1>6. ASSUME NEW t \in Requests, UpdateReviewedPayment(t)
      PROVE  \/ /\ rpc[t] # "done" /\ UNCHANGED <<response, command>>
                /\ \A x \in Requests \ {t} : UNCHANGED rpc[x]
             \/ /\ rpc[t] = "payment" /\ status[command[t].payment] # "REVIEW"
                /\ Answer(t, "review_state_conflict")
    BY <1>6 DEF UpdateReviewedPayment, IInv, TypeOK, ReviewTypeOK
<1>7. ASSUME NEW t \in Requests, FinishResolve(t)
      PROVE  /\ rpc[t] = "finish"
             /\ Answer(t, "error") \/ (ResolveRows(t) /\ Answer(t, "ok"))
    BY <1>7 DEF FinishResolve
<1>8. {"ok", "error", "review_state_conflict"} \subseteq Responses
    BY DEF Responses
<1> QED BY <1>1, <1>2, <1>3, <1>4, <1>5, <1>6, <1>7, <1>8 DEF Next, vars

(* The success answered to a reviewer stays recorded.                       *)
LEMMA SuccessStep ==
    ASSUME IInv, [Next]_vars, SuccessIsRecorded, SuccessFinal
    PROVE  SuccessIsRecorded' /\ SuccessFinal'
<1> SUFFICES ASSUME NEW r \in Requests, response'[r] = "ok"
             PROVE  LET p == command'[r].payment
                    IN  /\ rpc'[r] = "done" /\ queue'[p] # None /\ queue'[p].status # "PENDING"
                        /\ queue'[p].reviewer = r
                        /\ queue'[p].status = actionState[command'[r].action].review
                        /\ status'[p] = actionState[command'[r].action].payment
    BY DEF SuccessIsRecorded, SuccessFinal
<1>1. CASE response[r] # "ok"
  <2>1. rpc[r] = "finish" /\ rpc'[r] = "done" /\ ResolveRows(r) /\ command' = command
    BY <1>1, AnswerSteps
  <2> QED BY <2>1, ResolvedRow
<1>2. CASE response[r] = "ok"
  <2> DEFINE p == command[r].payment
  <2>1. rpc[r] = "done" /\ queue[p] # None /\ queue[p].status # "PENDING"
    BY <1>2 DEF SuccessFinal
  <2>2. rpc'[r] = "done" /\ command'[r] = command[r]
    BY <2>1, AnswerSteps
  <2>3. p \in Payments
    BY <2>1 DEF IInv, HoldsRow, ResolveCommand
  <2>4. queue'[p] = queue[p] /\ status'[p] = status[p]
    <3>1. CASE \E m \in Members : Accepts(m)
      BY <3>1, <2>1, <2>3, AcceptedQueue
    <3>2. ASSUME NEW t \in Requests, rpc[t] = "finish", ResolveRows(t)
          PROVE  queue'[p] = queue[p] /\ status'[p] = status[p]
      <4>1. p # command[t].payment
        BY <3>2, <2>1, ResolvedRow
      <4> QED BY <3>2, <4>1, <2>3, ResolvedRow
    <3> QED BY <3>1, <3>2, RowSteps DEF Replays, Rejects, rows
  <2> QED BY <1>2, <2>1, <2>2, <2>4 DEF SuccessIsRecorded
<1> QED BY <1>1, <1>2

(* The audit trail has one SYSTEM entry per stored decision and one         *)
(* reviewer's entry per resolved queue row, and nothing else.               *)
THEOREM AuditExact == Spec => []AuditTrailExact
<1>1. Init => AuditTrailExact
    BY DEF Init, TablesInit, AuditTrailExact
<1> QED BY <1>1, AuditStep, Invariance, PTL DEF Spec

(* A reviewer who was answered with success is the one the queue row names, *)
(* with the outcome requested.                                              *)
THEOREM SuccessRecorded == Spec => []SuccessIsRecorded
<1>1. Init => SuccessIsRecorded /\ SuccessFinal
    BY AnswerAssumption DEF Init, ReviewInit, Responses, SuccessIsRecorded, SuccessFinal
<1>2. IInv /\ [Next]_vars /\ SuccessIsRecorded /\ SuccessFinal => (SuccessIsRecorded /\ SuccessFinal)'
    BY SuccessStep
<1> QED BY <1>1, <1>2, Invariance, PTL DEF Spec

(* No request is answered with review_state_conflict: the payment of a      *)
(* pending queue row is in REVIEW.                                          *)
THEOREM StateConflictIsDead == Spec => []NoStateConflict
<1>1. Init => NoStateConflict
    BY AnswerAssumption DEF Init, ReviewInit, Responses, NoStateConflict
<1>2. IInv /\ [Next]_vars /\ NoStateConflict => NoStateConflict'
  <2> SUFFICES ASSUME IInv, [Next]_vars, NoStateConflict, NEW r \in Requests,
                      response'[r] = "review_state_conflict"
               PROVE  FALSE
    BY DEF NoStateConflict
  <2>1. rpc[r] = "payment" /\ status[command[r].payment] # "REVIEW"
    BY AnswerSteps DEF NoStateConflict
  <2> QED BY <2>1, QueuedNotPending DEF IInv, HoldsRow, ResolveCommand
<1> QED BY <1>1, <1>2, Invariance, PTL DEF Spec

----------------------------------------------------------------------------
(* Receipts and committed offsets.                                          *)

(* A record appended to a partition moves no other.                         *)
LEMMA LogGrows ==
    ASSUME TypeOK, NEW p \in Partitions, NEW r \in Records, Produce(p, r),
           NEW q \in Partitions
    PROVE  /\ Len(log'[q]) \in Nat /\ Len(log[q]) <= Len(log'[q])
           /\ \A o \in 1..Len(log[q]) : log'[q][o] = log[q][o]
           /\ \A o \in 1..Len(log'[q]) : o \notin 1..Len(log[q]) => q = p /\ o = Len(log[p]) + 1
BY DEF Produce, TypeOK, ConsumerTypeOK

LEMMA RecordStep == IInv /\ [Next]_vars /\ RecordOfLog => RecordOfLog'
<1> SUFFICES ASSUME IInv, [Next]_vars, RecordOfLog, NEW m \in Members, pc'[m] \in Working
             PROVE  /\ offset'[m] <= Len(log'[part'[m]])
                    /\ value'[m] = log'[part'[m]][offset'[m]]
    BY DEF RecordOfLog, Working, PCs, InApply, InReject
<1> USE DEF IInv, TypeOK, kafka, record
<1>1. CASE pc[m] \in Working /\ UNCHANGED <<log, part[m], offset[m], value[m]>>
    BY <1>1 DEF RecordOfLog
<1>2. ASSUME NEW p \in Partitions, NEW r \in Records, Produce(p, r)
      PROVE  /\ offset'[m] <= Len(log'[part'[m]])
             /\ value'[m] = log'[part'[m]][offset'[m]]
  <2>1. UNCHANGED <<pc, part, offset, value>>
    BY <1>2 DEF Produce
  <2>2. part[m] \in Partitions /\ offset[m] \in Offsets /\ Len(log[part[m]]) \in Nat
    BY <2>1 DEF HoldsRecord, ConsumerTypeOK, Working
  <2>3. offset[m] \in 1..Len(log[part[m]]) /\ value[m] = log[part[m]][offset[m]]
    BY <2>1, <2>2, BoundAssumption DEF RecordOfLog, Offsets
  <2> QED BY <1>2, <2>1, <2>2, <2>3, LogGrows, BoundAssumption DEF Offsets
<1>3. ASSUME NEW n \in Members, NEW p \in Partitions, Poll(n, p)
      PROVE  /\ offset'[m] <= Len(log'[part'[m]])
             /\ value'[m] = log'[part'[m]][offset'[m]]
  <2>1. CASE n = m
    BY <1>3, <2>1, BoundAssumption DEF Poll, ConsumerTypeOK
  <2>2. CASE n # m
    BY <1>1, <1>3, <2>2 DEF Poll, Goto, ConsumerTypeOK
  <2> QED BY <2>1, <2>2
<1>4. ASSUME NEW n \in Members, CommitOffset(n) \/ CommitOffsetFails(n) \/ Crash(n) \/ Restart(n)
      PROVE  pc[m] \in Working /\ UNCHANGED <<log, part[m], offset[m], value[m]>>
    BY <1>4 DEF CommitOffset, CommitOffsetFails, Crash, Restart, Goto, Forget, ConsumerTypeOK, Working
<1>5. ASSUME NEW n \in Members, NEW l \in Working, pc[n] \in Working, Goto(n, l), UNCHANGED <<kafka, record>>
      PROVE  pc[m] \in Working /\ UNCHANGED <<log, part[m], offset[m], value[m]>>
    BY <1>5 DEF Goto, ConsumerTypeOK
<1>6. ASSUME NEW n \in Members, \/ Revoke(n) \/ \E p \in Partitions : Assign(n, p)
      PROVE  pc[m] \in Working /\ UNCHANGED <<log, part[m], offset[m], value[m]>>
    BY <1>6 DEF Revoke, Assign
<1> QED BY <1>1, <1>2, <1>3, <1>4, <1>5, <1>6, ConsumerSteps DEF consumer

(* The statements after which a member is about to commit an offset.        *)
LEMMA ToCommit ==
    ASSUME IInv, [Next]_vars, NEW m \in Members, pc'[m] = "commit"
    PROVE  /\ UNCHANGED <<part[m], offset[m]>>
           /\ \/ pc[m] = "commit"
              \/ ApplyReceipt(m) \/ RejectReceipt(m)
              \/ WriteDecision(m) \/ WriteReplay(m) \/ WriteReject(m)
<1> USE DEF IInv, TypeOK, kafka, record
<1>1. CASE UNCHANGED consumer
    BY <1>1 DEF consumer
<1>2. ASSUME NEW n \in Members, \/ Handle(n) \/ DatabaseError(n) \/ LockPayment(n) \/ LoadDecision(n) \/ CheckSource(n)
      PROVE  UNCHANGED <<part[m], offset[m]>> /\ pc[m] = "commit"
    BY <1>2 DEF Handle, DatabaseError, LockPayment, LoadDecision, CheckSource, RetryLater, RejectWith, Goto,
                ConsumerTypeOK
<1>3. ASSUME NEW n \in Members, \/ ApplyReceipt(n) \/ RejectReceipt(n)
                                \/ WriteDecision(n) \/ WriteReplay(n) \/ WriteReject(n)
      PROVE  UNCHANGED <<part[m], offset[m]>> /\ (n = m \/ pc[m] = "commit")
    BY <1>3 DEF ApplyReceipt, RejectReceipt, WriteDecision, WriteReplay, WriteReject, RetryLater, RejectWith,
                AfterCommit, Goto, ConsumerTypeOK
<1>4. ASSUME NEW n \in Members, \/ Revoke(n) \/ CommitOffset(n) \/ CommitOffsetFails(n)
                                \/ Crash(n) \/ Restart(n)
                                \/ \E p \in Partitions : Assign(n, p) \/ Poll(n, p)
      PROVE  UNCHANGED <<part[m], offset[m]>> /\ pc[m] = "commit"
    BY <1>4 DEF Revoke, CommitOffset, CommitOffsetFails, Crash, Restart, Assign, Poll, Forget, Goto,
                ConsumerTypeOK
<1>5. ASSUME NEW p \in Partitions, NEW r \in Records, Produce(p, r)
      PROVE  UNCHANGED <<part[m], offset[m]>> /\ pc[m] = "commit"
    BY <1>5 DEF Produce
<1> QED BY <1>1, <1>2, <1>3, <1>4, <1>5 DEF Next, vars

LEMMA PersistedStep == IInv /\ [Next]_vars /\ Persisted => Persisted'
<1> SUFFICES ASSUME IInv, [Next]_vars, Persisted, NEW m \in Members, pc'[m] = "commit"
             PROVE  receipts'[part[m]][offset[m]] # None
    BY ToCommit DEF Persisted, Receipt
<1> USE DEF IInv, TypeOK
<1>1. CASE Receipt(m) # None /\ pc[m] \in Working
    BY <1>1, ReceiptsKept DEF Receipt, HoldsRecord, Working
<1>2. CASE pc[m] = "commit"
    BY <1>1, <1>2 DEF Persisted, Working, PCs
<1>3. ASSUME ApplyReceipt(m) \/ RejectReceipt(m) PROVE Receipt(m) # None /\ pc[m] \in Working
    BY <1>3, NoneAssumption DEF ApplyReceipt, RejectReceipt, RetryLater, Goto, ConsumerTypeOK, Dispositions,
                Working, PCs, InApply, InReject
<1>4. ASSUME NEW c, Receipt(m) = None, StoreReceipt(m, c), c # None, pc[m] \in Working
      PROVE  receipts'[part[m]][offset[m]] # None
    BY <1>4 DEF StoreReceipt, HoldsRecord, TablesTypeOK, Working
<1>5. CASE WriteDecision(m) \/ WriteReplay(m)
  <2>1. pc[m] \in Working /\ "APPLIED" # None /\ "REPLAYED" # None
    BY <1>5, NoneAssumption DEF WriteDecision, WriteReplay, Working, PCs, InApply, Dispositions, Accepted
  <2>2. Receipt(m) # None \/ StoreReceipt(m, "APPLIED") \/ StoreReceipt(m, "REPLAYED")
    BY <1>5 DEF WriteDecision, WriteReplay, RetryLater, RejectWith, Goto, ConsumerTypeOK
  <2> QED BY <1>1, <1>4, <2>1, <2>2
<1>6. CASE WriteReject(m)
  <2>1. pc[m] \in Working /\ code[m] # None
    BY <1>6, NoneAssumption DEF WriteReject, HoldsRecord, Working, PCs, InReject, Dispositions
  <2>2. Receipt(m) # None \/ StoreReceipt(m, code[m])
    BY <1>6 DEF WriteReject, RetryLater, Goto, ConsumerTypeOK
  <2> QED BY <1>1, <1>4, <2>1, <2>2
<1> QED BY <1>1, <1>2, <1>3, <1>5, <1>6, ToCommit

LEMMA OwnersInStepStep ==
    ASSUME IInv, [Next]_vars, OwnersInStep
    PROVE  OwnersInStep' /\ \A p \in Partitions : committed'[p] >= committed[p]
<1> USE DEF IInv, TypeOK, kafka, record
<1> DEFINE Done == OwnersInStep' /\ \A p \in Partitions : committed'[p] >= committed[p]
<1>1. CASE UNCHANGED <<committed, owner, position, pc, record>>
    BY <1>1, BoundAssumption DEF OwnersInStep, ConsumerTypeOK
<1>2. ASSUME NEW m \in Members, NEW l \in Working, pc[m] \in Working, Goto(m, l), UNCHANGED <<kafka, record>>
      PROVE  Done
    BY <1>2, BoundAssumption DEF OwnersInStep, ConsumerTypeOK, Goto
<1>3. ASSUME NEW m \in Members, NEW p \in Partitions, Assign(m, p) PROVE Done
  <2>1. position'[p] >= committed[p] /\ position'[p] \in Nat
    BY <1>3, BoundAssumption DEF Assign, ConsumerTypeOK
  <2>2. pc[m] \notin Working
    BY <1>3 DEF Assign, Working
  <2> QED BY <1>3, <2>1, <2>2, BoundAssumption DEF Assign, OwnersInStep, HoldsRecord, ConsumerTypeOK, Working
<1>4. ASSUME NEW m \in Members, NEW p \in Partitions, Poll(m, p) PROVE Done
  <2>1. position'[p] = position[p] + 1 /\ owner[p] = m /\ part'[m] = p /\ offset'[m] = position[p] + 1
    BY <1>4 DEF Poll, ConsumerTypeOK
  <2>2. \A n \in Members : pc'[n] \in Working /\ n # m =>
            pc[n] \in Working /\ UNCHANGED <<part[n], offset[n]>>
    BY <1>4 DEF Poll, Goto, ConsumerTypeOK
  <2> QED BY <1>4, <2>1, <2>2, BoundAssumption DEF Poll, OwnersInStep, HoldsRecord, ConsumerTypeOK, Working
<1>5. ASSUME NEW m \in Members, Revoke(m) PROVE Done
  <2>1. \A p \in Partitions : owner'[p] # None => owner'[p] = owner[p]
    BY <1>5 DEF Revoke, Disowned
  <2>2. UNCHANGED <<committed, position, pc, record>>
    BY <1>5 DEF Revoke
  <2> QED BY <2>1, <2>2, BoundAssumption, NoneAssumption
          DEF OwnersInStep, HoldsRecord, ConsumerTypeOK, Working, Transactions
<1>6. ASSUME NEW m \in Members, CommitOffset(m) \/ CommitOffsetFails(m) PROVE Done
  <2>1. pc[m] \in Working /\ part[m] \in Partitions
    BY <1>6 DEF CommitOffset, CommitOffsetFails, HoldsRecord, Working, PCs
  <2>2. \/ UNCHANGED committed
        \/ /\ committed' = [committed EXCEPT ![part[m]] = offset[m]]
           /\ position[part[m]] = offset[m] /\ committed[part[m]] <= offset[m]
    BY <1>6, <2>1, NoneAssumption DEF CommitOffset, CommitOffsetFails, OwnersInStep, Transactions
  <2>3. \A p \in Partitions : owner'[p] # None => owner'[p] = owner[p]
    BY <1>6 DEF CommitOffset, CommitOffsetFails, Disowned
  <2>4. \A n \in Members : pc'[n] \in Working => n # m /\ pc[n] \in Working /\ UNCHANGED <<part[n], offset[n]>>
    BY <1>6 DEF CommitOffset, CommitOffsetFails, Goto, Forget, ConsumerTypeOK, Working
  <2>5. UNCHANGED position
    BY <1>6 DEF CommitOffset, CommitOffsetFails
  <2>6. \A p \in Partitions : committed'[p] >= committed[p] /\ (owner'[p] # None => committed'[p] <= position[p])
    <3>1. CASE UNCHANGED committed
      BY <3>1, <2>3, BoundAssumption DEF OwnersInStep, ConsumerTypeOK
    <3>2. CASE committed' = [committed EXCEPT ![part[m]] = offset[m]] /\ ~UNCHANGED committed
      <4>1. \A p \in Partitions : committed'[p] = IF p = part[m] THEN position[p] ELSE committed[p]
        BY <3>2, <2>1, <2>2 DEF ConsumerTypeOK
      <4>2. committed[part[m]] <= position[part[m]]
        BY <3>2, <2>2
      <4>3. \A p \in Partitions : committed[p] \in Nat /\ position[p] \in Nat
        BY BoundAssumption DEF ConsumerTypeOK
      <4> HIDE DEF IInv, TypeOK
      <4> QED BY <4>1, <4>2, <4>3, <2>3 DEF OwnersInStep
    <3> QED BY <3>1, <3>2, <2>2
  <2>7. \A n \in Members : pc'[n] \in Working /\ owner'[part'[n]] = n => position[part[n]] = offset[n]
    BY <2>3, <2>4, NoneAssumption DEF OwnersInStep, HoldsRecord, Working, Transactions
  <2> QED BY <2>4, <2>5, <2>6, <2>7 DEF OwnersInStep
<1>7. ASSUME NEW m \in Members, Crash(m) \/ Restart(m) PROVE Done
  <2>1. \A p \in Partitions : owner'[p] # None => owner'[p] = owner[p]
    BY <1>7 DEF Crash, Restart, Disowned
  <2>2. \A n \in Members : pc'[n] \in Working => pc[n] \in Working /\ UNCHANGED <<part[n], offset[n]>>
    BY <1>7 DEF Crash, Restart, Goto, Forget, ConsumerTypeOK, Working
  <2>3. UNCHANGED <<committed, position>>
    BY <1>7 DEF Crash, Restart
  <2> QED BY <2>1, <2>2, <2>3, BoundAssumption, NoneAssumption
          DEF OwnersInStep, HoldsRecord, ConsumerTypeOK, Working, Transactions
<1> QED BY <1>1, <1>2, <1>3, <1>4, <1>5, <1>6, <1>7, ConsumerSteps DEF consumer, Produce

LEMMA OwnersSettleStep ==
    ASSUME IInv, [Next]_vars, OwnersInStep, Persisted, OwnersSettle, NoRecordSkipped
    PROVE  OwnersSettle'
<1> SUFFICES ASSUME AutoOffsetReset = "earliest",
                    NEW p \in Partitions, owner'[p] # None,
                    NEW o \in 1..position'[p], receipts'[p][o] = None
             PROVE  pc'[owner'[p]] \in Working /\ part'[owner'[p]] = p /\ offset'[owner'[p]] = o
    BY DEF OwnersSettle, Settled, Working, PCs, InApply, InReject
<1> USE DEF IInv, TypeOK, kafka, record
<1> DEFINE Held(n) == pc'[n] \in Working /\ part'[n] = p /\ offset'[n] = o
<1>1. position[p] \in 0..MaxRecords /\ position'[p] \in 0..MaxRecords
    BY NextIInv DEF ConsumerTypeOK
<1>2. o \in Offsets /\ receipts[p][o] = None
    BY <1>1, BoundAssumption, ReceiptsKept DEF Offsets
<1>3. ASSUME owner[p] # None, o \in 1..position[p]
      PROVE  owner[p] \in Members /\ pc[owner[p]] \in Working /\ part[owner[p]] = p /\ offset[owner[p]] = o
  <2>1. owner[p] \in Members
    BY <1>3 DEF ConsumerTypeOK
  <2>2. ~Settled(p, o)
    BY <1>2 DEF Settled
  <2> HIDE DEF IInv, TypeOK
  <2> QED BY <1>3, <2>1, <2>2 DEF OwnersSettle
<1>4. CASE UNCHANGED <<owner, position, pc, record>>
    BY <1>3, <1>4
<1>5. ASSUME NEW m \in Members, NEW l \in Working, pc[m] \in Working, Goto(m, l), UNCHANGED <<kafka, record>>
      PROVE  Held(owner'[p])
    BY <1>3, <1>5 DEF Goto, ConsumerTypeOK
<1>6. ASSUME NEW m \in Members, NEW q \in Partitions, Assign(m, q) PROVE Held(owner'[p])
  <2>1. CASE q # p
    BY <1>3, <1>6, <2>1 DEF Assign, ConsumerTypeOK
  <2>2. CASE q = p
    <3>1. o \in 1..committed[p]
      BY <1>6, <2>2, BoundAssumption DEF Assign, ConsumerTypeOK
    <3> QED BY <1>2, <3>1 DEF NoRecordSkipped
  <2> QED BY <2>1, <2>2
<1>7. ASSUME NEW m \in Members, NEW q \in Partitions, Poll(m, q) PROVE Held(owner'[p])
  <2>1. CASE q # p
    BY <1>3, <1>7, <2>1 DEF Poll, Goto, ConsumerTypeOK, Working
  <2>2. CASE q = p
    <3>1. owner[p] = m /\ pc[m] \notin Working /\ position'[p] = position[p] + 1
      BY <1>7, <2>2 DEF Poll, ConsumerTypeOK, Working
    <3>2. o = position[p] + 1
      BY <1>1, <1>3, <3>1, BoundAssumption, NoneAssumption DEF Transactions
    <3> QED BY <1>7, <2>2, <3>1, <3>2 DEF Poll, Goto, ConsumerTypeOK, Working, PCs
  <2> QED BY <2>1, <2>2
<1>8. ASSUME NEW m \in Members, CommitOffset(m) PROVE Held(owner'[p])
  <2>1. owner[p] # m
    <3> SUFFICES ASSUME owner[p] = m PROVE FALSE
      OBVIOUS
    <3>1. pc[m] = "commit" /\ part[m] = p /\ offset[m] = o
      BY <1>3, <1>8 DEF CommitOffset, ConsumerTypeOK
    <3> QED BY <1>2, <3>1 DEF Persisted, Receipt
  <2> QED BY <1>3, <1>8, <2>1 DEF CommitOffset, Goto, Forget, ConsumerTypeOK
<1>9. ASSUME NEW m \in Members, Revoke(m) \/ CommitOffsetFails(m) \/ Crash(m) PROVE Held(owner'[p])
  <2>1. owner'[p] = owner[p] /\ owner[p] # m /\ position' = position
    BY <1>9 DEF Revoke, CommitOffsetFails, Crash, Disowned
  <2> QED BY <1>3, <1>9, <2>1 DEF Revoke, CommitOffsetFails, Crash, Goto, Forget, ConsumerTypeOK
<1>10. ASSUME NEW m \in Members, Restart(m) PROVE Held(owner'[p])
  BY <1>3, <1>10 DEF Restart, Goto, ConsumerTypeOK, Working
<1>11. ASSUME NEW q \in Partitions, NEW r \in Records, Produce(q, r) PROVE Held(owner'[p])
  BY <1>4, <1>11 DEF Produce
<1> QED BY <1>4, <1>5, <1>6, <1>7, <1>8, <1>9, <1>10, <1>11, ConsumerSteps DEF consumer

\* Committed offsets move only over records that have a receipt.
LEMMA NoRecordSkippedStep ==
    ASSUME IInv, [Next]_vars, OwnersInStep, Persisted, OwnersSettle, NoRecordSkipped
    PROVE  NoRecordSkipped'
<1> SUFFICES ASSUME AutoOffsetReset = "earliest",
                    NEW p \in Partitions, NEW o \in 1..committed'[p]
             PROVE  receipts'[p][o] # None
    BY DEF NoRecordSkipped
<1> USE DEF IInv, TypeOK, kafka, record
<1>1. committed[p] \in 0..MaxRecords /\ committed'[p] \in 0..MaxRecords
    BY NextIInv DEF ConsumerTypeOK
<1>2. o \in Offsets
    BY <1>1, BoundAssumption DEF Offsets
<1>3. CASE o \in 1..committed[p]
    BY <1>2, <1>3, ReceiptsKept DEF NoRecordSkipped
<1>4. CASE o \notin 1..committed[p]
  <2>1. committed'[p] # committed[p]
    BY <1>4
  <2>2. PICK m \in Members :
          /\ pc[m] = "commit" /\ owner[part[m]] = m
          /\ committed' = [committed EXCEPT ![part[m]] = offset[m]]
    BY <2>1, ConsumerSteps
       DEF consumer, Produce, Assign, Poll, Revoke, CommitOffset, CommitOffsetFails, Crash, Restart
  <2>3. p = part[m] /\ o \in 1..offset[m]
    BY <2>1, <2>2 DEF ConsumerTypeOK
  <2>4. position[p] = offset[m]
    BY <2>2, <2>3 DEF OwnersInStep, Working, PCs
  <2>5. receipts[p][o] # None
    BY <2>2, <2>3, <2>4, NoneAssumption DEF OwnersSettle, Settled, Persisted, Receipt, Transactions
  <2> QED BY <1>2, <2>5, ReceiptsKept
<1> QED BY <1>3, <1>4

----------------------------------------------------------------------------
(* What the consumer has worked through.                                    *)
Progress == OwnersInStep /\ Persisted /\ OwnersSettle /\ NoRecordSkipped

LEMMA ProgressInvariance == Spec => []Progress
<1>1. Init => Progress
    BY DEF Init, ConsumerInit, Progress, OwnersInStep, Persisted, OwnersSettle, NoRecordSkipped, Working
<1>2. IInv /\ [Next]_vars /\ Progress => Progress'
    BY OwnersInStepStep, PersistedStep, OwnersSettleStep, NoRecordSkippedStep DEF Progress
<1> QED BY <1>1, <1>2, Invariance, PTL DEF Spec

(* With the default reset every record below the committed offset has a     *)
(* receipt: Run commits an offset only after Apply or Reject committed, and *)
(* only the owner of the partition moves its offset.                        *)
THEOREM OffsetsFollowReceipts == Spec => []NoRecordSkipped
<1>1. Progress => NoRecordSkipped
    BY DEF Progress
<1> QED BY <1>1, ProgressInvariance, PTL

(* A receipt never changes and a committed offset never moves back.         *)
THEOREM ProgressKept == Spec => ProgressNeverUndone
<1> DEFINE Kept == /\ \A p \in Partitions : \A o \in Offsets :
                          receipts[p][o] # None => receipts'[p][o] = receipts[p][o]
                   /\ \A p \in Partitions : committed'[p] >= committed[p]
<1>1. IInv /\ Progress /\ [Next]_vars => [Kept]_vars
    BY ReceiptsKept, OwnersInStepStep DEF Progress
<1> QED BY <1>1, Invariance, ProgressInvariance, PTL DEF Spec, ProgressNeverUndone

----------------------------------------------------------------------------
(* Row locks and waiting.                                                   *)

\* Member m goes on to a statement before or after its transaction, and the
\* locks of the others stay as they are.
LEMMA UnlockedMember ==
    ASSUME IInv, LocksHeld, NEW m \in Members, NEW l, Goto(m, l), l \notin Locked,
           UNCHANGED reviews,
           \A n \in Members \ {m} : UNCHANGED <<value[n], seen[n]>>,
           \A p \in Payments : payLock[p] # m => status'[p] = status[p],
           \/ pc[m] \notin Locked /\ UNCHANGED locks
           \/ EndTransaction(m)
    PROVE  LocksHeld'
<1> USE DEF IInv, TypeOK
<1>1. \A p \in Payments : /\ payLock[p] # m => payLock'[p] = payLock[p]
                          /\ payLock'[p] # m /\ (payLock'[p] # None => payLock'[p] = payLock[p])
                          /\ queueLock'[p] = queueLock[p]
    BY ProcessAssumption, NoneAssumption
       DEF LocksHeld, locks, EndTransaction, Released, TablesTypeOK, Transactions
<1>2. \A n \in Members \ {m} : UNCHANGED <<pc[n], value[n], seen[n]>>
    BY DEF Goto, ConsumerTypeOK
<1>3. pc'[m] \notin Locked
    BY DEF Goto, ConsumerTypeOK
<1>4. ASSUME NEW n \in Members
      PROVE  /\ pc'[n] \in Locked => /\ payLock'[value'[n].payment] = n
                                     /\ seen'[n] = status'[value'[n].payment]
             /\ pc'[n] = "write" => seen'[n] = "PENDING_RISK"
    BY <1>1, <1>2, <1>3 DEF LocksHeld, HoldsRecord, Locked
<1>5. \A r \in Requests : rpc'[r] = "finish" => payLock'[command'[r].payment] = r
    BY <1>1, ProcessAssumption DEF LocksHeld, reviews, HoldsRow, ResolveCommand
<1>6. ASSUME NEW p \in Payments
      PROVE  /\ payLock'[p] \in Members =>
                   pc'[payLock'[p]] \in Locked /\ value'[payLock'[p]].payment = p
             /\ payLock'[p] \in Requests =>
                   rpc'[payLock'[p]] = "finish" /\ command'[payLock'[p]].payment = p
             /\ queueLock'[p] # None =>
                   rpc'[queueLock'[p]] \in {"payment", "finish"} /\ command'[queueLock'[p]].payment = p
    BY <1>1, <1>2, NoneAssumption DEF LocksHeld, reviews, Transactions
<1> QED BY <1>4, <1>5, <1>6 DEF LocksHeld

\* Member m keeps its locks.
LEMMA LockedMember ==
    ASSUME IInv, LocksHeld, NEW m \in Members, NEW l \in Locked, pc[m] \in Locked, Goto(m, l),
           l = "write" => seen[m] = "PENDING_RISK",
           UNCHANGED <<reviews, locks, status, value, seen>>
    PROVE  LocksHeld'
<1> USE DEF IInv, TypeOK
<1>1. \A n \in Members : (pc'[n] \in Locked <=> pc[n] \in Locked) /\ (n # m => pc'[n] = pc[n])
    BY DEF Goto, ConsumerTypeOK
<1>2. pc'[m] = "write" => seen[m] = "PENDING_RISK"
    BY DEF Goto, ConsumerTypeOK
<1> QED BY <1>1, <1>2 DEF LocksHeld, reviews, locks

LEMMA MemberLocks ==
    ASSUME IInv, LocksHeld, UNCHANGED reviews, NEW m \in Members,
           \/ Handle(m) \/ ApplyReceipt(m) \/ LockPayment(m) \/ LoadDecision(m) \/ CheckSource(m)
           \/ WriteDecision(m) \/ WriteReplay(m) \/ RejectReceipt(m) \/ WriteReject(m)
           \/ CommitOffset(m) \/ CommitOffsetFails(m) \/ DatabaseError(m) \/ Crash(m) \/ Restart(m)
           \/ \E p \in Partitions : Poll(m, p)
    PROVE  LocksHeld'
<1> USE DEF IInv, TypeOK, rows, locks, kafka, record, Locked
<1>1. CASE RetryLater(m) \/ \E c \in RejectionCodes : RejectWith(m, c)
    BY <1>1, UnlockedMember DEF RetryLater, RejectWith
<1>2. CASE \/ Handle(m) \/ CommitOffset(m) \/ CommitOffsetFails(m) \/ Restart(m)
           \/ \E p \in Partitions : Poll(m, p)
  <2>1. PICK l \in PCs \ Locked : Goto(m, l)
    BY <1>2 DEF Handle, CommitOffset, CommitOffsetFails, Restart, Poll, PCs, InApply, InReject
  <2>2. pc[m] \notin Locked /\ UNCHANGED <<locks, status>>
    BY <1>2 DEF Handle, CommitOffset, CommitOffsetFails, Restart, Poll
  <2>3. \A n \in Members \ {m} : UNCHANGED <<value[n], seen[n]>>
    BY <1>2 DEF Handle, CommitOffset, CommitOffsetFails, Restart, Poll, Forget, ConsumerTypeOK
  <2> QED BY <2>1, <2>2, <2>3, UnlockedMember
<1>3. CASE Crash(m)
  <2>1. \A n \in Members \ {m} : UNCHANGED <<value[n], seen[n]>>
    BY <1>3 DEF Crash, Forget, ConsumerTypeOK
  <2> QED BY <1>3, <2>1, UnlockedMember DEF Crash
<1>4. CASE (ApplyReceipt(m) \/ RejectReceipt(m)) /\ ~RetryLater(m)
    BY <1>4, UnlockedMember DEF ApplyReceipt, RejectReceipt
<1>5. CASE LockPayment(m) /\ ~RejectWith(m, "payment_not_found")
  <2>1. PICK p \in Payments : p = value[m].payment
    BY <1>5 DEF LockPayment
  <2>2. /\ pc[m] = "lock" /\ payLock[p] = None /\ Goto(m, "load")
        /\ payLock' = [payLock EXCEPT ![p] = m] /\ seen' = [seen EXCEPT ![m] = status[p]]
        /\ UNCHANGED <<status, queueLock, value>>
    BY <1>5, <2>1 DEF LockPayment
  <2>3. payLock'[p] = m /\ \A q \in Payments : q # p => payLock'[q] = payLock[q]
    BY <2>2 DEF TablesTypeOK
  <2>4. pc'[m] = "load" /\ seen'[m] = status[p]
        /\ \A n \in Members : n # m => UNCHANGED <<pc[n], seen[n]>>
    BY <2>2 DEF Goto, ConsumerTypeOK
  <2>5. ASSUME NEW n \in Members
        PROVE  /\ pc'[n] \in Locked => /\ payLock'[value'[n].payment] = n
                                       /\ seen'[n] = status'[value'[n].payment]
               /\ pc'[n] = "write" => seen'[n] = "PENDING_RISK"
    BY <2>1, <2>2, <2>3, <2>4, NoneAssumption DEF LocksHeld, HoldsRecord, Transactions
  <2>6. \A r \in Requests : rpc'[r] = "finish" => payLock'[command'[r].payment] = r
    BY <2>2, <2>3, NoneAssumption DEF LocksHeld, reviews, HoldsRow, ResolveCommand, Transactions
  <2>7. ASSUME NEW q \in Payments
        PROVE  /\ payLock'[q] \in Members =>
                     pc'[payLock'[q]] \in Locked /\ value'[payLock'[q]].payment = q
               /\ payLock'[q] \in Requests =>
                     rpc'[payLock'[q]] = "finish" /\ command'[payLock'[q]].payment = q
               /\ queueLock'[q] # None =>
                     rpc'[queueLock'[q]] \in {"payment", "finish"} /\ command'[queueLock'[q]].payment = q
    BY <2>1, <2>2, <2>3, <2>4, ProcessAssumption DEF LocksHeld, reviews
  <2> QED BY <2>5, <2>6, <2>7 DEF LocksHeld
<1>6. CASE (LoadDecision(m) \/ CheckSource(m)) /\ ~RejectWith(m, "decision_conflict")
           /\ ~RejectWith(m, "payment_state_conflict")
    BY <1>6, LockedMember DEF LoadDecision, CheckSource
<1>7. CASE (WriteDecision(m) \/ WriteReplay(m) \/ WriteReject(m)) /\ AfterCommit(m)
  <2>1. \A p \in Payments : payLock[p] # m => status'[p] = status[p]
    <3>1. CASE WriteDecision(m)
      <4>1. value[m].payment \in Payments /\ payLock[value[m].payment] = m
        BY <3>1 DEF WriteDecision, LocksHeld, HoldsRecord
      <4>2. UNCHANGED status \/ InsertDecision(value[m])
        BY <3>1 DEF WriteDecision, RetryLater, RejectWith
      <4> QED BY <4>1, <4>2 DEF InsertDecision, TablesTypeOK
    <3>2. CASE WriteReplay(m) \/ WriteReject(m)
      BY <3>2 DEF WriteReplay, WriteReject, RetryLater
    <3> QED BY <1>7, <3>1, <3>2
  <2> QED BY <1>7, <2>1, UnlockedMember DEF AfterCommit
<1>8. CASE DatabaseError(m)
    BY <1>1, <1>8 DEF DatabaseError
<1> QED BY <1>1, <1>2, <1>3, <1>4, <1>5, <1>6, <1>7, <1>8
        DEF WriteDecision, WriteReplay, WriteReject, ApplyReceipt, RejectReceipt, LoadDecision, CheckSource,
            LockPayment, RejectionCodes

\* The locks of a kind that request r holds after a step, given that those of
\* the others stay as they are.
LocksOf(r, lock, now) ==
    \A p \in Payments : \/ now[p] = lock[p] /\ lock[p] # r
                        \/ now[p] = None /\ lock[p] \in {r, None}
                        \/ now[p] = r /\ lock[p] \in {r, None} /\ command'[r].payment = p

\* Request r goes on or ends and the locks of the others stay as they are.
LEMMA RequestMoves ==
    ASSUME IInv, LocksHeld, NEW r \in Requests, UNCHANGED consumer,
           \A t \in Requests \ {r} : UNCHANGED <<rpc[t], command[t]>>,
           \A p \in Payments : payLock[p] # r => status'[p] = status[p],
           LocksOf(r, payLock, payLock'), LocksOf(r, queueLock, queueLock'),
           \A p \in Payments : payLock'[p] = r => rpc'[r] = "finish",
           \A p \in Payments : queueLock'[p] = r => rpc'[r] \in {"payment", "finish"},
           rpc'[r] = "finish" => payLock'[command'[r].payment] = r
    PROVE  LocksHeld'
<1> USE DEF IInv, TypeOK, LocksOf
<1>1. UNCHANGED <<pc, value, seen>>
    BY DEF consumer, record
<1>2. r \notin Members
    BY ProcessAssumption
<1>3. ASSUME NEW m \in Members
      PROVE  /\ pc'[m] \in Locked => /\ payLock'[value'[m].payment] = m
                                     /\ seen'[m] = status'[value'[m].payment]
             /\ pc'[m] = "write" => seen'[m] = "PENDING_RISK"
    BY <1>1, <1>2, NoneAssumption DEF LocksHeld, HoldsRecord, Locked, Transactions
<1>4. ASSUME NEW t \in Requests, rpc'[t] = "finish" PROVE payLock'[command'[t].payment] = t
    BY <1>4, NoneAssumption DEF LocksHeld, HoldsRow, ResolveCommand, Transactions
<1>5. ASSUME NEW p \in Payments
      PROVE  /\ payLock'[p] \in Members =>
                   pc'[payLock'[p]] \in Locked /\ value'[payLock'[p]].payment = p
             /\ payLock'[p] \in Requests =>
                   rpc'[payLock'[p]] = "finish" /\ command'[payLock'[p]].payment = p
             /\ queueLock'[p] # None =>
                   rpc'[queueLock'[p]] \in {"payment", "finish"} /\ command'[queueLock'[p]].payment = p
    BY <1>1, <1>2, NoneAssumption DEF LocksHeld, Transactions, TablesTypeOK
<1> QED BY <1>3, <1>4, <1>5 DEF LocksHeld

LEMMA RequestLocks ==
    ASSUME IInv, LocksHeld, UNCHANGED consumer, NEW r \in Requests,
           \/ \E c \in ResolveCommand : Receive(r, c)
           \/ ResolveQueueRow(r) \/ CurrentConflict(r) \/ UpdateReviewedPayment(r)
           \/ FinishResolve(r) \/ ResolveFails(r)
    PROVE  LocksHeld'
<1> USE DEF IInv, TypeOK, rows, locks
<1>1. CASE \E a \in Responses : Answer(r, a)
  <2>1. /\ rpc'[r] = "done" /\ UNCHANGED command
        /\ \A t \in Requests \ {r} : UNCHANGED rpc[t]
    BY <1>1 DEF Answer, ReviewTypeOK
  <2>2. \A p \in Payments : /\ payLock'[p] = IF payLock[p] = r THEN None ELSE payLock[p]
                            /\ queueLock'[p] = IF queueLock[p] = r THEN None ELSE queueLock[p]
    BY <1>1 DEF Answer, EndTransaction, Released, TablesTypeOK
  <2>3. \A p \in Payments : payLock[p] # r => status'[p] = status[p]
    <3>1. CASE rpc[r] = "finish" /\ ResolveRows(r)
      BY <3>1, ResolvedRow DEF LocksHeld
    <3>2. CASE UNCHANGED status
      BY <3>2
    <3> QED BY <3>1, <3>2
            DEF Receive, ResolveQueueRow, CurrentConflict, UpdateReviewedPayment, FinishResolve, ResolveFails
  <2>4. LocksOf(r, payLock, payLock') /\ LocksOf(r, queueLock, queueLock')
    BY <2>2 DEF LocksOf
  <2>5. \A p \in Payments : payLock'[p] # r /\ queueLock'[p] # r
    BY <2>2, NoneAssumption DEF Transactions
  <2> HIDE DEF IInv, TypeOK
  <2> QED BY <2>1, <2>3, <2>4, <2>5, RequestMoves
<1>2. ASSUME NEW c \in ResolveCommand, Receive(r, c) PROVE LocksHeld'
  <2>1. /\ rpc[r] = "idle" /\ rpc'[r] = "update" /\ UNCHANGED <<locks, status>>
        /\ \A t \in Requests \ {r} : UNCHANGED <<rpc[t], command[t]>>
    BY <1>2 DEF Receive, ReviewTypeOK
  <2>2. \A p \in Payments : payLock[p] # r /\ queueLock[p] # r
    BY <2>1, NoneAssumption DEF LocksHeld, Transactions
  <2>3. LocksOf(r, payLock, payLock') /\ LocksOf(r, queueLock, queueLock')
    BY <2>1, <2>2 DEF LocksOf
  <2> HIDE DEF IInv, TypeOK
  <2> QED BY <2>1, <2>2, <2>3, RequestMoves
<1>3. CASE ResolveQueueRow(r)
  <2>1. /\ rpc[r] = "update" /\ UNCHANGED <<payLock, status, command>>
        /\ \A t \in Requests \ {r} : UNCHANGED rpc[t]
    BY <1>3 DEF ResolveQueueRow, ReviewTypeOK
  <2>2. \A p \in Payments : payLock[p] # r /\ queueLock[p] # r
    BY <2>1, NoneAssumption DEF LocksHeld, Transactions
  <2>3. \/ rpc'[r] = "conflict" /\ UNCHANGED queueLock
        \/ /\ rpc'[r] = "payment" /\ queueLock[command[r].payment] = None
           /\ queueLock' = [queueLock EXCEPT ![command[r].payment] = r]
    BY <1>3 DEF ResolveQueueRow, ReviewTypeOK
  <2>4. LocksOf(r, payLock, payLock')
    BY <2>1, <2>2 DEF LocksOf
  <2>5. LocksOf(r, queueLock, queueLock')
    BY <2>1, <2>2, <2>3 DEF LocksOf, TablesTypeOK
  <2>6. \A p \in Payments : queueLock'[p] = r => rpc'[r] = "payment"
    BY <2>2, <2>3 DEF TablesTypeOK
  <2>7. rpc'[r] # "finish"
    BY <2>3
  <2> HIDE DEF IInv, TypeOK
  <2> QED BY <2>1, <2>2, <2>4, <2>5, <2>6, <2>7, RequestMoves
<1>4. CASE UpdateReviewedPayment(r) /\ ~\E a \in Responses : Answer(r, a)
  <2>1. /\ rpc[r] = "payment" /\ rpc'[r] = "finish" /\ UNCHANGED <<queueLock, status, command>>
        /\ payLock[command[r].payment] = None
        /\ payLock' = [payLock EXCEPT ![command[r].payment] = r]
        /\ \A t \in Requests \ {r} : UNCHANGED rpc[t]
    BY <1>4 DEF UpdateReviewedPayment, ReviewTypeOK, Responses
  <2>2. command[r].payment \in Payments
    BY <2>1 DEF HoldsRow, ResolveCommand
  <2>3. /\ payLock'[command[r].payment] = r
        /\ \A p \in Payments : p # command[r].payment => payLock'[p] = payLock[p]
    BY <2>1, <2>2 DEF TablesTypeOK
  <2>4. \A p \in Payments : payLock[p] # r /\ (queueLock[p] = r => command[r].payment = p)
    BY <2>1, NoneAssumption DEF LocksHeld, Transactions
  <2>5. LocksOf(r, payLock, payLock') /\ LocksOf(r, queueLock, queueLock')
    BY <2>1, <2>2, <2>3, <2>4 DEF LocksOf
  <2> HIDE DEF IInv, TypeOK
  <2> QED BY <2>1, <2>3, <2>4, <2>5, RequestMoves
<1> QED BY <1>1, <1>2, <1>3, <1>4
        DEF CurrentConflict, FinishResolve, ResolveFails, Responses

LEMMA LocksStep == IInv /\ [Next]_vars /\ LocksHeld => LocksHeld'
<1> SUFFICES ASSUME IInv, [Next]_vars, LocksHeld PROVE LocksHeld'
    OBVIOUS
<1>1. CASE UNCHANGED <<locks, status, pc, value, seen, reviews>>
    BY <1>1 DEF LocksHeld, locks, reviews
<1>2. ASSUME NEW p \in Partitions, NEW r \in Records, Produce(p, r), UNCHANGED reviews PROVE LocksHeld'
    BY <1>1, <1>2 DEF Produce, rows, record
<1>3. ASSUME NEW m \in Members, Revoke(m) \/ \E p \in Partitions : Assign(m, p), UNCHANGED reviews
      PROVE  LocksHeld'
    BY <1>1, <1>3 DEF Revoke, Assign, rows, record
<1> QED BY <1>1, <1>2, <1>3, MemberLocks, RequestLocks DEF Next, vars, rows, consumer, record

LEMMA LocksInvariance == Spec => []LocksHeld
<1>1. Init => LocksHeld
    BY NoneAssumption DEF Init, TablesInit, ConsumerInit, ReviewInit, LocksHeld, Locked, Transactions
<1> QED BY <1>1, LocksStep, Invariance, PTL DEF Spec

(* A member waits for a queue row only with the payment in PENDING_RISK,    *)
(* when there is no row to hold; all others wait for a payment, whose       *)
(* holder waits for nothing, or for a queue row, whose holder waits for     *)
(* nothing but a payment.  So the third of a chain never waits, and no      *)
(* cycle of transactions, of any length, exists.                            *)
WaitsEnd ==
    \A t, u, v, w \in Transactions : ~(WaitsFor(t, u) /\ WaitsFor(u, v) /\ WaitsFor(v, w))

LEMMA WaitChains == IInv /\ LocksHeld => WaitsEnd
<1> SUFFICES ASSUME IInv, LocksHeld,
                    NEW t \in Transactions, NEW u \in Transactions,
                    NEW v \in Transactions, NEW w \in Transactions,
                    WaitsFor(t, u), WaitsFor(u, v), WaitsFor(v, w)
             PROVE  FALSE
    BY DEF WaitsEnd
<1> USE DEF IInv, TypeOK
<1>1. ASSUME NEW x \in Transactions, NEW y \in Transactions, WaitsFor(x, y),
             x \in Members, pc[x] = "write"
      PROVE  FALSE
  <2>1. value[x].payment \in Payments /\ queueLock[value[x].payment] = y
      BY <1>1, ProcessAssumption DEF WaitsFor, HoldsRecord
  <2>2. queue[value[x].payment] # None
      BY <2>1, <1>1, NoneAssumption DEF LocksHeld, TablesTypeOK, HoldsRow
  <2>3. status[value[x].payment] = "PENDING_RISK"
      BY <1>1 DEF LocksHeld, Locked
  <2> QED BY <2>1, <2>2, <2>3, QueuedNotPending
<1>2. ASSUME NEW x \in Transactions, NEW y \in Transactions, WaitsFor(x, y)
      PROVE  \/ x \in Members /\ pc[x] = "lock" /\ \E p \in Payments : payLock[p] = y
             \/ x \in Requests /\ rpc[x] = "update" /\ \E p \in Payments : queueLock[p] = y
             \/ x \in Requests /\ rpc[x] = "payment" /\ \E p \in Payments : payLock[p] = y
    BY <1>1, <1>2 DEF WaitsFor, HoldsRow, ResolveCommand
<1>3. ASSUME NEW x \in Transactions, NEW y \in Transactions, NEW p \in Payments, payLock[p] = x
      PROVE  ~WaitsFor(x, y)
  <2>1. ~(x \in Members /\ pc[x] = "lock") /\ ~(x \in Requests /\ rpc[x] \in {"update", "payment"})
      BY <1>3 DEF LocksHeld, Locked
  <2> QED BY <1>2, <2>1
<1>4. ASSUME NEW x \in Transactions, NEW p \in Payments, queueLock[p] = x
      PROVE  x \in Requests /\ rpc[x] # "update"
    BY <1>4, NoneAssumption DEF LocksHeld, TablesTypeOK
<1>5. \E p \in Payments : queueLock[p] = u
    BY <1>2, <1>3
<1>6. \E p \in Payments : payLock[p] = v
    BY <1>2, <1>4, <1>5, ProcessAssumption
<1> QED BY <1>3, <1>6

(* No chain of waiting transactions has more than two waits.                *)
THEOREM WaitingEnds == Spec => []WaitsEnd
BY WaitChains, Invariance, LocksInvariance, PTL

(* In particular, no two transactions wait for each other.                  *)
THEOREM DeadlockFree == Spec => []NoDeadlock
<1>1. WaitsEnd => NoDeadlock
    BY DEF WaitsEnd, NoDeadlock
<1> QED BY <1>1, WaitingEnds, PTL

----------------------------------------------------------------------------
(* What receipts say.                                                       *)

\* A member keeps its record and its conclusions until its own next statement.
LEMMA MemberSteps ==
    ASSUME IInv, [Next]_vars, NEW m \in Members
    PROVE  \/ UNCHANGED <<pc[m], value[m], seen[m], code[m]>>
           \/ pc'[m] \in {"down", "poll", "handle"}
           \/ /\ \/ Handle(m) \/ ApplyReceipt(m) \/ LockPayment(m) \/ LoadDecision(m) \/ CheckSource(m)
                 \/ WriteDecision(m) \/ WriteReplay(m) \/ RejectReceipt(m) \/ WriteReject(m)
              /\ UNCHANGED value[m]
<1> USE DEF IInv, TypeOK, kafka, record
<1> DEFINE Kept == UNCHANGED <<pc[m], value[m], seen[m], code[m]>>
           Away == pc'[m] \in {"down", "poll", "handle"}
<1>1. CASE UNCHANGED consumer
    BY <1>1 DEF consumer
<1>2. ASSUME NEW n \in Members, \/ Handle(n) \/ ApplyReceipt(n) \/ LockPayment(n) \/ LoadDecision(n)
                                \/ CheckSource(n)
      PROVE  (Kept \/ n = m) /\ UNCHANGED value[m]
    BY <1>2 DEF Handle, ApplyReceipt, LockPayment, LoadDecision, CheckSource, RetryLater, RejectWith, Goto,
                ConsumerTypeOK
<1>3. ASSUME NEW n \in Members, \/ WriteDecision(n) \/ WriteReplay(n) \/ RejectReceipt(n) \/ WriteReject(n)
      PROVE  (Kept \/ n = m) /\ UNCHANGED value[m]
    BY <1>3 DEF WriteDecision, WriteReplay, RejectReceipt, WriteReject, RetryLater, RejectWith, AfterCommit,
                Goto, ConsumerTypeOK
<1>4. ASSUME NEW n \in Members, \/ DatabaseError(n) \/ Revoke(n) \/ CommitOffset(n) \/ CommitOffsetFails(n)
                                \/ Crash(n) \/ Restart(n)
                                \/ \E p \in Partitions : Assign(n, p) \/ Poll(n, p)
      PROVE  Kept \/ Away
    BY <1>4 DEF DatabaseError, RetryLater, Revoke, CommitOffset, CommitOffsetFails, Crash, Restart, Assign, Poll,
                Forget, Goto, ConsumerTypeOK
<1>5. ASSUME NEW p \in Partitions, NEW r \in Records, Produce(p, r)
      PROVE  Kept
    BY <1>5 DEF Produce
<1> QED BY <1>1, <1>2, <1>3, <1>4, <1>5 DEF Next, vars

\* An accepted event shares its id, source and payment with no stored decision.
LEMMA AcceptedEvent ==
    ASSUME IInv, NEW m \in Members, Accepts(m)
    PROVE  /\ value[m] \in Events /\ value[m].payment \in Payments
           /\ decisions' = decisions \cup {value[m]}
           /\ \A d \in decisions : /\ d.payment # value[m].payment
                                   /\ d.id # value[m].id /\ d.source # value[m].source
<1>1. value[m] \in Events /\ value[m].payment \in Payments
    BY DEF Accepts, IInv, HoldsRecord, InApply
<1>2. \A d \in decisions : d.payment # value[m].payment
    BY <1>1, DecidedNotPending DEF Accepts, IInv, TypeOK, TablesTypeOK
<1> QED BY <1>1, <1>2 DEF Accepts, InsertDecision, UniqueViolation

LEMMA DecisionsGrow ==
    ASSUME IInv, [Next]_vars
    PROVE  UNCHANGED decisions \/ \E m \in Members : Accepts(m)
BY RowSteps DEF Replays, Rejects, ResolveRows, rows

(* What a receipt says stays true: the decisions that come later share no   *)
(* key with those that it is about.                                         *)
LEMMA JustifiedKept ==
    ASSUME IInv, [Next]_vars, NEW e, NEW c \in Dispositions, ReceiptJustified(e, c)
    PROVE  ReceiptJustified(e, c)'
<1>1. CASE UNCHANGED decisions
    BY <1>1 DEF ReceiptJustified
<1>2. ASSUME NEW m \in Members, Accepts(m) PROVE ReceiptJustified(e, c)'
  <2> DEFINE x == value[m]
  <2>1. /\ decisions' = decisions \cup {x} /\ x.payment \in Payments /\ x \in Events
        /\ \A d \in decisions : d.payment # x.payment /\ d.id # x.id /\ d.source # x.source
    BY <1>2, AcceptedEvent
  <2> HIDE DEF x
  <2>2. CASE c \in Accepted
    BY <2>1, <2>2 DEF ReceiptJustified, Accepted
  <2>3. CASE c \in {"invalid_event", "payment_not_found"}
    BY <2>3 DEF ReceiptJustified, Accepted
  <2>4. CASE c = "decision_conflict"
    BY <2>1, <2>4 DEF ReceiptJustified, Accepted
  <2>5. CASE c = "payment_state_conflict"
    <3>1. e \notin decisions /\ \E d \in decisions : d.payment = e.payment
      BY <2>5 DEF ReceiptJustified, Accepted
    <3>2. e \notin decisions' /\ \E d \in decisions' : d.payment = e.payment
      BY <2>1, <3>1
    <3> QED BY <2>5, <3>2 DEF ReceiptJustified, Accepted
  <2> QED BY <2>2, <2>3, <2>4, <2>5 DEF Dispositions, RejectionCodes
<1> QED BY <1>1, <1>2, DecisionsGrow

\* A payment that is not PENDING_RISK has a decision.
LEMMA NotPendingDecided ==
    ASSUME IInv, NEW p \in Payments, status[p] # "PENDING_RISK"
    PROVE  \E d \in decisions : d.payment = p
BY DEF IInv, RowsAgree

LEMMA KnowledgeStep ==
    ASSUME IInv, [Next]_vars, LocksHeld, KnowledgeHolds
    PROVE  KnowledgeHolds'
<1> SUFFICES ASSUME NEW m \in Members
             PROVE  /\ pc'[m] \in {"source", "write"} => value'[m] \notin decisions'
                    /\ pc'[m] = "replay" => value'[m] \in decisions'
                    /\ pc'[m] \in InReject => ReceiptJustified(value[m], code[m])'
    BY DEF KnowledgeHolds
<1> USE DEF InReject
<1>1. CASE UNCHANGED <<pc[m], value[m], seen[m], code[m]>>
  <2>1. pc[m] \in InReject => code[m] \in Dispositions
    BY DEF IInv, HoldsRecord, Dispositions
  <2>2. pc[m] \in InReject => ReceiptJustified(value[m], code[m])
    BY DEF KnowledgeHolds
  <2>3. \A e : \A c \in Dispositions : ReceiptJustified(e, c) => ReceiptJustified(e, c)'
    BY JustifiedKept
  <2>4. ASSUME pc[m] \in {"source", "write"} PROVE value[m] \notin decisions'
    <3>1. value[m] \notin decisions
      BY <2>4 DEF KnowledgeHolds
    <3>2. ASSUME NEW n \in Members, Accepts(n) PROVE value[m] # value[n]
      <4>1. n # m
        BY <3>2, <2>4, <1>1 DEF Accepts, AfterCommit, Goto, IInv, TypeOK, ConsumerTypeOK
      <4>2. payLock[value[n].payment] = n /\ payLock[value[m].payment] = m
        BY <2>4, <3>2 DEF Accepts, LocksHeld, Locked
      <4> QED BY <4>1, <4>2
    <3> QED BY <3>1, <3>2, DecisionsGrow, AcceptedEvent
  <2>5. pc[m] = "replay" => value[m] \in decisions'
    BY DecisionsGrow, AcceptedEvent DEF KnowledgeHolds
  <2>6. pc[m] \in InReject => ReceiptJustified(value[m], code[m])'
    <3> SUFFICES ASSUME pc[m] \in InReject PROVE ReceiptJustified(value[m], code[m])'
      OBVIOUS
    <3>1. PICK e : e = value[m]
      OBVIOUS
    <3>2. PICK c : c = code[m]
      OBVIOUS
    <3>3. c \in Dispositions /\ ReceiptJustified(e, c)
      BY <2>1, <2>2, <3>1, <3>2
    <3>4. ReceiptJustified(e, c)'
      BY <2>3, <3>3
    <3>5. value'[m] = e /\ code'[m] = c
      BY <1>1, <3>1, <3>2
    <3> QED BY <3>4, <3>5 DEF ReceiptJustified
  <2> QED BY <1>1, <2>4, <2>5, <2>6
<1>2. CASE pc'[m] \in {"down", "poll", "handle", "commit", "receipt", "lock", "load"}
    BY <1>2
<1>3. CASE Handle(m) \/ ApplyReceipt(m) \/ LockPayment(m)
  <2>1. UNCHANGED value[m]
    BY <1>3 DEF Handle, ApplyReceipt, LockPayment, RetryLater, RejectWith, record
  <2>2. \/ pc'[m] \in {"handle", "commit", "receipt", "lock", "load"}
        \/ /\ pc'[m] = "rejecting" /\ code'[m] = "invalid_event" /\ value[m] \notin Events
        \/ /\ pc'[m] = "rejecting" /\ code'[m] = "payment_not_found" /\ value[m].payment \notin Payments
    BY <1>3 DEF Handle, ApplyReceipt, LockPayment, RetryLater, RejectWith, Goto, IInv, TypeOK, ConsumerTypeOK
  <2> QED BY <1>2, <2>1, <2>2 DEF ReceiptJustified, Accepted
<1>4. CASE LoadDecision(m) \/ CheckSource(m) \/ (WriteDecision(m) /\ ~AfterCommit(m))
  <2>1. UNCHANGED <<value, decisions>> /\ value[m] \in Events
    BY <1>4 DEF LoadDecision, CheckSource, WriteDecision, RetryLater, RejectWith, record, rows, IInv, HoldsRecord,
                InApply
  <2>2. CASE LoadDecision(m)
    <3>1. \/ pc'[m] = "replay" /\ value[m] \in decisions
          \/ pc'[m] = "source" /\ value[m] \notin decisions
          \/ /\ pc'[m] = "rejecting" /\ code'[m] = "decision_conflict" /\ value[m] \notin decisions
             /\ \E d \in decisions : d.id = value[m].id
      BY <2>2 DEF LoadDecision, RejectWith, Goto, IInv, TypeOK, ConsumerTypeOK
    <3> QED BY <2>1, <3>1 DEF ReceiptJustified, Accepted
  <2>3. CASE CheckSource(m)
    <3>1. value[m] \notin decisions
      BY <2>3 DEF CheckSource, KnowledgeHolds
    <3>2. \/ pc'[m] = "write"
          \/ /\ pc'[m] = "rejecting" /\ code'[m] = "decision_conflict"
             /\ \E d \in decisions : d.source = value[m].source
          \/ /\ pc'[m] = "rejecting" /\ code'[m] = "payment_state_conflict"
             /\ seen[m] # "PENDING_RISK"
      BY <2>3 DEF CheckSource, RejectWith, Goto, IInv, TypeOK, ConsumerTypeOK
    <3>3. seen[m] # "PENDING_RISK" => \E d \in decisions : d.payment = value[m].payment
      <4>1. seen[m] = status[value[m].payment] /\ value[m].payment \in Payments
        BY <2>3 DEF CheckSource, LocksHeld, Locked, IInv, HoldsRecord
      <4> QED BY <4>1, NotPendingDecided
    <3> QED BY <2>1, <3>1, <3>2, <3>3 DEF ReceiptJustified, Accepted
  <2>4. CASE WriteDecision(m) /\ ~AfterCommit(m)
    <3>1. value[m] \notin decisions /\ value[m].payment \in Payments
      BY <2>4 DEF WriteDecision, KnowledgeHolds, IInv, HoldsRecord
    <3>2. \/ pc'[m] = "handle"
          \/ /\ pc'[m] = "rejecting" /\ code'[m] = "payment_state_conflict"
             /\ status[value[m].payment] # "PENDING_RISK"
      BY <2>4 DEF WriteDecision, RetryLater, RejectWith, Goto, IInv, TypeOK, ConsumerTypeOK
    <3> QED BY <1>2, <2>1, <3>1, <3>2, NotPendingDecided DEF ReceiptJustified, Accepted
  <2> QED BY <1>4, <2>2, <2>3, <2>4
<1>5. CASE (WriteDecision(m) /\ AfterCommit(m)) \/ WriteReplay(m) \/ WriteReject(m)
    BY <1>2, <1>5 DEF WriteReplay, WriteReject, AfterCommit, RetryLater, Goto, IInv, TypeOK, ConsumerTypeOK
<1>6. CASE RejectReceipt(m)
  <2>1. \/ pc'[m] \in {"handle", "commit"}
        \/ pc'[m] = "rejected" /\ UNCHANGED <<value, code, decisions>>
    BY <1>6 DEF RejectReceipt, RetryLater, Goto, record, rows, IInv, TypeOK, ConsumerTypeOK
  <2>2. ReceiptJustified(value[m], code[m])
    BY <1>6 DEF RejectReceipt, KnowledgeHolds
  <2> QED BY <1>2, <2>1, <2>2 DEF ReceiptJustified
<1> QED BY <1>1, <1>2, <1>3, <1>4, <1>5, <1>6, MemberSteps

\* A receipt is added by a member for its own record.
LEMMA NewReceipt ==
    ASSUME IInv, [Next]_vars, NEW p \in Partitions, NEW o \in Offsets,
           receipts[p][o] = None, receipts'[p][o] # None
    PROVE  \E m \in Members :
              /\ pc[m] \in Working /\ part[m] = p /\ offset[m] = o
              /\ UNCHANGED <<kafka, record>>
              /\ \/ Accepts(m) /\ receipts'[p][o] = "APPLIED"
                 \/ Replays(m) /\ receipts'[p][o] = "REPLAYED"
                 \/ Rejects(m) /\ receipts'[p][o] = code[m]
<1>1. ASSUME UNCHANGED rows \/ \E r \in Requests : ResolveRows(r) PROVE FALSE
    BY <1>1 DEF ResolveRows, rows
<1>2. PICK m \in Members : (Accepts(m) \/ Replays(m) \/ Rejects(m)) /\ UNCHANGED <<kafka, record>>
    BY <1>1, RowSteps
<1>3. pc[m] \in Working
    BY <1>2 DEF Accepts, Replays, Rejects, Working, PCs, InApply, InReject
<1>4. ASSUME NEW c, StoreReceipt(m, c) PROVE part[m] = p /\ offset[m] = o /\ receipts'[p][o] = c
    BY <1>3, <1>4 DEF StoreReceipt, IInv, TypeOK, TablesTypeOK, HoldsRecord, Working
<1> QED BY <1>2, <1>3, <1>4 DEF Accepts, Replays, Rejects

\* Records stay where they were appended.
LEMMA LogKept ==
    ASSUME IInv, [Next]_vars, NEW p \in Partitions
    PROVE  /\ Len(log[p]) \in Nat /\ Len(log'[p]) \in Nat /\ Len(log[p]) <= Len(log'[p])
           /\ 1..Len(log'[p]) \subseteq Offsets
           /\ \A o \in 1..Len(log[p]) : log'[p][o] = log[p][o]
<1>1. UNCHANGED log \/ \E q \in Partitions, r \in Records : Produce(q, r)
    BY ConsumerSteps DEF consumer, kafka, Assign, Poll, Revoke, CommitOffset, CommitOffsetFails, Crash,
                         Restart
<1>2. Len(log'[p]) \in Nat /\ Len(log'[p]) <= MaxRecords
    BY NextIInv DEF IInv, TypeOK, ConsumerTypeOK
<1> QED BY <1>1, <1>2, LogGrows, BoundAssumption DEF Offsets, IInv, TypeOK, ConsumerTypeOK

LEMMA ReceiptsTrueStep ==
    ASSUME IInv, [Next]_vars, RecordOfLog, KnowledgeHolds, ReceiptsTrue
    PROVE  ReceiptsTrue'
<1> SUFFICES ASSUME NEW p \in Partitions, NEW o \in Offsets, receipts'[p][o] # None
             PROVE  o <= Len(log'[p]) /\ ReceiptJustified(log[p][o], receipts[p][o])'
    BY BoundAssumption DEF ReceiptsTrue, Offsets
<1>1. PICK e : e = log[p][o]
    OBVIOUS
<1>2. PICK c : c = receipts'[p][o]
    OBVIOUS
<1>3. \A x : \A d \in Dispositions : ReceiptJustified(x, d) => ReceiptJustified(x, d)'
    BY JustifiedKept
<1>4. ASSUME o <= Len(log[p]), ReceiptJustified(e, c)'
      PROVE  o <= Len(log'[p]) /\ ReceiptJustified(log[p][o], receipts[p][o])'
  <2>1. o \in 1..Len(log[p]) /\ o <= Len(log'[p])
    BY <1>4, LogKept, BoundAssumption DEF Offsets
  <2>2. log'[p][o] = e
    BY <1>1, <2>1, LogKept
  <2> QED BY <1>2, <1>4, <2>1, <2>2 DEF ReceiptJustified
<1>5. CASE receipts[p][o] # None
  <2>1. c = receipts[p][o] /\ c \in Dispositions
    BY <1>2, <1>5, ReceiptsKept DEF IInv, TypeOK, TablesTypeOK
  <2>2. o <= Len(log[p]) /\ ReceiptJustified(e, c)
    BY <1>1, <1>5, <2>1 DEF ReceiptsTrue
  <2> QED BY <1>3, <1>4, <2>1, <2>2
<1>6. CASE receipts[p][o] = None
  <2>1. PICK m \in Members :
              /\ pc[m] \in Working /\ part[m] = p /\ offset[m] = o
              /\ UNCHANGED <<kafka, record>>
              /\ \/ Accepts(m) /\ c = "APPLIED"
                 \/ Replays(m) /\ c = "REPLAYED"
                 \/ Rejects(m) /\ c = code[m]
    BY <1>2, <1>6, NewReceipt
  <2>2. value[m] = e /\ o <= Len(log[p])
    BY <1>1, <2>1 DEF RecordOfLog
  <2>3. CASE Accepts(m) /\ c = "APPLIED"
    <3>1. e \in decisions'
      BY <2>2, <2>3, AcceptedEvent
    <3> QED BY <1>4, <2>2, <2>3, <3>1 DEF ReceiptJustified, Accepted
  <2>4. CASE Replays(m) /\ c = "REPLAYED"
    <3>1. e \in decisions'
      BY <2>2, <2>4 DEF Replays, KnowledgeHolds
    <3> QED BY <1>4, <2>2, <2>4, <3>1 DEF ReceiptJustified, Accepted
  <2>5. CASE Rejects(m) /\ c = code[m]
    <3>1. c \in Dispositions /\ ReceiptJustified(e, c)
      BY <2>2, <2>5 DEF Rejects, KnowledgeHolds, InReject, IInv, HoldsRecord, Dispositions
    <3> QED BY <1>3, <1>4, <2>2, <3>1
  <2> QED BY <2>1, <2>3, <2>4, <2>5
<1> QED BY <1>5, <1>6

(* The record at offset o of partition p is event d and applied it.         *)
AppliedAt(d, p, o) == log[p][o] = d /\ receipts[p][o] = "APPLIED"

LEMMA AppliedOnceStep ==
    ASSUME IInv, [Next]_vars, RecordOfLog, KnowledgeHolds, ReceiptsTrue, AppliedOnce
    PROVE  AppliedOnce'
<1> SUFFICES ASSUME NEW d \in decisions'
             PROVE  \E p \in Partitions : \E o \in 1..Len(log'[p]) :
                        /\ AppliedAt(d, p, o)'
                        /\ \A p2 \in Partitions : \A o2 \in 1..Len(log'[p2]) :
                              AppliedAt(d, p2, o2)' => p2 = p /\ o2 = o
    BY DEF AppliedOnce, AppliedAt
<1> USE NoneAssumption DEF Dispositions, Accepted, RejectionCodes
\* No event was applied that is not stored.
<1>1. ASSUME NEW p \in Partitions, NEW o \in 1..Len(log'[p]), receipts[p][o] \in Accepted
      PROVE  /\ o \in 1..Len(log[p]) /\ log'[p][o] = log[p][o]
             /\ log[p][o] \in decisions
  <2>1. o \in Offsets
    BY LogKept
  <2>2. o <= Len(log[p]) /\ ReceiptJustified(log[p][o], receipts[p][o])
    BY <1>1, <2>1 DEF ReceiptsTrue
  <2>3. o \in 1..Len(log[p])
    BY <2>2, LogKept
  <2> QED BY <1>1, <2>2, <2>3, LogKept DEF ReceiptJustified
<1>2. ASSUME NEW m \in Members, Accepts(m), UNCHANGED <<kafka, record>>
      PROVE  /\ part[m] \in Partitions /\ offset[m] \in 1..Len(log'[part[m]])
             /\ log'[part[m]][offset[m]] = value[m]
             /\ receipts' = [receipts EXCEPT ![part[m]][offset[m]] = "APPLIED"]
  <2>1. /\ part[m] \in Partitions /\ offset[m] \in Offsets /\ pc[m] \in Working
        /\ Receipt(m) \in Dispositions \cup {None}
    BY <1>2 DEF Accepts, Receipt, IInv, HoldsRecord, Working, PCs, InApply, TypeOK, TablesTypeOK
  <2>2. offset[m] \in 1..Len(log[part[m]]) /\ value[m] = log[part[m]][offset[m]] /\ UNCHANGED log
    BY <1>2, <2>1, LogKept, BoundAssumption DEF RecordOfLog, Offsets, kafka
  <2>3. Receipt(m) \notin Accepted
    <3>1. value[m] \notin decisions
      BY <1>2, AcceptedEvent
    <3> QED BY <1>1, <2>1, <2>2, <3>1 DEF Receipt
  <2>4. Receipt(m) = None /\ StoreReceipt(m, "APPLIED")
    BY <1>2, <2>1, <2>3 DEF Accepts
  <2> QED BY <2>1, <2>2, <2>4 DEF StoreReceipt
<1>3. CASE d \notin decisions
  <2>1. PICK m \in Members : Accepts(m)
    BY <1>3, DecisionsGrow
  <2>2. d = value[m] /\ UNCHANGED <<kafka, record>>
    BY <1>3, <2>1, AcceptedEvent DEF Accepts, AfterCommit
  <2>3. PICK p \in Partitions : p = part[m]
    BY <1>2, <2>1, <2>2
  <2>4. PICK o \in 1..Len(log'[p]) : o = offset[m]
    BY <1>2, <2>1, <2>2, <2>3
  <2>5. log'[p][o] = d /\ receipts' = [receipts EXCEPT ![p][o] = "APPLIED"]
    BY <1>2, <2>1, <2>2, <2>3, <2>4
  <2>6. \A q \in Partitions : 1..Len(log'[q]) \subseteq Offsets
    BY LogKept
  <2>7. AppliedAt(d, p, o)'
    BY <2>5, <2>6 DEF AppliedAt, IInv, TypeOK, TablesTypeOK
  <2>8. ASSUME NEW p2 \in Partitions, NEW o2 \in 1..Len(log'[p2]), AppliedAt(d, p2, o2)'
        PROVE  p2 = p /\ o2 = o
    <3>1. receipts[p2][o2] # "APPLIED"
      BY <1>1, <1>3, <2>8 DEF AppliedAt
    <3> QED BY <2>5, <2>6, <2>8, <3>1 DEF AppliedAt, IInv, TypeOK, TablesTypeOK
  <2> QED BY <2>7, <2>8
<1>4. CASE d \in decisions
  <2> DEFINE Only(p, o) ==
                /\ AppliedAt(d, p, o)
                /\ \A p2 \in Partitions : \A o2 \in 1..Len(log[p2]) :
                      AppliedAt(d, p2, o2) => p2 = p /\ o2 = o
  <2>0. PICK p \in Partitions : \E o \in 1..Len(log[p]) : Only(p, o)
    BY <1>4 DEF AppliedOnce, AppliedAt
  <2>1. PICK o \in 1..Len(log[p]) : Only(p, o)
    BY <2>0
  <2>2. o \in 1..Len(log'[p]) /\ AppliedAt(d, p, o)'
    <3>1. o \in 1..Len(log'[p]) /\ o \in Offsets /\ log'[p][o] = log[p][o]
      BY LogKept, BoundAssumption DEF Offsets
    <3> QED BY <2>1, <3>1, ReceiptsKept DEF AppliedAt
  <2>3. ASSUME NEW p2 \in Partitions, NEW o2 \in 1..Len(log'[p2]), AppliedAt(d, p2, o2)'
        PROVE  p2 = p /\ o2 = o
    <3>1. o2 \in Offsets
      BY LogKept
    <3>2. ASSUME receipts[p2][o2] = None PROVE FALSE
      <4>1. PICK m \in Members :
                  /\ pc[m] \in Working /\ part[m] = p2 /\ offset[m] = o2
                  /\ UNCHANGED <<kafka, record>>
                  /\ \/ Accepts(m)
                     \/ Rejects(m) /\ code[m] = "APPLIED"
        BY <2>3, <3>1, <3>2, NewReceipt DEF AppliedAt
      <4>2. ~Rejects(m) \/ code[m] # "APPLIED"
        BY DEF Rejects, IInv, HoldsRecord, InReject
      <4>3. value[m] = d
        BY <2>3, <4>1 DEF RecordOfLog, AppliedAt, kafka
      <4> QED BY <1>4, <4>1, <4>2, <4>3, AcceptedEvent
    <3>3. receipts[p2][o2] = "APPLIED"
      BY <2>3, <3>1, <3>2, ReceiptsKept DEF AppliedAt
    <3> QED BY <1>1, <2>1, <2>3, <3>3 DEF AppliedAt
  <2> QED BY <2>2, <2>3
<1> QED BY <1>3, <1>4

LEMMA ReceiptsInvariance == Spec => [](RecordOfLog /\ KnowledgeHolds /\ ReceiptsTrue /\ AppliedOnce)
<1> DEFINE Receipts == RecordOfLog /\ KnowledgeHolds /\ ReceiptsTrue /\ AppliedOnce
<1>1. Init => Receipts
    BY DEF Init, TablesInit, ConsumerInit, RecordOfLog, Working, PCs, InApply, InReject, KnowledgeHolds,
           ReceiptsTrue, AppliedOnce
<1>2. IInv /\ LocksHeld /\ [Next]_vars /\ Receipts => Receipts'
    BY RecordStep, KnowledgeStep, ReceiptsTrueStep, AppliedOnceStep
<1> QED BY <1>1, <1>2, Invariance, LocksInvariance, PTL DEF Spec

(* What every receipt says is true, and stays true: the event of an         *)
(* accepted record is stored, that of a rejected one is not, because the    *)
(* decision its code speaks of is (Apply, Reject, applicationRejectionCode).*)
THEOREM ReceiptsJustified == Spec => []ReceiptsTrue
BY ReceiptsInvariance, PTL

(* However often an event is delivered, to however many members, exactly    *)
(* one of its records has an APPLIED receipt once the event is stored.      *)
THEOREM AppliedExactlyOnce == Spec => []AppliedOnce
BY ReceiptsInvariance, PTL
=============================================================================
