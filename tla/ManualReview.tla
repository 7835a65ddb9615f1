---------------------------- MODULE ManualReview ----------------------------
(***************************************************************************)
(* The manual review API: authenticated reviewers approve or reject queued *)
(* payments with an optimistic version check.  Every request is one run of *)
(* PostgresRepository.Resolve, a READ COMMITTED transaction that locks the *)
(* queue row first and the payment row second.                             *)
(*                                                                         *)
(* A request's program counter names its next statement: "idle" (not yet   *)
(* received), "update" (UPDATE manual_review_queue), "conflict"            *)
(* (currentConflict's SELECT), "payment" (UPDATE payments), "finish"       *)
(* (INSERT audit and COMMIT), "done" (answered).                           *)
(***************************************************************************)
EXTENDS DecisionTables

\* Responses that answer a request.  "error" stands for the 500 and 504
\* answers and for a connection lost before any answer.
Responses == {"ok", "review_not_found", "review_version_conflict",
              "review_already_resolved", "review_state_conflict", "error"}

ASSUME AnswerAssumption == None \notin Responses

\* actionState: the review status, payment status and audit type of an action.
actionState ==
    [APPROVE |-> [review |-> "APPROVED", payment |-> "ALLOWED", type |-> "MANUAL_REVIEW_APPROVED"],
     REJECT  |-> [review |-> "REJECTED", payment |-> "BLOCKED", type |-> "MANUAL_REVIEW_REJECTED"]]

Actions == DOMAIN actionState

\* A command that passed Service.Resolve's validation.  Version 2 is one that
\* no pending row carries.
ResolveCommand == [payment : Payments, action : Actions, version : 1..2]

VARIABLES
    rpc,         \* per request, the statement it is about to execute
    command,     \* per request, its ResolveCommand
    found,       \* per request, the decision id its UPDATE returned
    response     \* per request, its answer

reviews == <<rpc, command, found, response>>

RequestPCs == {"idle", "update", "conflict", "payment", "finish", "done"}

ReviewTypeOK ==
    /\ rpc \in [Requests -> RequestPCs]
    /\ command \in [Requests -> ResolveCommand \cup {None}]
    /\ found \in [Requests -> DecisionIds \cup {None}]
    /\ response \in [Requests -> Responses \cup {None}]

ReviewInit ==
    /\ rpc = [r \in Requests |-> "idle"]
    /\ command = [r \in Requests |-> None]
    /\ found = [r \in Requests |-> None]
    /\ response = [r \in Requests |-> None]

\* Request r is answered; its transaction has ended.
Answer(r, a) ==
    /\ rpc' = [rpc EXCEPT ![r] = "done"]
    /\ response' = [response EXCEPT ![r] = a]
    /\ EndTransaction(r)
    /\ UNCHANGED <<command, found>>

\* resolveReviewHandler authenticates and decodes the request, Service.Resolve
\* validates it.
Receive(r, c) ==
    /\ rpc[r] = "idle"
    /\ rpc' = [rpc EXCEPT ![r] = "update"]
    /\ command' = [command EXCEPT ![r] = c]
    /\ UNCHANGED <<rows, locks, faults, found, response>>

\* The queue row a request's UPDATE applies to.
Matches(r) ==
    LET q == queue[command[r].payment]
    IN  q # None /\ q.status = "PENDING" /\ q.version = command[r].version

\* Mutant: the row is read and checked without locking it.
ResolveQueueRow_Unlocked(r) ==
    LET p == command[r].payment
    IN  /\ rpc[r] = "update"
        /\ IF Matches(r)
           THEN /\ found' = [found EXCEPT ![r] = queue[p].decision]
                /\ rpc' = [rpc EXCEPT ![r] = "payment"]
           ELSE /\ rpc' = [rpc EXCEPT ![r] = "conflict"]
                /\ UNCHANGED found
        /\ UNCHANGED <<locks, rows, faults, command, response>>

\* UPDATE manual_review_queue ... WHERE status = 'PENDING' AND version = $3
\* RETURNING decision_id: a matching row is locked, after waiting for its
\* holder; the WHERE clause is evaluated again on the row that is then current.
ResolveQueueRow(r) ==
    LET p == command[r].payment
    IN  /\ rpc[r] = "update"
        /\ \/ /\ Matches(r) /\ queueLock[p] = None
              /\ queueLock' = [queueLock EXCEPT ![p] = r]
              /\ found' = [found EXCEPT ![r] = queue[p].decision]
              /\ rpc' = [rpc EXCEPT ![r] = "payment"]
              /\ UNCHANGED payLock
           \/ /\ ~Matches(r)
              /\ rpc' = [rpc EXCEPT ![r] = "conflict"]
              /\ UNCHANGED <<locks, found>>
        /\ UNCHANGED <<rows, faults, command, response>>

\* currentConflict reads the row again, in a new snapshot.
CurrentConflict(r) ==
    LET q == queue[command[r].payment]
    IN  /\ rpc[r] = "conflict"
        /\ \/ q = None /\ Answer(r, "review_not_found")
           \/ q # None /\ q.status # "PENDING" /\ Answer(r, "review_already_resolved")
           \/ q # None /\ q.status = "PENDING" /\ Answer(r, "review_version_conflict")
        /\ UNCHANGED <<rows, faults>>

\* UPDATE payments ... WHERE status = 'REVIEW': waits for the row lock.
UpdateReviewedPayment(r) ==
    LET p == command[r].payment
    IN  /\ rpc[r] = "payment" /\ payLock[p] = None
        /\ \/ /\ status[p] = "REVIEW"
              /\ payLock' = [payLock EXCEPT ![p] = r]
              /\ rpc' = [rpc EXCEPT ![r] = "finish"]
              /\ UNCHANGED <<queueLock, command, found, response>>
           \/ /\ status[p] # "REVIEW"
              /\ Answer(r, "review_state_conflict")
        /\ UNCHANGED <<rows, faults>>

\* Mutant: the audit row names the system instead of the reviewer.
ResolveRows_AnonymousAudit(r) ==
    LET p == command[r].payment
        s == actionState[command[r].action]
    IN  /\ queue' = [queue EXCEPT ![p].status = s.review, ![p].version = @ + 1, ![p].reviewer = r]
        /\ status' = [status EXCEPT ![p] = s.payment]
        /\ audit' = audit \cup {[type |-> s.type, decision |-> found[r], actor |-> "SYSTEM"]}
        /\ UNCHANGED <<decisions, receipts>>

\* The rows a resolution changes.
ResolveRows(r) ==
    LET p == command[r].payment
        s == actionState[command[r].action]
    IN  /\ queue' = [queue EXCEPT ![p].status = s.review, ![p].version = @ + 1, ![p].reviewer = r]
        /\ status' = [status EXCEPT ![p] = s.payment]
        /\ audit' = audit \cup {[type |-> s.type, decision |-> found[r], actor |-> r]}
        /\ UNCHANGED <<decisions, receipts>>

\* INSERT the audit row and COMMIT.  The answer of the COMMIT may be lost.
\* UNIQUE (event_type, decision_id) refuses a second audit row of the type.
FinishResolve(r) ==
    LET type == actionState[command[r].action].type
        duplicate == \E a \in audit : a.type = type /\ a.decision = found[r]
    IN  /\ rpc[r] = "finish"
        /\ \/ /\ duplicate
              /\ Answer(r, "error") /\ UNCHANGED <<rows, faults>>
           \/ /\ ~duplicate
              /\ ResolveRows(r)
              /\ \/ Answer(r, "ok") /\ UNCHANGED faults
                 \/ Answer(r, "error") /\ Fault

\* Mutant: the error of the COMMIT is ignored.
ResolveFails_Ignored(r) ==
    /\ rpc[r] \in {"update", "conflict", "payment", "finish"}
    /\ Fault /\ Answer(r, IF rpc[r] = "finish" THEN "ok" ELSE "error")
    /\ UNCHANGED rows

\* A statement fails, the request's deadline expires or the API process dies:
\* the transaction is rolled back.
ResolveFails(r) ==
    /\ rpc[r] \in {"update", "conflict", "payment", "finish"}
    /\ Fault /\ Answer(r, "error")
    /\ UNCHANGED rows

\* The steps of a request that has been received.
RequestStep(r) ==
    ResolveQueueRow(r) \/ CurrentConflict(r) \/ UpdateReviewedPayment(r) \/ FinishResolve(r)

\* A request that was received runs to its answer.
ReviewFairness == \A r \in Requests : WF_<<rows, locks, faults, reviews>>(RequestStep(r))
=============================================================================
