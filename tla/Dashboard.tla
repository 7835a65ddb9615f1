----------------------------- MODULE Dashboard ------------------------------
(***************************************************************************)
(* GET /v1/dashboard while the consumer and the reviewers keep writing:    *)
(* the six statements of the repository's REPEATABLE READ transaction,     *)
(* then the reconciler's Count in a statement of its own.  One request is  *)
(* followed; requests do not affect each other.  The outbox rows belong to *)
(* module OutboxDelivery: their counts are left out, and the payments that *)
(* are published and older than the grace period are any set.              *)
(***************************************************************************)
EXTENDS DecisionControls

CONSTANTS
    Order,        \* the events, by decision_at DESC, decision_id DESC
    Limits        \* values of the query parameter recent_limit

ASSUME OrderAssumption ==
    /\ Order \in Seq(Events)
    /\ \A e \in Events : \E i \in DOMAIN Order : Order[i] = e
    /\ \A i, j \in DOMAIN Order : Order[i] = Order[j] => i = j
ASSUME FiniteAssumption == IsFiniteSet(Payments) /\ IsFiniteSet(Partitions)

VARIABLES
    step,     \* the number of the next statement, 0 before the request
    limit,    \* its recent_limit
    snap,     \* the snapshot of the read transaction
    doc,      \* the sections of the answer read so far
    answer    \* None, "ok", "validation_error", or "error" (500 or 504)

reader == <<step, limit, snap, doc, answer>>
dashboardVars == <<vars, reader>>

\* Mutant: the service asks the reconciler first.
Statements_CountFirst ==
    <<"reconciliation", "payments", "decisions", "latest", "manual_review", "processing", "recent">>

\* Service.Load: repository.Load, statement by statement, then Count.
Statements ==
    <<"payments", "decisions", "latest", "manual_review", "processing", "recent", "reconciliation">>

\* What the statements read.
Tables == [status |-> status, decisions |-> decisions, receipts |-> receipts,
           queue |-> queue]

----------------------------------------------------------------------------
(* The SQL statements, on tables t.                                         *)

WithStatus(t, s) == Cardinality({p \in Payments : t.status[p] = s})
paymentSummarySQL(t) ==
    [total |-> Cardinality(Payments), pending_risk |-> WithStatus(t, "PENDING_RISK"),
     allowed |-> WithStatus(t, "ALLOWED"), review |-> WithStatus(t, "REVIEW"),
     blocked |-> WithStatus(t, "BLOCKED"), failed |-> WithStatus(t, "FAILED")]

WithVerdict(t, v) == Cardinality({d \in t.decisions : d.verdict = v})
decisionSummarySQL(t) ==
    [total |-> Cardinality(t.decisions), allow |-> WithVerdict(t, "ALLOW"),
     review |-> WithVerdict(t, "REVIEW"), block |-> WithVerdict(t, "BLOCK")]

\* ORDER BY: the n-th row is the one with n rows up to and including itself.
Rank(e) == CHOOSE i \in DOMAIN Order : Order[i] = e
UpTo(e, rowset) == {d \in rowset : Rank(d) <= Rank(e)}
NewestFirst(rowset) ==
    [n \in 1..Cardinality(rowset) |-> CHOOSE e \in rowset : Cardinality(UpTo(e, rowset)) = n]
FirstRows(seq, n) == SubSeq(seq, 1, IF n < Len(seq) THEN n ELSE Len(seq))
latestVersionSQL(t) == FirstRows(NewestFirst(t.decisions), 1)

manualReviewSummarySQL(t) ==
    Cardinality({p \in Payments : t.queue[p] # None /\ t.queue[p].status = "PENDING"})

\* decision_events_rejected, the part of the statement about these tables.
processingSummarySQL(t) ==
    Cardinality({po \in Partitions \X Offsets : t.receipts[po[1]][po[2]] \in RejectionCodes})
recentDecisionsSQL(t, n) ==
    LET rowset == FirstRows(NewestFirst({d \in t.decisions : d.payment \in Payments}), n)
    IN  [i \in DOMAIN rowset |-> [decision |-> rowset[i], status |-> t.status[rowset[i].payment]]]

(* The classes of the reconciliation query that DecisionTables leaves out;  *)
(* old are the payments published and created before the grace period.      *)
MissingDecision(old) ==
    {p \in old : status[p] = "PENDING_RISK" /\ DecisionsOf(p) = {}}
DuplicateDelivery ==
    {d \in decisions :
        Cardinality({po \in Partitions \X Offsets :
            /\ receipts[po[1]][po[2]] \in Accepted
            /\ log[po[1]][po[2]].id = d.id}) > 1}

Count(old) ==
    [MISSING_DECISION        |-> Cardinality(MissingDecision(old)),
     DUPLICATE_DECISION      |-> Cardinality(DuplicateDecision),
     DUPLICATE_DELIVERY      |-> Cardinality(DuplicateDelivery),
     PAYMENT_STATUS_MISMATCH |-> Cardinality(PaymentStatusMismatch),
     REVIEW_QUEUE_MISSING    |-> Cardinality(ReviewQueueMissing),
     UNEXPECTED_REVIEW_QUEUE |-> Cardinality(UnexpectedReviewQueue),
     REJECTED_DECISION_EVENT |-> processingSummarySQL(Tables)]

Section(s, t) ==
    CASE s = "payments"      -> paymentSummarySQL(t)
      [] s = "decisions"     -> decisionSummarySQL(t)
      [] s = "latest"        -> latestVersionSQL(t)
      [] s = "manual_review" -> manualReviewSummarySQL(t)
      [] s = "processing"    -> processingSummarySQL(t)
      [] s = "recent"        -> recentDecisionsSQL(t, limit)

----------------------------------------------------------------------------
DashboardInit ==
    /\ Init
    /\ step = 0 /\ limit = 0 /\ snap = None /\ doc = <<>> /\ answer = None

\* The handler parses recent_limit and calls Service.Load.
ReceiveDashboard(n) ==
    /\ step = 0
    /\ limit' = n
    /\ \/ n \in 1..100 /\ step' = 1 /\ UNCHANGED answer
       \/ n \notin 1..100 /\ step' = Len(Statements) + 1 /\ answer' = "validation_error"
    /\ UNCHANGED <<vars, snap, doc>>

\* Mutant: the transaction runs at the default isolation level.
View_ReadCommitted(s) == Tables

\* What statement s of the transaction sees: the snapshot that the
\* transaction's first statement took.
View(s) == IF s = "payments" THEN Tables ELSE snap

LoadSection ==
    /\ step \in DOMAIN Statements /\ Statements[step] # "reconciliation"
    /\ LET s == Statements[step]
       IN  /\ doc' = [k \in DOMAIN doc \cup {s} |-> IF k = s THEN Section(s, View(s)) ELSE doc[k]]
           /\ snap' = IF s = "recent" THEN None ELSE View(s)
    /\ step' = step + 1
    /\ answer' = IF step = Len(Statements) THEN "ok" ELSE answer
    /\ UNCHANGED <<vars, limit>>

\* Reconciler.Count reads the current rows; how old the payments are is a
\* matter of the clock.
CountControls ==
    /\ step \in DOMAIN Statements /\ Statements[step] = "reconciliation"
    /\ \E old \in SUBSET Payments :
          doc' = [k \in DOMAIN doc \cup {"reconciliation"} |->
                    IF k = "reconciliation" THEN Count(old) ELSE doc[k]]
    /\ step' = step + 1
    /\ answer' = IF step = Len(Statements) THEN "ok" ELSE answer
    /\ UNCHANGED <<vars, limit, snap>>

\* A statement or the commit fails, or the request's time is over: nothing of
\* the document is sent.
LoadFails ==
    /\ step \in DOMAIN Statements
    /\ step' = Len(Statements) + 1 /\ answer' = "error" /\ snap' = None /\ doc' = <<>>
    /\ UNCHANGED <<vars, limit>>

DashboardNext ==
    \/ Next /\ UNCHANGED reader
    \/ \E n \in Limits : ReceiveDashboard(n)
    \/ LoadSection \/ CountControls \/ LoadFails

DashboardSpec == DashboardInit /\ [][DashboardNext]_dashboardVars

----------------------------------------------------------------------------
(* The sections of a dashboard agree with each other whatever is committed  *)
(* between its statements: every payment that left PENDING_RISK has one     *)
(* decision, the reviews pending are the payments in REVIEW, the decisions  *)
(* are what the final statuses and the pending reviews stem from, and the   *)
(* recent decisions are the newest of those counted, none of them on a      *)
(* payment shown as undecided (repository.Load).                            *)
SectionsAgree(d, n) ==
    LET pay == d["payments"]  dec == d["decisions"]  recent == d["recent"]
    IN  /\ pay.total = pay.pending_risk + pay.allowed + pay.review + pay.blocked
        /\ dec.total = pay.total - pay.pending_risk
        /\ d["manual_review"] = pay.review /\ pay.review <= dec.review
        /\ pay.allowed >= dec.allow /\ pay.blocked >= dec.block
        /\ Len(recent) = IF n < dec.total THEN n ELSE dec.total
        /\ recent # <<>> => d["latest"] = <<recent[1].decision>>
        /\ \A i \in DOMAIN recent : recent[i].status # "PENDING_RISK"

(* An answered dashboard is such a document.                                *)
DocumentConsistent == answer = "ok" => SectionsAgree(doc, limit)

(* The controls of a dashboard are never older than its totals: every       *)
(* rejected record counted among the totals is also an exception, and no    *)
(* payment shown as decided is reported to lack its decision (Service.Load).*)
(* The second part is about the payments that existed at the snapshot: one  *)
(* accepted between the two reads may add to the controls alone.            *)
ControlsNotOlder ==
    answer = "ok" =>
        LET controls == doc["reconciliation"]
        IN  /\ controls.REJECTED_DECISION_EVENT >= doc["processing"]
            /\ controls.MISSING_DECISION <= doc["payments"].pending_risk
=============================================================================
