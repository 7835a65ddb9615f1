--------------------------- MODULE DashboardProofs ---------------------------
(***************************************************************************)
(* Proofs about Dashboard, for every finite set of payments and partitions *)
(* and every order of the events: one dashboard is consistent, and its     *)
(* controls are not older than its totals, whatever the consumer and the   *)
(* reviewers commit between its statements.                                *)
(***************************************************************************)
EXTENDS Dashboard, DecisionRecordsProofs, FiniteSetTheorems, FunctionTheorems

(* What the sections of one snapshot rely on: every decision belongs to a   *)
(* payment, which has no other; the payments that left PENDING_RISK are the *)
(* ones with a decision, and those in REVIEW the ones in the queue.         *)
StatusesFollow(t) ==
    /\ t.decisions \subseteq Events
    /\ t.status \in [Payments -> PaymentStatuses]
    /\ \A d \in t.decisions :
          /\ d.payment \in Payments /\ t.status[d.payment] # "PENDING_RISK"
          /\ d.verdict = "ALLOW" => t.status[d.payment] = "ALLOWED"
          /\ d.verdict = "BLOCK" => t.status[d.payment] = "BLOCKED"
          /\ t.status[d.payment] = "REVIEW" => d.verdict = "REVIEW"
    /\ \A d1, d2 \in t.decisions : d1.payment = d2.payment => d1 = d2
    /\ \A p \in Payments :
          /\ t.status[p] # "PENDING_RISK" => \E d \in t.decisions : d.payment = p
          /\ t.status[p] = "REVIEW" <=> (t.queue[p] # None /\ t.queue[p].status = "PENDING")

PendingOf(t)  == {p \in Payments : t.status[p] = "PENDING_RISK"}
RejectedOf(t) == {po \in Partitions \X Offsets : t.receipts[po[1]][po[2]] \in RejectionCodes}

(* The tables have moved on from snapshot t in one direction only.          *)
MovedOn(t) == PendingOf(Tables) \subseteq PendingOf(t) /\ RejectedOf(t) \subseteq RejectedOf(Tables)

(* The request while it reads: its parameter was accepted; the sections     *)
(* read so far are those of its snapshot, ...                               *)
Reading ==
    step \in 2..6 =>
        /\ StatusesFollow(snap) /\ MovedOn(snap)
        /\ \A i \in 1..6 : i < step =>
              Statements[i] \in DOMAIN doc /\ doc[Statements[i]] = Section(Statements[i], snap)

(* ... and once it has read them, they agree, and the tables have at least  *)
(* the rejected records and at most the pending payments that they count.   *)
HaveRead ==
    /\ step = 7 \/ answer = "ok" => SectionsAgree(doc, limit)
    /\ step = 7 =>
          /\ \A i \in 1..6 : Statements[i] \in DOMAIN doc
          /\ doc["processing"] \in Nat /\ doc["payments"].pending_risk \in Nat
          /\ doc["processing"] <= Cardinality(RejectedOf(Tables))
          /\ Cardinality(PendingOf(Tables)) <= doc["payments"].pending_risk

Request ==
    /\ step \in 0..8
    /\ step \in 1..7 => limit \in 1..100
    /\ answer = "ok" => step = 8

RInv == Request /\ Reading /\ HaveRead /\ ControlsNotOlder

----------------------------------------------------------------------------
(* Counting.                                                                *)

(* The order of the decisions lists finitely many events.                   *)
LEMMA FiniteEvents == IsFiniteSet(Events)
<1>1. Len(Order) \in Nat /\ Order \in Surjection(1..Len(Order), Events)
    BY OrderAssumption DEF Surjection
<1>2. IsFiniteSet(1..Len(Order))
    BY <1>1, FS_Interval
<1> QED BY <1>1, <1>2, FS_Surjection

(* As many payments have a decision of D as D has decisions.                *)
LEMMA OnePerPayment ==
    ASSUME NEW D \in SUBSET Events, \A d1, d2 \in D : d1.payment = d2.payment => d1 = d2
    PROVE  /\ IsFiniteSet(D) /\ IsFiniteSet({d.payment : d \in D})
           /\ Cardinality({d.payment : d \in D}) = Cardinality(D)
<1> DEFINE P == {d.payment : d \in D}
           f == [d \in D |-> d.payment]
<1>1. IsFiniteSet(D)
    BY FiniteEvents, FS_Subset
<1>2. f \in Bijection(D, P)
  <2>1. f \in [D -> P]
      OBVIOUS
  <2>2. \A a, b \in D : f[a] = f[b] => a = b
      OBVIOUS
  <2>3. \A p \in P : \E d \in D : f[d] = p
      OBVIOUS
  <2> HIDE DEF f, P
  <2> QED BY <2>1, <2>2, <2>3, Fun_IsBij
<1>3. ExistsBijection(D, P)
    BY <1>2 DEF ExistsBijection
<1> HIDE DEF P
<1>4. IsFiniteSet(P) /\ Cardinality(P) = Cardinality(D)
    BY <1>1, <1>3, FS_Bijection
<1> QED BY <1>1, <1>4 DEF P

(* Two events have different places in the order.                           *)
LEMMA RankInjective ==
    ASSUME NEW d \in Events
    PROVE  Rank(d) \in Nat /\ \A e \in Events : Rank(d) = Rank(e) => d = e
<1>1. \A e \in Events : Rank(e) \in DOMAIN Order /\ Order[Rank(e)] = e
    BY OrderAssumption DEF Rank
<1>2. DOMAIN Order \subseteq Nat
    BY OrderAssumption
<1> QED BY <1>1, <1>2

(* ORDER BY returns as many rows as there are, all of them from the table.  *)
LEMMA OrderedRows ==
    ASSUME NEW S \in SUBSET Events
    PROVE  /\ Cardinality(S) \in Nat
           /\ NewestFirst(S) \in [1..Cardinality(S) -> S]
<1>1. IsFiniteSet(S) /\ Cardinality(S) \in Nat
    BY FiniteEvents, FS_Subset, FS_CardinalityType
<1> DEFINE n == Cardinality(S)
           f == [e \in S |-> Cardinality(UpTo(e, S))]
<1>2. ASSUME NEW e \in S
      PROVE  /\ UpTo(e, S) \in SUBSET S /\ IsFiniteSet(UpTo(e, S))
             /\ Cardinality(UpTo(e, S)) \in 1..n
  <2>1. UpTo(e, S) \in SUBSET S /\ UpTo(e, S) # {}
      BY RankInjective DEF UpTo
  <2>2. IsFiniteSet(UpTo(e, S)) /\ Cardinality(UpTo(e, S)) <= n
      BY <1>1, <2>1, FS_Subset
  <2>3. Cardinality(UpTo(e, S)) \in Nat /\ Cardinality(UpTo(e, S)) # 0
      BY <2>1, <2>2, FS_CardinalityType, FS_EmptySet
  <2> QED BY <1>1, <2>1, <2>2, <2>3
<1>3. ASSUME NEW a \in S, NEW b \in S, Rank(a) < Rank(b)
      PROVE  Cardinality(UpTo(a, S)) # Cardinality(UpTo(b, S))
  <2>1. UpTo(a, S) \in SUBSET UpTo(b, S) /\ b \in UpTo(b, S) /\ b \notin UpTo(a, S)
      BY <1>3, RankInjective DEF UpTo
  <2> QED BY <1>2, <2>1, FS_Subset
<1>4. f \in Injection(S, 1..n)
  <2>1. f \in [S -> 1..n]
      BY <1>2
  <2>2. \A a, b \in S : f[a] = f[b] => a = b
      BY <1>3, RankInjective
  <2> HIDE DEF f, n
  <2> QED BY <2>1, <2>2, Fun_IsInj
<1>5. f \in Surjection(S, 1..n)
  <2>1. IsFiniteSet(1..n) /\ Cardinality(1..n) = n
      BY <1>1, FS_Interval
  <2> HIDE DEF f
  <2> QED BY <1>4, <2>1, FS_Injection
<1>6. \A k \in 1..n : \E e \in S : Cardinality(UpTo(e, S)) = k
    BY <1>5 DEF Surjection
<1> QED BY <1>1, <1>6 DEF NewestFirst

(* The rows of a LIMIT n.                                                   *)
LEMMA LimitedRows ==
    ASSUME NEW S, NEW c \in Nat, NEW seq \in [1..c -> S], NEW n \in Nat
    PROVE  FirstRows(seq, n) = [i \in 1..(IF n < c THEN n ELSE c) |-> seq[i]]
<1> DEFINE k == IF n < c THEN n ELSE c
<1>1. Len(seq) = c
    OBVIOUS
<1>2. SubSeq(seq, 1, k) = [i \in 1..k |-> seq[i]]
    OBVIOUS
<1> QED BY <1>1, <1>2 DEF FirstRows

----------------------------------------------------------------------------
(* The sections of one snapshot.                                            *)

(* Every payment has exactly one of the four statuses.                      *)
LEMMA StatusPartition ==
    ASSUME NEW t, t.status \in [Payments -> PaymentStatuses]
    PROVE  /\ \A s \in PaymentStatuses : WithStatus(t, s) \in Nat
           /\ Cardinality(Payments) = WithStatus(t, "PENDING_RISK") + WithStatus(t, "ALLOWED")
                                       + WithStatus(t, "REVIEW") + WithStatus(t, "BLOCKED")
           /\ Cardinality({p \in Payments : t.status[p] # "PENDING_RISK"})
                = Cardinality(Payments) - WithStatus(t, "PENDING_RISK")
<1> DEFINE Of(s) == {p \in Payments : t.status[p] = s}
<1>1. ASSUME NEW s
      PROVE  IsFiniteSet(Of(s)) /\ Cardinality(Of(s)) \in Nat /\ WithStatus(t, s) = Cardinality(Of(s))
    BY FiniteAssumption, FS_Subset, FS_CardinalityType DEF WithStatus
<1> HIDE DEF Of
<1>2. ASSUME NEW S \in SUBSET Payments, NEW s, S \cap Of(s) = {}
      PROVE  /\ IsFiniteSet(S \cup Of(s)) /\ S \cup Of(s) \in SUBSET Payments
             /\ Cardinality(S \cup Of(s)) = Cardinality(S) + Cardinality(Of(s))
  <2>1. IsFiniteSet(S) /\ Cardinality(S) \in Nat
      BY FiniteAssumption, FS_Subset, FS_CardinalityType
  <2>2. Cardinality(S \cap Of(s)) = 0
      BY <1>2, FS_EmptySet
  <2>3. Of(s) \in SUBSET Payments
      BY DEF Of
  <2>4. /\ IsFiniteSet(S \cup Of(s))
        /\ Cardinality(S \cup Of(s)) = Cardinality(S) + Cardinality(Of(s)) - Cardinality(S \cap Of(s))
      BY <1>1, <2>1, FS_Union
  <2>5. Cardinality(S \cup Of(s)) = Cardinality(S) + Cardinality(Of(s))
      BY <1>1, <2>1, <2>2, <2>4
  <2> QED BY <2>3, <2>4, <2>5
<1> DEFINE two   == Of("ALLOWED") \cup Of("REVIEW")
           three == two \cup Of("BLOCKED")
<1>3. Cardinality(two) = WithStatus(t, "ALLOWED") + WithStatus(t, "REVIEW") /\ two \in SUBSET Payments
  <2>1. Of("ALLOWED") \in SUBSET Payments /\ Of("ALLOWED") \cap Of("REVIEW") = {}
      BY DEF Of
  <2> QED BY <1>1, <1>2, <2>1
<1>4. Cardinality(three) = Cardinality(two) + WithStatus(t, "BLOCKED") /\ three \in SUBSET Payments
  <2>1. two \cap Of("BLOCKED") = {}
      BY DEF Of
  <2> HIDE DEF two
  <2> QED BY <1>1, <1>2, <1>3, <2>1
<1>5. Cardinality(three \cup Of("PENDING_RISK")) = Cardinality(three) + WithStatus(t, "PENDING_RISK")
  <2>1. three \cap Of("PENDING_RISK") = {}
      BY DEF Of
  <2> HIDE DEF three
  <2> QED BY <1>1, <1>2, <1>4, <2>1
<1>6. /\ three \cup Of("PENDING_RISK") = Payments
      /\ {p \in Payments : t.status[p] # "PENDING_RISK"} = three
    BY DEF Of, PaymentStatuses
<1>7. \A s : WithStatus(t, s) \in Nat
    BY <1>1
<1> DEFINE decided == Cardinality({p \in Payments : t.status[p] # "PENDING_RISK"})
<1>8. Cardinality(Payments) = decided + WithStatus(t, "PENDING_RISK")
    BY <1>5, <1>6
<1>9. decided = WithStatus(t, "ALLOWED") + WithStatus(t, "REVIEW") + WithStatus(t, "BLOCKED")
    BY <1>3, <1>4, <1>6
<1> HIDE DEF two, three, decided
<1>10. Cardinality(Payments) = WithStatus(t, "PENDING_RISK") + WithStatus(t, "ALLOWED")
                              + WithStatus(t, "REVIEW") + WithStatus(t, "BLOCKED")
    BY <1>7, <1>8, <1>9
<1>11. decided = Cardinality(Payments) - WithStatus(t, "PENDING_RISK")
    BY <1>7, <1>8, <1>9
<1> QED BY <1>7, <1>10, <1>11 DEF decided

(* As many decisions as payments that left PENDING_RISK, and the verdicts   *)
(* that the statuses follow from.                                           *)
LEMMA DecisionsCounted ==
    ASSUME NEW t, StatusesFollow(t)
    PROVE  /\ Cardinality(t.decisions) = Cardinality(Payments) - WithStatus(t, "PENDING_RISK")
           /\ WithStatus(t, "REVIEW") <= WithVerdict(t, "REVIEW")
           /\ WithStatus(t, "ALLOWED") >= WithVerdict(t, "ALLOW")
           /\ WithStatus(t, "BLOCKED") >= WithVerdict(t, "BLOCK")
<1> USE DEF StatusesFollow
<1> DEFINE Of(v) == {d \in t.decisions : d.verdict = v}
           Paid(D) == {d.payment : d \in D}
<1>1. ASSUME NEW D \in SUBSET t.decisions
      PROVE  IsFiniteSet(Paid(D)) /\ Cardinality(Paid(D)) = Cardinality(D) /\ Paid(D) \in SUBSET Payments
  <2>1. D \in SUBSET Events /\ \A d1, d2 \in D : d1.payment = d2.payment => d1 = d2
      OBVIOUS
  <2>2. Paid(D) \in SUBSET Payments
      OBVIOUS
  <2>3. IsFiniteSet(Paid(D)) /\ Cardinality(Paid(D)) = Cardinality(D)
      BY <2>1, OnePerPayment
  <2> QED BY <2>2, <2>3
<1>2. Cardinality(t.decisions) = Cardinality(Payments) - WithStatus(t, "PENDING_RISK")
  <2>1. Paid(t.decisions) = {p \in Payments : t.status[p] # "PENDING_RISK"}
      OBVIOUS
  <2> HIDE DEF Paid
  <2> QED BY <1>1, <2>1, StatusPartition
<1>3. ASSUME NEW s, NEW D \in SUBSET t.decisions,
             {p \in Payments : t.status[p] = s} \in SUBSET Paid(D)
      PROVE  WithStatus(t, s) <= Cardinality(D)
  <2> HIDE DEF Paid
  <2> QED BY <1>1, <1>3, FS_Subset DEF WithStatus
<1>4. ASSUME NEW s, NEW D \in SUBSET t.decisions,
             Paid(D) \in SUBSET {p \in Payments : t.status[p] = s}
      PROVE  Cardinality(D) <= WithStatus(t, s)
  <2> DEFINE Q == {p \in Payments : t.status[p] = s}
  <2>1. IsFiniteSet(Q)
      BY FiniteAssumption, FS_Subset
  <2> HIDE DEF Paid, Q
  <2>2. Cardinality(Paid(D)) <= Cardinality(Q)
      BY <1>4, <2>1, FS_Subset DEF Q
  <2> QED BY <1>1, <2>2 DEF WithStatus, Q
<1>5. {p \in Payments : t.status[p] = "REVIEW"} \in SUBSET Paid(Of("REVIEW"))
    OBVIOUS
<1>6. /\ Paid(Of("ALLOW")) \in SUBSET {p \in Payments : t.status[p] = "ALLOWED"}
      /\ Paid(Of("BLOCK")) \in SUBSET {p \in Payments : t.status[p] = "BLOCKED"}
    OBVIOUS
<1>7. \A v : Of(v) \in SUBSET t.decisions /\ WithVerdict(t, v) = Cardinality(Of(v))
    BY DEF WithVerdict
<1>8. \A s : WithStatus(t, s) \in Nat
    BY FiniteAssumption, FS_Subset, FS_CardinalityType DEF WithStatus
<1>9. \A v : WithVerdict(t, v) \in Nat
    BY FiniteEvents, FS_Subset, FS_CardinalityType DEF WithVerdict
<1> HIDE DEF Of, Paid
<1> QED BY <1>2, <1>3, <1>4, <1>5, <1>6, <1>7, <1>8, <1>9

(* The sections read from one snapshot agree.                               *)
LEMMA OneSnapshot ==
    ASSUME NEW t, StatusesFollow(t), NEW n \in 1..100, NEW d,
           d["payments"] = paymentSummarySQL(t), d["decisions"] = decisionSummarySQL(t),
           d["latest"] = latestVersionSQL(t), d["manual_review"] = manualReviewSummarySQL(t),
           d["recent"] = recentDecisionsSQL(t, n)
    PROVE  SectionsAgree(d, n)
<1> DEFINE D == t.decisions
           c == Cardinality(D)
           k == IF n < c THEN n ELSE c
           rows1 == FirstRows(NewestFirst(D), 1)
           rowsN == FirstRows(NewestFirst(D), n)
           recent == d["recent"]
<1>1. D \in SUBSET Events /\ {e \in t.decisions : e.payment \in Payments} = D
    BY DEF StatusesFollow
<1>2. c \in Nat /\ NewestFirst(D) \in [1..c -> D]
    BY <1>1, OrderedRows
<1>3. /\ rowsN = [i \in 1..k |-> NewestFirst(D)[i]]
      /\ rows1 = [i \in 1..(IF 1 < c THEN 1 ELSE c) |-> NewestFirst(D)[i]]
  <2> DEFINE seq == NewestFirst(D)
  <2>1. c \in Nat /\ seq \in [1..c -> D]
      BY <1>2
  <2> HIDE DEF D, c, seq
  <2>2. ASSUME NEW l \in Nat
        PROVE  FirstRows(seq, l) = [i \in 1..(IF l < c THEN l ELSE c) |-> seq[i]]
      BY <2>1, LimitedRows, SMTT(20)
  <2>3. n \in Nat /\ 1 \in Nat
      OBVIOUS
  <2> QED BY <2>2, <2>3 DEF seq
<1>4. recent = [i \in 1..k |-> [decision |-> NewestFirst(D)[i],
                                status |-> t.status[NewestFirst(D)[i].payment]]]
  <2>1. recent = [i \in DOMAIN rowsN |-> [decision |-> rowsN[i], status |-> t.status[rowsN[i].payment]]]
      BY <1>1 DEF recentDecisionsSQL
  <2> HIDE DEF rowsN, recent, D, c
  <2> QED BY <1>3, <2>1
<1>5. Len(recent) = k /\ DOMAIN recent = 1..k
  <2> HIDE DEF recent, D, c
  <2> QED BY <1>2, <1>4
<1>6. \A i \in DOMAIN recent : recent[i].status # "PENDING_RISK"
  <2> HIDE DEF recent, c
  <2> QED BY <1>2, <1>4, <1>5 DEF StatusesFollow
<1>7. recent # <<>> => d["latest"] = <<recent[1].decision>>
  <2> SUFFICES ASSUME recent # <<>> PROVE d["latest"] = <<recent[1].decision>>
      OBVIOUS
  <2>1. d["latest"] = rows1
      BY DEF latestVersionSQL
  <2> HIDE DEF recent, rows1, D, c
  <2>2. 1 <= k
    <3>1. k \in Nat
        BY <1>2
    <3>2. k = 0 => recent = <<>>
        BY <1>4, <1>5
    <3> QED BY <3>1, <3>2
  <2>3. recent[1].decision = NewestFirst(D)[1]
      BY <1>2, <1>4, <2>2
  <2>4. rows1 = <<NewestFirst(D)[1]>>
      BY <1>2, <1>3, <2>2
  <2> QED BY <2>1, <2>3, <2>4
<1>8. d["manual_review"] = WithStatus(t, "REVIEW")
  <2>1. {p \in Payments : t.queue[p] # None /\ t.queue[p].status = "PENDING"}
            = {p \in Payments : t.status[p] = "REVIEW"}
      BY DEF StatusesFollow
  <2> QED BY <2>1 DEF manualReviewSummarySQL, WithStatus
<1>9. /\ d["payments"].total = Cardinality(Payments)
      /\ d["payments"].pending_risk = WithStatus(t, "PENDING_RISK")
      /\ d["payments"].allowed = WithStatus(t, "ALLOWED")
      /\ d["payments"].review = WithStatus(t, "REVIEW")
      /\ d["payments"].blocked = WithStatus(t, "BLOCKED")
      /\ d["decisions"].total = c
      /\ d["decisions"].allow = WithVerdict(t, "ALLOW")
      /\ d["decisions"].review = WithVerdict(t, "REVIEW")
      /\ d["decisions"].block = WithVerdict(t, "BLOCK")
    BY DEF paymentSummarySQL, decisionSummarySQL
<1>10. Cardinality(Payments) = WithStatus(t, "PENDING_RISK") + WithStatus(t, "ALLOWED")
                              + WithStatus(t, "REVIEW") + WithStatus(t, "BLOCKED")
    BY StatusPartition DEF StatusesFollow
<1>11. /\ c = Cardinality(Payments) - WithStatus(t, "PENDING_RISK")
       /\ WithStatus(t, "REVIEW") <= WithVerdict(t, "REVIEW")
       /\ WithStatus(t, "ALLOWED") >= WithVerdict(t, "ALLOW")
       /\ WithStatus(t, "BLOCKED") >= WithVerdict(t, "BLOCK")
    BY DecisionsCounted
<1>12. Len(recent) = IF n < d["decisions"].total THEN n ELSE d["decisions"].total
    BY <1>5, <1>9
<1>13. d["payments"].total = d["payments"].pending_risk + d["payments"].allowed
                            + d["payments"].review + d["payments"].blocked
    BY <1>9, <1>10
<1>14. /\ d["decisions"].total = d["payments"].total - d["payments"].pending_risk
       /\ d["manual_review"] = d["payments"].review
       /\ d["payments"].review <= d["decisions"].review
       /\ d["payments"].allowed >= d["decisions"].allow
       /\ d["payments"].blocked >= d["decisions"].block
    BY <1>8, <1>9, <1>11
<1> QED BY <1>6, <1>7, <1>12, <1>13, <1>14, Zenon DEF SectionsAgree

----------------------------------------------------------------------------
(* The tables between two statements.                                       *)

(* The invariant of the writers makes the current rows a good snapshot.     *)
LEMMA TablesFollow == IInv => StatusesFollow(Tables)
<1> SUFFICES ASSUME IInv PROVE StatusesFollow(Tables)
    OBVIOUS
<1> USE DEF IInv, TypeOK, TablesTypeOK, Tables
<1>1. ASSUME NEW d \in decisions
      PROVE  /\ d.payment \in Payments /\ status[d.payment] # "PENDING_RISK"
             /\ d.verdict = "ALLOW" => status[d.payment] = "ALLOWED"
             /\ d.verdict = "BLOCK" => status[d.payment] = "BLOCKED"
             /\ status[d.payment] = "REVIEW" <=>
                    d.verdict = "REVIEW" /\ queue[d.payment].status = "PENDING"
             /\ d.verdict = "REVIEW" => queue[d.payment] # None
  <2>1. d.verdict \in Verdicts
      BY EventsAssumption
  <2> QED BY <2>1 DEF RowsAgree, StatusOf, paymentStatusForDecision, Verdicts
<1>2. ASSUME NEW p \in Payments
      PROVE  /\ status[p] # "PENDING_RISK" => \E d \in decisions : d.payment = p
             /\ status[p] = "REVIEW" <=> (queue[p] # None /\ queue[p].status = "PENDING")
  <2>1. status[p] # "PENDING_RISK" => \E d \in decisions : d.payment = p
      BY DEF RowsAgree
  <2>2. status[p] = "REVIEW" => queue[p] # None /\ queue[p].status = "PENDING"
      BY <1>1, <2>1
  <2>3. queue[p] # None /\ queue[p].status = "PENDING" => status[p] = "REVIEW"
      BY QueuedNotPending
  <2> QED BY <2>1, <2>2, <2>3
<1>3. \A d1, d2 \in decisions : d1.payment = d2.payment => d1 = d2
    BY DEF DecisionsUnique
<1> QED BY <1>1, <1>2, <1>3 DEF StatusesFollow

(* No payment becomes pending and no rejection disappears.                  *)
LEMMA TablesMoveOn ==
    ASSUME IInv, [Next]_vars
    PROVE  /\ PendingOf(Tables') \subseteq PendingOf(Tables)
           /\ RejectedOf(Tables) \subseteq RejectedOf(Tables')
<1> USE DEF IInv, TypeOK, TablesTypeOK
<1>1. ASSUME NEW p \in Payments, status'[p] = "PENDING_RISK" PROVE status[p] = "PENDING_RISK"
  <2>1. CASE UNCHANGED status
      BY <1>1, <2>1
  <2>2. ASSUME NEW m \in Members, Accepts(m) PROVE status[p] = "PENDING_RISK"
    <3>1. value[m].verdict \in Verdicts
        BY <2>2, AcceptedEvent, EventsAssumption
    <3>2. p # value[m].payment => status'[p] = status[p]
        BY <2>2 DEF Accepts, InsertDecision
    <3>3. p = value[m].payment => status[p] = "PENDING_RISK"
        BY <2>2 DEF Accepts
    <3> QED BY <1>1, <3>2, <3>3
  <2>3. ASSUME NEW r \in Requests, rpc[r] = "finish", ResolveRows(r) PROVE status[p] = "PENDING_RISK"
    <3>1. command[r] \in ResolveCommand
        BY <2>3 DEF HoldsRow
    <3>2. p # command[r].payment
        BY <1>1, <2>3, <3>1 DEF ResolveRows, ResolveCommand, Actions, actionState
    <3> QED BY <1>1, <2>3, <3>2, ResolvedRow
  <2> QED BY <2>1, <2>2, <2>3, RowSteps DEF Replays, Rejects, rows
<1>2. ASSUME NEW p \in Partitions, NEW o \in Offsets, receipts[p][o] \in RejectionCodes
      PROVE  receipts'[p][o] \in RejectionCodes
  <2>1. receipts[p][o] # None
      BY <1>2, NoneAssumption DEF Dispositions
  <2> QED BY <1>2, <2>1, ReceiptsKept
<1> QED BY <1>1, <1>2 DEF PendingOf, RejectedOf, Tables

(* What is counted is finite.                                               *)
LEMMA Countable ==
    ASSUME NEW t
    PROVE  /\ IsFiniteSet(PendingOf(t)) /\ Cardinality(PendingOf(t)) \in Nat
           /\ IsFiniteSet(RejectedOf(t)) /\ Cardinality(RejectedOf(t)) \in Nat
           /\ paymentSummarySQL(t).pending_risk = Cardinality(PendingOf(t))
           /\ processingSummarySQL(t) = Cardinality(RejectedOf(t))
<1>1. IsFiniteSet(Partitions \X Offsets)
  <2>1. IsFiniteSet(Offsets)
      BY BoundAssumption, FS_Interval DEF Offsets
  <2> QED BY <2>1, FiniteAssumption, FS_Product
<1>2. PendingOf(t) \in SUBSET Payments /\ RejectedOf(t) \in SUBSET (Partitions \X Offsets)
    BY DEF PendingOf, RejectedOf
<1>3. IsFiniteSet(PendingOf(t)) /\ IsFiniteSet(RejectedOf(t))
    BY <1>1, <1>2, FiniteAssumption, FS_Subset
<1>4. /\ paymentSummarySQL(t).pending_risk = Cardinality(PendingOf(t))
      /\ processingSummarySQL(t) = Cardinality(RejectedOf(t))
    BY DEF paymentSummarySQL, WithStatus, PendingOf, processingSummarySQL, RejectedOf
<1> QED BY <1>3, <1>4, FS_CardinalityType

----------------------------------------------------------------------------
(* The steps of the request.                                                *)

(* Whatever the writers do leaves the request's knowledge valid.            *)
LEMMA WriterStep ==
    ASSUME IInv, RInv, [Next]_vars, UNCHANGED reader
    PROVE  RInv'
<1> USE DEF reader
<1>1. Request'
    BY DEF RInv, Request
<1>2. Reading'
  <2> SUFFICES ASSUME step \in 2..6
               PROVE  /\ StatusesFollow(snap)' /\ MovedOn(snap)'
                      /\ \A i \in 1..6 : i < step =>
                            /\ Statements[i] \in DOMAIN doc
                            /\ doc[Statements[i]] = Section(Statements[i], snap)'
      BY DEF Reading
  <2>1. StatusesFollow(snap)'
      BY DEF RInv, Reading, StatusesFollow
  <2>2. MovedOn(snap)'
      BY TablesMoveOn DEF RInv, Reading, MovedOn, PendingOf, RejectedOf
  <2>3. \A s : Section(s, snap)' = Section(s, snap)
      BY DEF Section
  <2> QED BY <2>1, <2>2, <2>3 DEF RInv, Reading
<1>3. HaveRead'
  <2>1. (step = 7 \/ answer = "ok" => SectionsAgree(doc, limit))'
      BY DEF RInv, HaveRead
  <2>2. ASSUME step = 7
        PROVE  /\ doc["processing"] <= Cardinality(RejectedOf(Tables'))
               /\ Cardinality(PendingOf(Tables')) <= doc["payments"].pending_risk
    <3>1. /\ Cardinality(RejectedOf(Tables)) <= Cardinality(RejectedOf(Tables'))
          /\ Cardinality(PendingOf(Tables')) <= Cardinality(PendingOf(Tables))
        BY TablesMoveOn, Countable, FS_Subset
    <3>2. /\ \A t \in {Tables, Tables'} : Cardinality(RejectedOf(t)) \in Nat
          /\ \A t \in {Tables, Tables'} : Cardinality(PendingOf(t)) \in Nat
        BY Countable
    <3> QED BY <2>2, <3>1, <3>2 DEF RInv, HaveRead
  <2> QED BY <2>1, <2>2 DEF RInv, HaveRead, RejectedOf, PendingOf
<1>4. ControlsNotOlder'
    BY DEF RInv, ControlsNotOlder
<1> QED BY <1>1, <1>2, <1>3, <1>4 DEF RInv

(* A request whose parameter is accepted has read nothing yet.              *)
LEMMA RequestReceived ==
    ASSUME RInv, NEW n \in Limits, ReceiveDashboard(n)
    PROVE  RInv'
<1>1. step = 0 /\ answer # "ok" /\ step' \in {1, 8} /\ (step' = 1 => limit' \in 1..100)
      /\ answer' # "ok"
    BY DEF ReceiveDashboard, RInv, Request, Statements
<1>2. Request'
    BY <1>1 DEF Request
<1>3. Reading' /\ HaveRead' /\ ControlsNotOlder'
    BY <1>1 DEF Reading, HaveRead, ControlsNotOlder
<1> QED BY <1>2, <1>3 DEF RInv

(* A section is read from the snapshot, which the first statement takes;    *)
(* with the last one they agree.                                            *)
LEMMA LoadStep ==
    ASSUME IInv, RInv, LoadSection
    PROVE  RInv'
<1>1. /\ step \in 1..6 /\ step' = step + 1 /\ answer # "ok" /\ answer' # "ok"
      /\ limit \in 1..100 /\ limit' = limit
    BY DEF LoadSection, RInv, Request, Statements
<1>2. UNCHANGED vars
    BY DEF LoadSection
<1> DEFINE t == View(Statements[step])
<1>3. StatusesFollow(t) /\ MovedOn(t)
  <2>1. CASE step = 1
      BY <2>1, TablesFollow DEF View, Statements, MovedOn
  <2>2. CASE step \in 2..6
      BY <2>2 DEF View, Statements, RInv, Reading
  <2> QED BY <1>1, <2>1, <2>2
<1>4. ASSUME NEW i \in 1..6, i < step'
      PROVE  Statements[i] \in DOMAIN doc' /\ doc'[Statements[i]] = Section(Statements[i], t)
  <2>1. doc' = [k \in DOMAIN doc \cup {Statements[step]} |->
                  IF k = Statements[step] THEN Section(Statements[step], t) ELSE doc[k]]
      BY DEF LoadSection
  <2>2. CASE i = step
      BY <2>1, <2>2
  <2>3. CASE i < step
    <3>1. t = snap /\ step \in 2..6
        BY <1>1, <2>3 DEF View, Statements
    <3>2. Statements[i] \in DOMAIN doc /\ doc[Statements[i]] = Section(Statements[i], snap)
        BY <2>3, <3>1 DEF RInv, Reading
    <3>3. Statements[i] # Statements[step]
        BY <1>1, <2>3 DEF Statements
    <3> QED BY <2>1, <3>1, <3>2, <3>3
  <2> QED BY <1>1, <1>4, <2>2, <2>3
<1>5. Request'
    BY <1>1 DEF Request
<1>6. Reading'
  <2>1. CASE step \in 1..5
    <3>1. snap' = t
        BY <2>1 DEF LoadSection, Statements
    <3>2. (Tables' = Tables) /\ \A s : Section(s, snap)' = Section(s, t)
        BY <1>1, <1>2, <3>1 DEF Tables, Section, vars, rows
    <3>3. StatusesFollow(snap)' /\ MovedOn(snap)'
        BY <1>3, <3>1, <3>2 DEF StatusesFollow, MovedOn, PendingOf, RejectedOf
    <3> QED BY <1>4, <3>2, <3>3 DEF Reading
  <2>2. CASE step = 6
      BY <1>1, <2>2 DEF Reading
  <2> QED BY <1>1, <2>1, <2>2
<1>7. HaveRead'
  <2>1. CASE step = 6
    <3>1. /\ doc'["payments"] = paymentSummarySQL(t)
          /\ doc'["processing"] = processingSummarySQL(t)
          /\ doc'["decisions"] = decisionSummarySQL(t)
          /\ doc'["latest"] = latestVersionSQL(t)
          /\ doc'["manual_review"] = manualReviewSummarySQL(t)
          /\ doc'["recent"] = recentDecisionsSQL(t, limit)
      <4> HIDE DEF t
      <4>1. \A i \in 1..6 : /\ Statements[i] \in DOMAIN doc'
                            /\ doc'[Statements[i]] = Section(Statements[i], t)
          BY <1>1, <1>4, <2>1
      <4> QED BY <4>1 DEF Statements, Section
    <3> HIDE DEF t
    <3>2. SectionsAgree(doc', limit)
        BY <1>1, <1>3, <3>1, OneSnapshot
    <3>3. /\ Cardinality(RejectedOf(t)) <= Cardinality(RejectedOf(Tables))
          /\ Cardinality(PendingOf(Tables)) <= Cardinality(PendingOf(t))
        BY <1>3, Countable, FS_Subset DEF MovedOn
    <3>4. /\ doc'["processing"] = Cardinality(RejectedOf(t))
          /\ doc'["payments"].pending_risk = Cardinality(PendingOf(t))
          /\ Cardinality(RejectedOf(t)) \in Nat /\ Cardinality(PendingOf(t)) \in Nat
        BY <3>1, Countable
    <3>5. RejectedOf(Tables)' = RejectedOf(Tables) /\ PendingOf(Tables)' = PendingOf(Tables)
        BY <1>2 DEF Tables, RejectedOf, PendingOf, vars, rows
    <3>6. \A i \in 1..6 : Statements[i] \in DOMAIN doc'
        BY <1>1, <1>4, <2>1
    <3> QED BY <1>1, <3>2, <3>3, <3>4, <3>5, <3>6 DEF HaveRead
  <2>2. CASE step \in 1..5
      BY <1>1, <2>2 DEF HaveRead
  <2> QED BY <1>1, <2>1, <2>2
<1>8. ControlsNotOlder'
    BY <1>1 DEF ControlsNotOlder
<1> QED BY <1>5, <1>6, <1>7, <1>8 DEF RInv

(* The controls are counted last, on tables that have at least the rejected *)
(* records and at most the pending payments of the totals.                  *)
LEMMA CountStep ==
    ASSUME RInv, CountControls
    PROVE  RInv'
<1>1. step = 7 /\ step' = 8 /\ answer' = "ok" /\ limit' = limit
    BY DEF CountControls, Statements, RInv, Request
<1>2. PICK old \in SUBSET Payments :
        doc' = [k \in DOMAIN doc \cup {"reconciliation"} |->
                  IF k = "reconciliation" THEN Count(old) ELSE doc[k]]
    BY DEF CountControls
<1>3. Request' /\ Reading'
    BY <1>1 DEF Request, Reading
<1>4. /\ SectionsAgree(doc, limit)
      /\ {"payments", "decisions", "latest", "manual_review", "processing", "recent"} \subseteq DOMAIN doc
    BY <1>1 DEF RInv, HaveRead, Statements
<1>5. HaveRead'
  <2>1. \A s \in {"payments", "decisions", "latest", "manual_review", "processing", "recent"} :
            doc'[s] = doc[s]
      BY <1>2, <1>4
  <2>2. SectionsAgree(doc', limit)
      BY <1>4, <2>1 DEF SectionsAgree
  <2> QED BY <1>1, <2>2 DEF HaveRead
<1>6. ControlsNotOlder'
  <2>1. /\ Count(old).REJECTED_DECISION_EVENT = Cardinality(RejectedOf(Tables))
        /\ Count(old).MISSING_DECISION = Cardinality(MissingDecision(old))
      BY Countable DEF Count
  <2>2. MissingDecision(old) \in SUBSET PendingOf(Tables)
      BY DEF MissingDecision, PendingOf, Tables
  <2>3. Cardinality(MissingDecision(old)) <= Cardinality(PendingOf(Tables))
        /\ Cardinality(MissingDecision(old)) \in Nat
      BY <2>2, Countable, FS_Subset, FS_CardinalityType
  <2>4. /\ doc'["reconciliation"] = Count(old)
        /\ doc'["processing"] = doc["processing"] /\ doc'["payments"] = doc["payments"]
      BY <1>2, <1>4
  <2>5. /\ doc["processing"] \in Nat /\ doc["payments"].pending_risk \in Nat
        /\ doc["processing"] <= Cardinality(RejectedOf(Tables))
        /\ Cardinality(PendingOf(Tables)) <= doc["payments"].pending_risk
      BY <1>1 DEF RInv, HaveRead
  <2>6. Cardinality(RejectedOf(Tables)) \in Nat /\ Cardinality(PendingOf(Tables)) \in Nat
      BY Countable
  <2> QED BY <2>1, <2>3, <2>4, <2>5, <2>6 DEF ControlsNotOlder
<1> QED BY <1>3, <1>5, <1>6 DEF RInv

(* A failure discards what was read.                                        *)
LEMMA FailStep ==
    ASSUME RInv, LoadFails
    PROVE  RInv'
<1>1. step' = 8 /\ answer' = "error"
    BY DEF LoadFails, Statements
<1>2. Request'
    BY <1>1 DEF Request
<1>3. Reading' /\ HaveRead' /\ ControlsNotOlder'
    BY <1>1 DEF Reading, HaveRead, ControlsNotOlder
<1> QED BY <1>2, <1>3 DEF RInv

----------------------------------------------------------------------------
(* The request only reads: the writers behave as without it.                *)
LEMMA ReadOnly == DashboardSpec => Spec
<1>1. DashboardInit => Init
    BY DEF DashboardInit
<1>2. [DashboardNext]_dashboardVars => [Next]_vars
    BY DEF DashboardNext, dashboardVars, ReceiveDashboard, LoadSection, CountControls, LoadFails
<1> QED BY <1>1, <1>2, PTL DEF DashboardSpec, Spec

LEMMA RequestInvariance == DashboardSpec => []RInv
<1>1. DashboardInit => RInv
    BY AnswerAssumption DEF Responses, DashboardInit, RInv, Request, Reading, HaveRead, ControlsNotOlder
<1>2. IInv /\ RInv /\ [DashboardNext]_dashboardVars => RInv'
  <2> SUFFICES ASSUME IInv, RInv, [DashboardNext]_dashboardVars PROVE RInv'
      OBVIOUS
  <2>1. CASE [Next]_vars /\ UNCHANGED reader
      BY <2>1, WriterStep
  <2>2. CASE \E n \in Limits : ReceiveDashboard(n)
      BY <2>2, RequestReceived
  <2>3. CASE LoadSection
      BY <2>3, LoadStep
  <2>4. CASE CountControls
      BY <2>4, CountStep
  <2>5. CASE LoadFails
      BY <2>5, FailStep
  <2> QED BY <2>1, <2>2, <2>3, <2>4, <2>5 DEF DashboardNext, dashboardVars
<1>3. Spec => []IInv
    BY Invariance
<1> QED BY <1>1, <1>2, <1>3, ReadOnly, PTL DEF DashboardSpec

(* The sections of every dashboard agree, whatever is committed between its *)
(* statements: the snapshot is one the writers' invariant holds of.         *)
THEOREM OneDocument == DashboardSpec => []DocumentConsistent
<1>1. RInv => DocumentConsistent
    BY DEF RInv, HaveRead, DocumentConsistent
<1> QED BY <1>1, RequestInvariance, PTL

(* The controls are counted after the snapshot was taken, and rejections    *)
(* and decisions only accumulate.                                           *)
THEOREM ControlsFollow == DashboardSpec => []ControlsNotOlder
<1>1. RInv => ControlsNotOlder
    BY DEF RInv
<1> QED BY <1>1, RequestInvariance, PTL
=============================================================================
