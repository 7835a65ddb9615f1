---------------------- MODULE PaymentAcceptanceProofs -----------------------
(***************************************************************************)
(* Proofs about PaymentAcceptance for any number of attempts, keys and     *)
(* contents and any normalisation.                                         *)
(***************************************************************************)
EXTENDS PaymentAcceptance, TLAPS

Candidates == [key : Keys, content : Contents]

(* A handler at work has a candidate, an answered one is finished, and one  *)
(* about to commit is the only transaction that has inserted its key, of    *)
(* which there is no committed row.                                         *)
HandlerHolds ==
    \A a \in Attempts :
        /\ pc[a] \in {"insert", "select", "commit"} => request[a] \in Candidates
        /\ reply[a] # None => pc[a] = "done"
        /\ pc[a] = "commit" =>
              inserting[request[a].key] = a /\ PaymentsOf(request[a].key) = {}

(* A stored payment has its event in the outbox.                            *)
EventsFollowPayments == \A p \in payments : p.id \in outbox

IInv ==
    /\ TypeOK /\ HandlerHolds /\ EventsFollowPayments
    /\ OnePaymentPerKey /\ AnswersDurable /\ ConflictJustified /\ ReplayFindsOriginal

(* Nothing is stored and nobody was answered at the start.                  *)
LEMMA InitIInv == Init => IInv
BY AcceptanceBounds DEF Init, IInv, TypeOK, HandlerHolds, OnePaymentPerKey, AnswersDurable,
   ConflictJustified, ReplayFindsOriginal, PaymentsOf, EventsFollowPayments

(* An answer is well-typed, finishes its attempt and releases only the key  *)
(* that the attempt itself had inserted.                                    *)
LEMMA AnswerKeepsTypes ==
    ASSUME TypeOK, NEW a \in Attempts, NEW c, NEW p, Answer(a, c, p),
           (c \in Successes /\ p \in Attempts) \/ (c \in Refusals /\ p = None)
    PROVE  /\ inserting' \in [Keys -> Attempts \cup {None}]
           /\ pc' \in [Attempts -> {"idle", "insert", "select", "commit", "done"}]
           /\ reply' \in [Attempts -> Replies \cup {None}]
           /\ pc'[a] = "done" /\ reply'[a].code = c /\ reply'[a].payment = p
           /\ \A b \in Attempts \ {a} :
                 /\ pc'[b] = pc[b] /\ reply'[b] = reply[b]
                 /\ \A k \in Keys : inserting[k] = b => inserting'[k] = b
BY DEF TypeOK, Answer, Replies

(* An answer of an attempt whose rows are not changed keeps the invariant   *)
(* as soon as the answer itself is justified.                               *)
LEMMA AnswerStep ==
    ASSUME IInv, NEW a \in Attempts, NEW c, NEW p, Answer(a, c, p),
           (c \in Successes /\ p \in Attempts) \/ (c \in Refusals /\ p = None),
           UNCHANGED <<tables, request>>, faults' \in 0..MaxFaults,
           c \in Successes =>
               /\ [id |-> p, key |-> request[a].key, content |-> request[a].content] \in payments
               /\ p \in outbox,
           c = "idempotency_conflict" =>
               \E q \in PaymentsOf(request[a].key) : q.content # request[a].content
    PROVE  IInv'
<1> USE DEF IInv, tables
<1>1. /\ TypeOK'
      /\ pc'[a] = "done" /\ reply'[a].code = c /\ reply'[a].payment = p
      /\ \A b \in Attempts \ {a} :
            /\ pc'[b] = pc[b] /\ reply'[b] = reply[b]
            /\ \A k \in Keys : inserting[k] = b => inserting'[k] = b
    BY AnswerKeepsTypes DEF TypeOK
<1>2. HandlerHolds'
    BY <1>1 DEF HandlerHolds, TypeOK, Candidates, PaymentsOf
<1>3. OnePaymentPerKey' /\ ReplayFindsOriginal' /\ EventsFollowPayments'
    BY <1>1 DEF EventsFollowPayments, OnePaymentPerKey, ReplayFindsOriginal, PaymentsOf
<1>4. AnswersDurable'
    BY <1>1 DEF AnswersDurable
<1>5. ConflictJustified'
    BY <1>1 DEF ConflictJustified, PaymentsOf
<1> QED BY <1>1, <1>2, <1>3, <1>4, <1>5

(* Receiving a request fixes its candidate and changes no row.              *)
LEMMA ReceiveStep ==
    ASSUME IInv, NEW a \in Attempts, NEW h \in Headers, NEW b \in Bodies, Receive(a, h, b)
    PROVE  IInv'
<1> DEFINE key == normalizeIdempotencyKey[h]
           content == NormalizeAndValidate[b]
<1>1. CASE key = Invalid \/ content = Invalid
  <2>1. Answer(a, "bad_request", None) /\ UNCHANGED <<tables, request, faults>>
      BY <1>1 DEF Receive, Acceptable
  <2> QED BY <2>1, AnswerStep DEF IInv, TypeOK, Refusals, Successes
<1>2. CASE ~(key = Invalid \/ content = Invalid)
  <2>1. /\ pc[a] = "idle"
        /\ request' = [request EXCEPT ![a] = [key |-> key, content |-> content]]
        /\ pc' = [pc EXCEPT ![a] = "insert"]
        /\ UNCHANGED <<payments, outbox, inserting, reply, faults>>
      BY <1>2 DEF Receive, Acceptable, tables
  <2>2. [key |-> key, content |-> content] \in Candidates
      BY <1>2, NormalisationAssumption DEF Candidates
  <2> HIDE DEF key, content
  <2>3. TypeOK'
      BY <2>1, <2>2 DEF IInv, TypeOK, Candidates
  <2>4. HandlerHolds'
      BY <2>1, <2>2 DEF IInv, TypeOK, HandlerHolds, PaymentsOf
  <2>5. OnePaymentPerKey' /\ AnswersDurable' /\ ConflictJustified' /\ ReplayFindsOriginal'
        /\ EventsFollowPayments'
      BY <2>1 DEF EventsFollowPayments, IInv, TypeOK, HandlerHolds, OnePaymentPerKey, AnswersDurable,
         ConflictJustified, ReplayFindsOriginal, PaymentsOf
  <2> QED BY <2>3, <2>4, <2>5 DEF IInv
<1> QED BY <1>1, <1>2

(* The INSERT either meets a committed row or claims a key nobody has.      *)
LEMMA InsertStep == ASSUME IInv, NEW a \in Attempts, Insert(a) PROVE IInv'
<1> USE DEF IInv, tables
<1>1. request[a] \in Candidates
    BY DEF Insert, HandlerHolds
<1>2. TypeOK'
    BY <1>1 DEF TypeOK, Insert, Candidates
<1>3. HandlerHolds'
    BY <1>1, AcceptanceBounds DEF TypeOK, Insert, HandlerHolds, Candidates, PaymentsOf
<1>4. OnePaymentPerKey' /\ AnswersDurable' /\ ConflictJustified' /\ ReplayFindsOriginal'
      /\ EventsFollowPayments'
    BY DEF EventsFollowPayments, TypeOK, Insert, OnePaymentPerKey, AnswersDurable, ConflictJustified,
       ReplayFindsOriginal, PaymentsOf
<1> QED BY <1>2, <1>3, <1>4

(* The taken key's row decides between replay and conflict.                 *)
LEMMA LoadExistingStep == ASSUME IInv, NEW a \in Attempts, LoadExisting(a) PROVE IInv'
<1>1. request[a] \in Candidates /\ UNCHANGED <<tables, request, faults>>
    BY DEF IInv, LoadExisting, HandlerHolds
<1>2. PICK p \in PaymentsOf(request[a].key) :
          IF p.content = request[a].content
          THEN Answer(a, "replayed", p.id)
          ELSE Answer(a, "idempotency_conflict", None)
    BY DEF IInv, LoadExisting, SameFingerprint, ReplayFindsOriginal
<1>3. p \in payments /\ p.key = request[a].key /\ p.id \in Attempts
    BY DEF PaymentsOf, IInv, TypeOK
<1>4. CASE p.content = request[a].content
  <2>1. p = [id |-> p.id, key |-> request[a].key, content |-> request[a].content]
      BY <1>3, <1>4 DEF IInv, TypeOK
  <2>2. p.id \in outbox
      BY <1>3 DEF IInv, EventsFollowPayments
  <2>3. Answer(a, "replayed", p.id) /\ faults' \in 0..MaxFaults
      BY <1>1, <1>2, <1>4 DEF IInv, TypeOK
  <2>4. [id |-> p.id, key |-> request[a].key, content |-> request[a].content] \in payments
      BY <1>3, <2>1
  <2>5. "replayed" \in Successes /\ "replayed" # "idempotency_conflict" /\ UNCHANGED <<tables, request>>
      BY <1>1 DEF Successes
  <2>6. p.id \in Attempts
      BY <1>3
  <2> QED BY <2>2, <2>3, <2>4, <2>5, <2>6, AnswerStep, Zenon
<1>5. CASE p.content # request[a].content
    BY <1>1, <1>2, <1>5, AnswerStep DEF Successes, Refusals, IInv, TypeOK
<1> QED BY <1>4, <1>5

(* The COMMIT stores the first payment of its key, with its event.          *)
LEMMA CommitStep == ASSUME IInv, NEW a \in Attempts, Commit(a) PROVE IInv'
<1> DEFINE row == [id |-> a, key |-> request[a].key, content |-> request[a].content]
<1>1. /\ pc[a] = "commit" /\ request[a] \in Candidates
      /\ payments' = payments \cup {row} /\ outbox' = outbox \cup {a}
      /\ UNCHANGED request
      /\ PaymentsOf(request[a].key) = {} /\ inserting[request[a].key] = a
    BY DEF Commit, IInv, HandlerHolds
<1>2. PICK c, p : /\ Answer(a, c, p)
                  /\ (c = "created" /\ p = a) \/ (c \in Failures /\ p = None)
                  /\ faults' \in 0..MaxFaults
  <2>1. CASE Answer(a, "created", a) /\ UNCHANGED faults
    <3>1. faults' \in 0..MaxFaults
        BY <2>1 DEF IInv, TypeOK
    <3> QED BY <2>1, <3>1
  <2>2. CASE \E c \in Failures : Answer(a, c, None) /\ Fault
    <3>1. Fault /\ faults' \in 0..MaxFaults
        BY <2>2, AcceptanceBounds DEF Fault, IInv, TypeOK
    <3> QED BY <2>2, <3>1
  <2> QED BY <2>1, <2>2 DEF Commit
<1>3. (c \in Successes /\ p \in Attempts) \/ (c \in Refusals /\ p = None)
    BY <1>2 DEF Successes, Refusals
<1>4. /\ inserting' \in [Keys -> Attempts \cup {None}]
      /\ pc' \in [Attempts -> {"idle", "insert", "select", "commit", "done"}]
      /\ reply' \in [Attempts -> Replies \cup {None}]
      /\ pc'[a] = "done" /\ reply'[a].code = c /\ reply'[a].payment = p
      /\ \A b \in Attempts \ {a} :
            /\ pc'[b] = pc[b] /\ reply'[b] = reply[b]
            /\ \A k \in Keys : inserting[k] = b => inserting'[k] = b
    BY <1>2, <1>3, AnswerKeepsTypes DEF IInv
<1>5. TypeOK'
    BY <1>1, <1>2, <1>4 DEF IInv, TypeOK, Candidates
<1>6. HandlerHolds'
  <2> SUFFICES ASSUME NEW b \in Attempts
               PROVE  /\ pc'[b] \in {"insert", "select", "commit"} => request'[b] \in Candidates
                      /\ reply'[b] # None => pc'[b] = "done"
                      /\ pc'[b] = "commit" =>
                            /\ inserting'[request[b].key] = b
                            /\ {q \in payments' : q.key = request[b].key} = {}
      BY <1>1 DEF HandlerHolds, PaymentsOf
  <2>1. CASE b = a
      BY <2>1, <1>4
  <2>2. CASE b # a
    <3>1. /\ pc'[b] \in {"insert", "select", "commit"} => request'[b] \in Candidates
          /\ reply'[b] # None => pc'[b] = "done"
        BY <2>2, <1>1, <1>4 DEF IInv, HandlerHolds
    <3>2. ASSUME pc'[b] = "commit"
          PROVE  /\ request[b].key \in Keys /\ inserting[request[b].key] = b
                 /\ PaymentsOf(request[b].key) = {} /\ request[b].key # request[a].key
        BY <2>2, <3>2, <1>1, <1>4 DEF IInv, HandlerHolds, Candidates
    <3>3. ASSUME pc'[b] = "commit"
          PROVE  inserting'[request[b].key] = b /\ {q \in payments' : q.key = request[b].key} = {}
        BY <3>2, <3>3, <2>2, <1>1, <1>4 DEF PaymentsOf
    <3> QED BY <3>1, <3>3
  <2> QED BY <2>1, <2>2
<1>7. OnePaymentPerKey' /\ EventsFollowPayments'
    BY <1>1 DEF IInv, OnePaymentPerKey, EventsFollowPayments, PaymentsOf
<1>8. AnswersDurable'
  <2>1. c \in Successes => p = a
      BY <1>2 DEF Successes, Failures
  <2> QED BY <1>1, <1>4, <2>1 DEF IInv, AnswersDurable
<1>9. ConflictJustified'
  <2>1. c # "idempotency_conflict"
      BY <1>2 DEF Failures
  <2> QED BY <1>1, <1>4, <2>1 DEF IInv, ConflictJustified, PaymentsOf
<1>10. ReplayFindsOriginal'
    BY <1>1, <1>4 DEF IInv, ReplayFindsOriginal, PaymentsOf
<1> QED BY <1>5, <1>6, <1>7, <1>8, <1>9, <1>10 DEF IInv

(* A failed attempt leaves the rows alone.                                  *)
LEMMA CreateFailsStep == ASSUME IInv, NEW a \in Attempts, CreateFails(a) PROVE IInv'
<1>1. PICK c \in Failures : Answer(a, c, None)
    BY DEF CreateFails
<1>2. c \in Refusals /\ c \notin Successes /\ c # "idempotency_conflict"
    BY DEF Failures, Refusals, Successes
<1>3. UNCHANGED <<tables, request>> /\ faults' \in 0..MaxFaults
    BY AcceptanceBounds DEF CreateFails, Fault, IInv, TypeOK
<1> QED BY <1>1, <1>2, <1>3, AnswerStep

(* Every step keeps the inductive invariant.                                *)
LEMMA NextIInv == IInv /\ [Next]_vars => IInv'
<1> SUFFICES ASSUME IInv, [Next]_vars PROVE IInv'
    OBVIOUS
<1>1. CASE Next
    BY <1>1, ReceiveStep, InsertStep, LoadExistingStep, CommitStep, CreateFailsStep DEF Next
<1>2. CASE UNCHANGED vars
    BY <1>2 DEF vars, tables, IInv, TypeOK, HandlerHolds, EventsFollowPayments, OnePaymentPerKey,
       AnswersDurable, ConflictJustified, ReplayFindsOriginal, PaymentsOf
<1> QED BY <1>1, <1>2

(* The inductive invariant holds in every behaviour of the handlers.        *)
THEOREM Invariance == Spec => []IInv
BY InitIInv, NextIInv, PTL DEF Spec

(* The types hold for any number of attempts, keys and contents.            *)
THEOREM TypeCorrect == Spec => []TypeOK
<1>1. IInv => TypeOK
    BY DEF IInv
<1> QED BY <1>1, Invariance, PTL

(* However many attempts race (PostgresRepository.Create), a key has one    *)
(* payment.                                                                 *)
THEOREM KeysUnique == Spec => []OnePaymentPerKey
<1>1. IInv => OnePaymentPerKey
    BY DEF IInv
<1> QED BY <1>1, Invariance, PTL

(* Every success answered by createPaymentHandler is durable: the payment   *)
(* and its outbox event are stored, with the content asked for.             *)
THEOREM SuccessDurable == Spec => []AnswersDurable
<1>1. IInv => AnswersDurable
    BY DEF IInv
<1> QED BY <1>1, Invariance, PTL

(* A conflict is answered only when the key already holds other content: a  *)
(* retry with the same normalised content is never refused.                 *)
THEOREM ConflictsReal == Spec => []ConflictJustified
<1>1. IInv => ConflictJustified
    BY DEF IInv
<1> QED BY <1>1, Invariance, PTL

(* Whoever loses the race on a key finds the winner's row, although it is   *)
(* read by a second statement (PostgresRepository.Create).                  *)
THEOREM LoserFindsWinner == Spec => []ReplayFindsOriginal
<1>1. IInv => ReplayFindsOriginal
    BY DEF IInv
<1> QED BY <1>1, Invariance, PTL
=============================================================================
