------------------------- MODULE PaymentAcceptance --------------------------
(***************************************************************************)
(* POST /v1/payments: HTTP handlers of any number of API processes insert  *)
(* a payment and its outbox event in one transaction, with the unique      *)
(* idempotency key as the arbiter between them.                            *)
(*                                                                         *)
(* Every attempt (one HTTP request; a client's retry is another attempt)   *)
(* draws a fresh payment id, which is represented by the attempt itself,   *)
(* as is the outbox event by its aggregate id.  A fingerprint is           *)
(* represented by the normalised content it is the hash of.                *)
(*                                                                         *)
(* pc: "idle" (not sent), "insert" (INSERT INTO payments), "select" (the   *)
(* key was taken: load the row), "commit" (row inserted; outbox INSERT and *)
(* COMMIT are next), "done" (answered).                                    *)
(***************************************************************************)
EXTENDS Naturals

CONSTANTS
    Attempts,     \* HTTP requests
    Headers,      \* Idempotency-Key header values as sent
    Bodies,       \* request bodies as sent
    Keys,         \* normalised idempotency keys
    Contents,     \* normalised payment contents
    normalizeIdempotencyKey,   \* header -> key, or Invalid
    NormalizeAndValidate,      \* body -> content, or Invalid
    MaxFaults,    \* bound: failed statements, expired deadlines, lost answers
    Invalid, None

ASSUME NormalisationAssumption ==
    /\ normalizeIdempotencyKey \in [Headers -> Keys \cup {Invalid}]
    /\ NormalizeAndValidate \in [Bodies -> Contents \cup {Invalid}]
    /\ Invalid \notin Keys \cup Contents
ASSUME AcceptanceBounds == MaxFaults \in Nat /\ None \notin Attempts \cup Keys \cup Contents

VARIABLES
    payments,   \* committed rows of payments
    outbox,     \* committed rows of outbox_events
    inserting,  \* per key, the open transaction that has inserted it
    pc,         \* per attempt, its next statement
    request,    \* per attempt, the candidate payment's key and content
    reply,      \* per attempt, the HTTP answer
    faults

tables == <<payments, outbox>>
vars == <<tables, inserting, pc, request, reply, faults>>

Successes == {"created", "replayed"}      \* 201 and 200
Failures == {"request_timeout", "internal_error"}                 \* 504 and 500
Refusals == {"bad_request", "idempotency_conflict"} \cup Failures
Replies == [code : Successes, payment : Attempts] \cup [code : Refusals, payment : {None}]

TypeOK ==
    /\ payments \subseteq [id : Attempts, key : Keys, content : Contents]
    /\ outbox \subseteq Attempts
    /\ inserting \in [Keys -> Attempts \cup {None}]
    /\ pc \in [Attempts -> {"idle", "insert", "select", "commit", "done"}]
    /\ request \in [Attempts -> [key : Keys, content : Contents] \cup {None}]
    /\ reply \in [Attempts -> Replies \cup {None}]
    /\ faults \in 0..MaxFaults

Init ==
    /\ payments = {}
    /\ outbox = {}
    /\ inserting = [k \in Keys |-> None]
    /\ pc = [a \in Attempts |-> "idle"]
    /\ request = [a \in Attempts |-> None]
    /\ reply = [a \in Attempts |-> None]
    /\ faults = 0

\* One more failure of the database, the network or the process.
Fault == faults < MaxFaults /\ faults' = faults + 1

\* The payment row of key k, as a set of at most one row.
PaymentsOf(k) == {p \in payments : p.key = k}

\* The handler ends the attempt with an answer; its transaction, if one is
\* still open, is rolled back by the deferred Rollback.
Answer(a, code, payment) ==
    /\ reply' = [reply EXCEPT ![a] = [code |-> code, payment |-> payment]]
    /\ pc' = [pc EXCEPT ![a] = "done"]
    /\ inserting' = [k \in Keys |-> IF inserting[k] = a THEN None ELSE inserting[k]]

----------------------------------------------------------------------------
\* The header and the body pass validation.
Acceptable(h, b) == normalizeIdempotencyKey[h] # Invalid /\ NormalizeAndValidate[b] # Invalid

\* The handler decodes the body, Service.Create normalises key and body and
\* builds the candidate payment and its event.
Receive(a, h, b) ==
    /\ pc[a] = "idle"
    /\ IF Acceptable(h, b)
       THEN /\ request' = [request EXCEPT ![a] = [key     |-> normalizeIdempotencyKey[h],
                                                  content |-> NormalizeAndValidate[b]]]
            /\ pc' = [pc EXCEPT ![a] = "insert"]
            /\ UNCHANGED <<inserting, reply>>
       ELSE Answer(a, "bad_request", None) /\ UNCHANGED request
    /\ UNCHANGED <<tables, faults>>

\* Mutant: looks for a stored row only, as without the unique constraint.
Insert_NoArbiter(a) ==
    LET k == request[a].key
    IN  /\ pc[a] = "insert"
        /\ IF PaymentsOf(k) # {}
           THEN pc' = [pc EXCEPT ![a] = "select"] /\ UNCHANGED inserting
           ELSE pc' = [pc EXCEPT ![a] = "commit"] /\ inserting' = [inserting EXCEPT ![k] = a]
        /\ UNCHANGED <<tables, request, reply, faults>>

\* Mutant: does not wait for the open transaction that inserted the key.
Insert_NoWait(a) ==
    LET k == request[a].key
    IN  /\ pc[a] = "insert"
        /\ IF PaymentsOf(k) # {} \/ inserting[k] # None
           THEN pc' = [pc EXCEPT ![a] = "select"] /\ UNCHANGED inserting
           ELSE pc' = [pc EXCEPT ![a] = "commit"] /\ inserting' = [inserting EXCEPT ![k] = a]
        /\ UNCHANGED <<tables, request, reply, faults>>

\* INSERT ... ON CONFLICT (idempotency_key) DO NOTHING: waits for an open
\* transaction that inserted the same key, then either finds the key taken
\* (no row returned) or inserts the candidate.
Insert(a) ==
    LET k == request[a].key
    IN  /\ pc[a] = "insert" /\ inserting[k] = None
        /\ IF PaymentsOf(k) # {}
           THEN pc' = [pc EXCEPT ![a] = "select"] /\ UNCHANGED inserting
           ELSE pc' = [pc EXCEPT ![a] = "commit"] /\ inserting' = [inserting EXCEPT ![k] = a]
        /\ UNCHANGED <<tables, request, reply, faults>>

\* Mutant: replays whatever is stored under the key.
LoadExisting_NoFingerprint(a) ==
    /\ pc[a] = "select"
    /\ \E p \in PaymentsOf(request[a].key) : Answer(a, "replayed", p.id)
    /\ UNCHANGED <<tables, request, faults>>

\* Mutant: any use of a taken key is a conflict.
LoadExisting_AlwaysConflict(a) ==
    /\ pc[a] = "select"
    /\ Answer(a, "idempotency_conflict", None)
    /\ UNCHANGED <<tables, request, faults>>

\* The stored fingerprint is the candidate's.
SameFingerprint(p, a) == p.content = request[a].content

\* The row of the taken key is loaded and its fingerprint compared.
LoadExisting(a) ==
    /\ pc[a] = "select"
    /\ \/ /\ PaymentsOf(request[a].key) = {}
          /\ Answer(a, "internal_error", None)
       \/ \E p \in PaymentsOf(request[a].key) :
             IF SameFingerprint(p, a)
             THEN Answer(a, "replayed", p.id)
             ELSE Answer(a, "idempotency_conflict", None)
    /\ UNCHANGED <<tables, request, faults>>

\* The outbox row is inserted and the transaction commits; the answer of the
\* COMMIT arrives, or is lost or too late and the client is told of a failure.
Commit(a) ==
    /\ pc[a] = "commit"
    /\ payments' = payments \cup {[id |-> a, key |-> request[a].key, content |-> request[a].content]}
    /\ outbox' = outbox \cup {a}
    /\ \/ Answer(a, "created", a) /\ UNCHANGED faults
       \/ \E c \in Failures : Answer(a, c, None) /\ Fault
    /\ UNCHANGED request

\* Mutant: the failed transaction is left open.
CreateFails_LeavesOpen(a) ==
    /\ pc[a] \in {"insert", "select", "commit"} /\ Fault
    /\ \E c \in Failures : reply' = [reply EXCEPT ![a] = [code |-> c, payment |-> None]]
    /\ pc' = [pc EXCEPT ![a] = "done"]
    /\ UNCHANGED <<tables, inserting, request>>

\* A statement fails, the deadline expires (also while waiting for another
\* attempt), the client goes away or the process dies: rollback.
CreateFails(a) ==
    /\ pc[a] \in {"insert", "select", "commit"} /\ Fault
    /\ \E c \in Failures : Answer(a, c, None)
    /\ UNCHANGED <<tables, request>>

\* The steps of a handler that is at work.
HandlerStep(a) == Insert(a) \/ LoadExisting(a) \/ Commit(a)

Next ==
    \/ \E a \in Attempts, h \in Headers, b \in Bodies : Receive(a, h, b)
    \/ \E a \in Attempts : Insert(a)
    \/ \E a \in Attempts : LoadExisting(a)
    \/ \E a \in Attempts : Commit(a)
    \/ \E a \in Attempts : CreateFails(a)

Spec == Init /\ [][Next]_vars

(* A handler that was started runs; clients need not send anything.         *)
FairSpec == Spec /\ \A a \in Attempts : WF_vars(HandlerStep(a))

----------------------------------------------------------------------------
(* However many attempts with one key race, one payment is stored           *)
(* ("PostgreSQL's unique idempotency key is the concurrency arbiter across  *)
(* all API instances").                                                     *)
OnePaymentPerKey == \A p, q \in payments : p.key = q.key => p = q

(* A client told 200 or 201 was told the id of a stored payment with the    *)
(* key and the content it asked for, whose event is in the outbox; with     *)
(* OnePaymentPerKey all successful answers for a key name the same payment. *)
AnswersDurable ==
    \A a \in Attempts : reply[a] # None /\ reply[a].code \in Successes =>
        /\ [id |-> reply[a].payment, key |-> request[a].key, content |-> request[a].content] \in payments
        /\ reply[a].payment \in outbox

(* 409 is answered only for a key that holds another payment content: a     *)
(* retry of the same normalised request is never refused as a conflict.     *)
ConflictJustified ==
    \A a \in Attempts : reply[a] # None /\ reply[a].code = "idempotency_conflict" =>
        \E p \in PaymentsOf(request[a].key) : p.content # request[a].content

(* An attempt whose INSERT returned no row finds the row that was in its    *)
(* way: "load idempotent payment" never meets an empty result.              *)
ReplayFindsOriginal == \A a \in Attempts : pc[a] = "select" => PaymentsOf(request[a].key) # {}

(* Every attempt is answered: nobody waits for ever on the key of an        *)
(* attempt that failed.                                                     *)
EveryAttemptAnswered == \A a \in Attempts : pc[a] = "insert" ~> pc[a] = "done"
=============================================================================
