--------------------------- MODULE Configuration ---------------------------
(***************************************************************************)
(* What each process of the payment service reads from its environment,    *)
(* which environments it refuses, and what the constructors it calls       *)
(* afterwards demand of the settings.                                      *)
(*                                                                         *)
(* An environment maps every variable to Absent, to Malformed (a text that *)
(* its parser refuses), or to what its text means after TrimSpace: an      *)
(* integer for a duration, a sequence of entries for a list, else a name.  *)
(***************************************************************************)
EXTENDS Integers, Sequences

CONSTANTS
    Absent, Malformed,
    Reviewers,     \* reviewer ids of 1-255 characters without controls
    RawIds,        \* reviewer ids as written in the credentials
    TrimSpace,     \* raw id -> Reviewers, or Malformed when no valid id is left
    RawRoles,      \* roles as written in the credentials
    TrimRole,      \* raw role -> Roles, or Malformed when it is not a role
    Tokens         \* tokens of 32-512 characters without whitespace or controls

Roles == {"risk_reviewer", "risk_auditor"}

ASSUME TrimAssumption ==
    /\ TrimSpace \in [RawIds -> Reviewers \cup {Malformed}]
    /\ TrimRole \in [RawRoles -> Roles \cup {Malformed}]
ASSUME MarkerAssumption ==
    /\ Absent \notin Int /\ Malformed \notin Int \cup Tokens \cup Reviewers \cup Roles \cup {""}
    /\ Malformed # Absent

Kinds == {"api", "publisher", "consumer", "reconciler"}

\* The durations each process reads, with their defaults in milliseconds.
Durations ==
    [api        |-> {"READINESS_TIMEOUT", "PAYMENT_CREATE_TIMEOUT", "REVIEW_REQUEST_TIMEOUT",
                     "DASHBOARD_REQUEST_TIMEOUT", "METRICS_COLLECTION_TIMEOUT",
                     "RECONCILIATION_GRACE_PERIOD", "SHUTDOWN_TIMEOUT"},
     publisher  |-> {"OUTBOX_POLL_INTERVAL", "OUTBOX_PUBLISH_TIMEOUT", "OUTBOX_RETRY_MIN_BACKOFF",
                     "OUTBOX_RETRY_MAX_BACKOFF", "METRICS_SHUTDOWN_TIMEOUT"},
     consumer   |-> {"DECISION_POLL_TIMEOUT", "DECISION_PROCESS_TIMEOUT",
                     "DECISION_RETRY_BACKOFF", "METRICS_SHUTDOWN_TIMEOUT"},
     reconciler |-> {"RECONCILIATION_GRACE_PERIOD", "RECONCILIATION_TIMEOUT"}]

\* Names and addresses, for which only well-formedness matters.
Texts ==
    [api        |-> {"HTTP_ADDR", "LOG_LEVEL"},
     publisher  |-> {"KAFKA_TOPIC", "OUTBOX_METRICS_ADDR", "LOG_LEVEL"},
     consumer   |-> {"RISK_DECISIONS_TOPIC", "DECISION_CONSUMER_GROUP",
                     "DECISION_METRICS_ADDR", "LOG_LEVEL"},
     reconciler |-> {"LOG_LEVEL"}]

Defaults ==
    [READINESS_TIMEOUT |-> 1000, PAYMENT_CREATE_TIMEOUT |-> 3000, REVIEW_REQUEST_TIMEOUT |-> 3000,
     DASHBOARD_REQUEST_TIMEOUT |-> 5000, METRICS_COLLECTION_TIMEOUT |-> 1000,
     RECONCILIATION_GRACE_PERIOD |-> 30000, RECONCILIATION_TIMEOUT |-> 10000,
     SHUTDOWN_TIMEOUT |-> 10000, METRICS_SHUTDOWN_TIMEOUT |-> 5000,
     OUTBOX_POLL_INTERVAL |-> 250, OUTBOX_PUBLISH_TIMEOUT |-> 5000,
     OUTBOX_RETRY_MIN_BACKOFF |-> 100, OUTBOX_RETRY_MAX_BACKOFF |-> 5000,
     DECISION_POLL_TIMEOUT |-> 1000, DECISION_PROCESS_TIMEOUT |-> 5000, DECISION_RETRY_BACKOFF |-> 1000,
     DATABASE_URL |-> "", KAFKA_BROKERS |-> <<>>, REVIEW_AUTH_CREDENTIALS_JSON |-> <<>>,
     HTTP_ADDR |-> ":8080", OUTBOX_METRICS_ADDR |-> ":9091", DECISION_METRICS_ADDR |-> ":9092",
     KAFKA_TOPIC |-> "payments.created", RISK_DECISIONS_TOPIC |-> "risk.decisions",
     DECISION_CONSUMER_GROUP |-> "riskflow-decision-persistence-v1",
     DECISION_AUTO_OFFSET_RESET |-> "earliest", LOG_LEVEL |-> "info"]

Keys == DOMAIN Defaults

\* value: the setting of key k.
value(env, k) == IF env[k] = Absent THEN Defaults[k] ELSE env[k]

\* duration accepts the setting of k.
duration(env, k) == value(env, k) # Malformed /\ value(env, k) > 0

\* parseKafkaBrokers drops blank entries, refuses a malformed one, and refuses
\* a list that has no entry left.
Brokers(list) == SelectSeq(list, LAMBDA b : b # "")
parseKafkaBrokers(list) ==
    /\ \A i \in DOMAIN list : list[i] # Malformed
    /\ Brokers(list) # <<>>

----------------------------------------------------------------------------
(* Reviewer credentials: a sequence of [reviewer, role, token] records.     *)

Principal(c) == [reviewer |-> TrimSpace[c.reviewer], role |-> TrimRole[c.role]]

\* Mutant: two reviewers may be given the same token.
NewTokenAuthenticator_SharedTokens(credentials) ==
    /\ credentials # <<>>
    /\ \A i \in DOMAIN credentials :
          /\ TrimSpace[credentials[i].reviewer] \in Reviewers
          /\ TrimRole[credentials[i].role] \in Roles /\ credentials[i].token \in Tokens
    /\ \A i, j \in DOMAIN credentials : i # j =>
          TrimSpace[credentials[i].reviewer] # TrimSpace[credentials[j].reviewer]

\* NewTokenAuthenticator accepts the credentials: ids and roles count
\* after trimming, tokens by their digest.
NewTokenAuthenticator(credentials) ==
    /\ credentials # <<>>
    /\ \A i \in DOMAIN credentials :
          /\ TrimSpace[credentials[i].reviewer] \in Reviewers
          /\ TrimRole[credentials[i].role] \in Roles /\ credentials[i].token \in Tokens
    /\ \A i, j \in DOMAIN credentials : i # j =>
          /\ TrimSpace[credentials[i].reviewer] # TrimSpace[credentials[j].reviewer]
          /\ credentials[i].token # credentials[j].token

\* Authenticate: every credential is compared, so the last match wins.  An
\* Authorization header that is not "Bearer" and one more word is Malformed.
Authenticate(credentials, header) ==
    LET match == {i \in DOMAIN credentials : credentials[i].token = header}
    IN  IF header = Malformed \/ match = {} THEN Malformed
        ELSE Principal(credentials[CHOOSE i \in match : \A j \in match : j <= i])

\* parseReviewCredentials: at most 100 credentials that make an authenticator.
parseReviewCredentials(list) ==
    list # Malformed /\ Len(list) <= 100 /\ NewTokenAuthenticator(list)

----------------------------------------------------------------------------
(* Which environments a process accepts.                                    *)

Common(kind, env) ==
    /\ value(env, "DATABASE_URL") # ""
    /\ \A k \in Durations[kind] : duration(env, k)
    /\ \A k \in Texts[kind] : value(env, k) # Malformed

load(env) ==
    /\ Common("api", env)
    /\ parseReviewCredentials(value(env, "REVIEW_AUTH_CREDENTIALS_JSON"))

\* Mutant: the two backoffs are not compared.
loadPublisher_AnyBackoff(env) ==
    Common("publisher", env) /\ parseKafkaBrokers(value(env, "KAFKA_BROKERS"))

loadPublisher(env) ==
    /\ Common("publisher", env)
    /\ parseKafkaBrokers(value(env, "KAFKA_BROKERS"))
    /\ value(env, "OUTBOX_RETRY_MAX_BACKOFF") >= value(env, "OUTBOX_RETRY_MIN_BACKOFF")

loadDecisionConsumer(env) ==
    /\ Common("consumer", env)
    /\ parseKafkaBrokers(value(env, "KAFKA_BROKERS"))
    /\ value(env, "DECISION_AUTO_OFFSET_RESET") \in {"earliest", "latest"}

loadReconciler(env) == Common("reconciler", env)

Loads(kind, env) ==
    CASE kind = "api"        -> load(env)
      [] kind = "publisher"  -> loadPublisher(env)
      [] kind = "consumer"   -> loadDecisionConsumer(env)
      [] kind = "reconciler" -> loadReconciler(env)

----------------------------------------------------------------------------
(* What the constructors that run() calls after loading refuse.             *)

NewReconciler(env) == value(env, "RECONCILIATION_GRACE_PERIOD") > 0

NewKafkaPublisher(env) == Brokers(value(env, "KAFKA_BROKERS")) # <<>>

NewOutboxStore(env) ==
    /\ value(env, "OUTBOX_RETRY_MIN_BACKOFF") > 0
    /\ value(env, "OUTBOX_RETRY_MAX_BACKOFF") >= value(env, "OUTBOX_RETRY_MIN_BACKOFF")

NewOutboxWorker(env) ==
    /\ value(env, "OUTBOX_POLL_INTERVAL") > 0 /\ value(env, "OUTBOX_PUBLISH_TIMEOUT") > 0
    /\ NewOutboxStore(env)

NewKafkaConsumer(env) ==
    /\ Brokers(value(env, "KAFKA_BROKERS")) # <<>>
    /\ value(env, "DECISION_AUTO_OFFSET_RESET") \in {"earliest", "latest"}

NewDecisionWorker(env) ==
    \A k \in {"DECISION_POLL_TIMEOUT", "DECISION_PROCESS_TIMEOUT", "DECISION_RETRY_BACKOFF"} :
        value(env, k) > 0

Constructs(kind, env) ==
    CASE kind = "api" -> /\ NewReconciler(env)
                         /\ NewTokenAuthenticator(value(env, "REVIEW_AUTH_CREDENTIALS_JSON"))
      [] kind = "publisher"  -> NewKafkaPublisher(env) /\ NewOutboxStore(env) /\ NewOutboxWorker(env)
      [] kind = "consumer"   -> NewKafkaConsumer(env) /\ NewDecisionWorker(env)
      [] kind = "reconciler" -> NewReconciler(env)
=============================================================================
