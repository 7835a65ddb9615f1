-------------------------- MODULE MCServiceProcess --------------------------
(***************************************************************************)
(* ServiceProcess on environments whose durations are ticks of about five  *)
(* seconds.                                                                *)
(***************************************************************************)
EXTENDS ServiceProcess, TLC

MCReviewers == {"ann", "bob"}
MCRawIds    == {"ann", " ann ", "bob", " "}
MCRawRoles  == {"risk_reviewer", "risk_auditor", " risk_auditor ", "admin"}
MCTrimRole  == [r \in MCRawRoles |-> CASE r = "admin" -> Malformed [] r = "risk_reviewer" -> r [] OTHER -> "risk_auditor"]
MCTokens    == {"t1", "t2"}
MCTrimSpace == [i \in MCRawIds |-> CASE i = "bob" -> "bob" [] i = " " -> Malformed [] OTHER -> "ann"]

Credential(i, r, t) == [reviewer |-> i, role |-> r, token |-> t]
TwoReviewers == <<Credential(" ann ", "risk_reviewer", "t1"), Credential("bob", " risk_auditor ", "t2")>>

(* Every timeout set, every mandatory variable present: accepted by all.     *)
Timeouts == [k \in UNION {Durations[p] : p \in Kinds} |-> 1]
Good ==
    [READINESS_TIMEOUT |-> 1, DASHBOARD_REQUEST_TIMEOUT |-> 2, SHUTDOWN_TIMEOUT |-> 2,
     DATABASE_URL |-> "postgres", KAFKA_BROKERS |-> <<"", "b1">>,
     REVIEW_AUTH_CREDENTIALS_JSON |-> TwoReviewers]
    @@ Timeouts @@ [k \in Keys |-> Absent]

With(k, v) == [Good EXCEPT ![k] = v]

Credentials(list) == With("REVIEW_AUTH_CREDENTIALS_JSON", list)
Nothing == [k \in Keys |-> Absent]

(* Good environments, and for every check of a loader one that it refuses.   *)
MCEnvironments ==
    [api |->
        {Good, With("SHUTDOWN_TIMEOUT", 1), With("SHUTDOWN_TIMEOUT", 4),
         Nothing, With("DATABASE_URL", Malformed), With("LOG_LEVEL", Malformed),
         With("SHUTDOWN_TIMEOUT", -1), With("RECONCILIATION_GRACE_PERIOD", 0),
         Credentials(Malformed), Credentials(<<>>),
         \* the same id, the same token, a blank id, an unknown role
         Credentials(<<Credential("ann", "risk_reviewer", "t1"), Credential(" ann ", "risk_auditor", "t2")>>),
         Credentials(<<Credential("ann", "risk_reviewer", "t1"), Credential("bob", "risk_auditor", "t1")>>),
         Credentials(<<Credential(" ", "risk_auditor", "t1")>>),
         Credentials(<<Credential("ann", "admin", "t1")>>)},
     publisher |->
        {Good, Nothing, With("DATABASE_URL", Malformed),
         With("KAFKA_BROKERS", <<"">>), With("KAFKA_BROKERS", <<"b1", Malformed>>),
         With("OUTBOX_RETRY_MIN_BACKOFF", 2), With("OUTBOX_POLL_INTERVAL", 0),
         With("METRICS_SHUTDOWN_TIMEOUT", -1)},
     consumer |->
        {Good, With("DECISION_AUTO_OFFSET_RESET", "none"),
         With("DECISION_RETRY_BACKOFF", Malformed), With("METRICS_SHUTDOWN_TIMEOUT", -1)},
     reconciler |->
        {Good, Nothing, With("RECONCILIATION_GRACE_PERIOD", -1)}]

Send(route, header, valid) == [route |-> route, header |-> header, valid |-> valid]
MCInputs ==
    {Send("create", Malformed, TRUE), Send("create", Malformed, FALSE),
     Send("dashboard", "t2", TRUE), Send("resolve", "t2", TRUE),
     Send("metrics", Malformed, TRUE), Send("healthz", Malformed, TRUE)}
=============================================================================
