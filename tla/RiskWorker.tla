----------------------------- MODULE RiskWorker -----------------------------
(***************************************************************************)
(* The risk service: workers of one consumer group read payments.created,  *)
(* score each event with the features in Redis, publish the decision (or,  *)
(* for a malformed record, the evidence of its rejection) and commit the   *)
(* offset.  A failure seeks back to the record and tries it again.         *)
(*                                                                         *)
(* pc: "down", "poll", then the statements of _handle and process in their *)
(* order: "load" (cached decision), "observe" (features and scoring),      *)
(* "save", "publish", "commit".                                            *)
(*                                                                         *)
(* Offsets are counted from 1; committed is the offset to resume from.     *)
(* The position of a partition is that of its owner, who starts at the     *)
(* committed offset.  A worker that lost a partition while it handles one  *)
(* of its records goes on until its commit is refused.                     *)
(***************************************************************************)
EXTENDS FeatureStore, RiskScoring, Sequences

CONSTANTS
    Workers, Partitions,
    Logs,           \* possible contents of payments.created
    Malformed,      \* a record that parse_payment_created refuses
    Terms,          \* event -> amount, riskyMerchant, highRiskCountry
    Versions,       \* versions of the model artifact
    Answers,        \* version -> results the model may give
    Fallback,       \* MODEL_FALLBACK_VERSION: no model could be loaded
    MaxFaults,      \* bound: failures, rebalances, crashes
    MaxExpiries     \* bound: keys that expire

ASSUME WorkerAssumption ==
    /\ Logs \subseteq [Partitions -> Seq(Events \cup {Malformed})]
    /\ Terms \in [Events -> [amount : Nat \ {0}, riskyMerchant : BOOLEAN, highRiskCountry : BOOLEAN]]
    /\ Answers \in [Versions -> SUBSET {m \in ModelResults : m.available}]
    /\ Malformed \notin Events /\ Fallback \notin Versions /\ None \notin Workers \cup {Malformed}
    /\ MaxFaults \in Nat /\ MaxExpiries \in Nat

VARIABLES
    log,         \* payments.created
    committed,   \* per partition, the group's committed offset
    owner,       \* per partition, the worker it is assigned to
    position,    \* per partition, the offset its owner reads next
    pc,          \* per worker, its next statement
    job,         \* per worker, the record it handles
    model,       \* per worker, the model loaded when it started
    produced,    \* records in risk.decisions and risk.invalid-events
    unacked,     \* per worker, records still in its producer after a timeout
    faults, expiries

group == <<committed, owner, position>>
vars == <<redis, log, group, pc, job, model, produced, unacked, faults, expiries>>

Decisions == [event : Events, version : Versions \cup {Fallback}, verdict : Verdicts,
              features : Snapshot(Workers)]
Outputs == [topic : {"risk.decisions"}, value : Decisions]
           \cup [topic : {"risk.invalid-events"}, value : Partitions \X (Nat \ {0})]
Jobs == [partition : Partitions, offset : Nat \ {0}, record : Events \cup {Malformed},
         decision : Decisions \cup {None}]

ASSUME AbsentAssumption == None \notin Snapshot(Workers) \cup Decisions

TypeOK ==
    /\ snapshots \in [Events -> Snapshot(Workers) \cup {None}]
    /\ velocity \in [Customers -> SUBSET Events]
    /\ devices \in [Customers -> SUBSET Devices]
    /\ baseline \in [Customers -> Countries \cup {None}]
    /\ decisions \in [Events -> Decisions \cup {None}]
    /\ log \in Logs
    /\ committed \in [Partitions -> Nat \ {0}]
    /\ owner \in [Partitions -> Workers \cup {None}]
    /\ position \in [Partitions -> Nat \ {0}]
    /\ pc \in [Workers -> {"down", "poll", "load", "observe", "save", "publish", "commit"}]
    /\ job \in [Workers -> Jobs \cup {None}]
    /\ model \in [Workers -> Versions \cup {Fallback}]
    /\ produced \subseteq Outputs
    /\ unacked \in [Workers -> SUBSET Outputs]
    /\ faults \in 0..MaxFaults
    /\ expiries \in 0..MaxExpiries

Init ==
    /\ StoreInit
    /\ log \in Logs
    /\ committed = [p \in Partitions |-> 1]
    /\ owner = [p \in Partitions |-> None]
    /\ position = [p \in Partitions |-> 1]
    /\ pc = [w \in Workers |-> "down"]
    /\ job = [w \in Workers |-> None]
    /\ model = [w \in Workers |-> Fallback]
    /\ produced = {}
    /\ unacked = [w \in Workers |-> {}]
    /\ faults = 0 /\ expiries = 0

\* One more failure.
Fault == faults < MaxFaults /\ faults' = faults + 1

Goto(w, label) == pc' = [pc EXCEPT ![w] = label]

----------------------------------------------------------------------------
\* main: a worker starts with the model artifact it finds, or without one.
Start(w) ==
    /\ pc[w] = "down" /\ Goto(w, "poll")
    /\ \E v \in Versions \cup {Fallback} : model' = [model EXCEPT ![w] = v]
    /\ UNCHANGED <<redis, log, group, job, produced, unacked, faults, expiries>>

\* The group gives a partition to a polling worker ...
Assign(p, w) ==
    /\ owner[p] = None /\ pc[w] = "poll"
    /\ owner' = [owner EXCEPT ![p] = w]
    /\ position' = [position EXCEPT ![p] = committed[p]]
    /\ UNCHANGED <<redis, log, committed, pc, job, model, produced, unacked, faults, expiries>>

\* ... and takes it away, also while the worker handles one of its records.
Revoke(p) ==
    /\ owner[p] # None /\ Fault
    /\ owner' = [owner EXCEPT ![p] = None]
    /\ UNCHANGED <<redis, log, committed, position, pc, job, model, produced, unacked, expiries>>

\* The worker is gone, with its assignment and what its producer still held.
Exit(w) ==
    /\ Goto(w, "down")
    /\ job' = [job EXCEPT ![w] = None]
    /\ owner' = [p \in Partitions |-> IF owner[p] = w THEN None ELSE owner[p]]
    /\ unacked' = [unacked EXCEPT ![w] = {}]
    /\ UNCHANGED position

\* Crash, shutdown or a fatal error of the consumer.
Crash(w) ==
    /\ pc[w] # "down" /\ Fault /\ Exit(w)
    /\ UNCHANGED <<redis, log, committed, model, produced, expiries>>

\* Mutant: no seek, the consumer goes on with the next record.
Retry_NoSeek(w, queue) ==
    \/ /\ Goto(w, "poll")
       /\ job' = [job EXCEPT ![w] = None]
       /\ unacked' = [unacked EXCEPT ![w] = queue]
       /\ UNCHANGED <<owner, position>>
    \/ Exit(w)

\* _retry: seek back to the record; a seek that raises ends the worker.
Retry(w, queue) ==
    \/ /\ Goto(w, "poll")
       /\ job' = [job EXCEPT ![w] = None]
       /\ position' = [p \in Partitions |-> IF p = job[w].partition /\ owner[p] = w
                                            THEN job[w].offset ELSE position[p]]
       /\ unacked' = [unacked EXCEPT ![w] = queue]
       /\ UNCHANGED owner
    \/ Exit(w)

\* poll returns a record and _handle parses it.
Poll(w, p) ==
    /\ pc[w] = "poll" /\ owner[p] = w /\ position[p] <= Len(log[p])
    /\ job' = [job EXCEPT ![w] = [partition |-> p, offset |-> position[p],
                                  record |-> log[p][position[p]], decision |-> None]]
    /\ Goto(w, IF log[p][position[p]] = Malformed THEN "publish" ELSE "load")
    /\ position' = [position EXCEPT ![p] = @ + 1]
    /\ UNCHANGED <<redis, log, committed, owner, model, produced, unacked, faults, expiries>>

\* load_decision: a decision that is cached is published as it is.
LoadDecision(w) ==
    /\ pc[w] = "load"
    /\ job' = [job EXCEPT ![w].decision = decisions[job[w].record]]
    /\ Goto(w, IF decisions[job[w].record] = None THEN "observe" ELSE "publish")
    /\ UNCHANGED <<redis, log, group, model, produced, unacked, faults, expiries>>

SignalsOf(e, f) ==
    [amount |-> Terms[e].amount, velocity |-> f.velocity, newDevice |-> f.newDevice,
     crossBorder |-> f.crossBorder, riskyMerchant |-> Terms[e].riskyMerchant,
     highRiskCountry |-> Terms[e].highRiskCountry]

\* The decisions process may build from features f with model v: scoring
\* with a loaded model may fail at any time.
Scored(e, f, v) ==
    {[event |-> e, version |-> Fallback, verdict |-> Decide(SignalsOf(e, f), ModelUnavailable), features |-> f]}
    \cup IF v = Fallback THEN {}
         ELSE {[event |-> e, version |-> v, verdict |-> Decide(SignalsOf(e, f), m), features |-> f] : m \in Answers[v]}

\* observe, then rules and model.
ObserveAndScore(w) ==
    LET e == job[w].record
    IN  /\ pc[w] = "observe" /\ Goto(w, "save")
        /\ Observe(e, w)
        /\ \E d \in Scored(e, snapshots'[e], model[w]) : job' = [job EXCEPT ![w].decision = d]
        /\ UNCHANGED <<decisions, log, group, model, produced, unacked, faults, expiries>>

\* Mutant: publishes its own decision, whatever the script returned.
Save_Own(w) ==
    /\ pc[w] = "save" /\ Goto(w, "publish")
    /\ SaveDecision(job[w].record, job[w].decision)
    /\ UNCHANGED <<features, log, group, job, model, produced, unacked, faults, expiries>>

\* save_decision: the decision that was cached first is the one to publish.
Save(w) ==
    /\ pc[w] = "save" /\ Goto(w, "publish")
    /\ SaveDecision(job[w].record, job[w].decision)
    /\ job' = [job EXCEPT ![w].decision = decisions'[job[w].record]]
    /\ UNCHANGED <<features, log, group, model, produced, unacked, faults, expiries>>

\* Redis cannot be reached, or its answer is lost after the script has run.
RedisFails(w) ==
    /\ pc[w] \in {"load", "observe", "save"} /\ Fault
    /\ Retry(w, unacked[w])
    /\ \/ UNCHANGED redis
       \/ pc[w] = "observe" /\ Observe(job[w].record, w) /\ UNCHANGED decisions
       \/ pc[w] = "save" /\ SaveDecision(job[w].record, job[w].decision) /\ UNCHANGED features
    /\ UNCHANGED <<log, committed, model, produced, expiries>>

\* What the worker publishes: its decision, or evidence of the rejection.
Output(w) ==
    IF job[w].record = Malformed
    THEN [topic |-> "risk.invalid-events", value |-> <<job[w].partition, job[w].offset>>]
    ELSE [topic |-> "risk.decisions", value |-> job[w].decision]

\* The flush returns with nothing left in the producer and no error.
Publish(w) ==
    /\ pc[w] = "publish" /\ unacked[w] = {}
    /\ produced' = produced \cup {Output(w)}
    /\ Goto(w, "commit")
    /\ UNCHANGED <<redis, log, group, job, model, unacked, faults, expiries>>

\* Mutant: a flush that times out is taken for a success.
PublishFails_Ignored(w) ==
    /\ pc[w] = "publish" /\ Fault
    /\ unacked' = [unacked EXCEPT ![w] = @ \cup {Output(w)}]
    /\ Goto(w, "commit")
    /\ UNCHANGED <<redis, log, group, job, model, produced, expiries>>

\* The delivery fails before or after the broker appended the record, or the
\* flush times out and the record stays in the producer.
PublishFails(w) ==
    /\ pc[w] = "publish" /\ Fault
    /\ \/ Retry(w, unacked[w]) /\ UNCHANGED produced
       \/ Retry(w, unacked[w]) /\ produced' = produced \cup {Output(w)}
       \/ Retry(w, unacked[w] \cup {Output(w)}) /\ UNCHANGED produced
    /\ UNCHANGED <<redis, log, committed, model, expiries>>

\* A record left in a producer is delivered after all, or given up.
LateDelivery(w) ==
    /\ \E r \in unacked[w] :
         /\ unacked' = [unacked EXCEPT ![w] = @ \ {r}]
         /\ produced' \in {produced, produced \cup {r}}
    /\ UNCHANGED <<redis, log, group, pc, job, model, faults, expiries>>

\* The broker accepts the offset of the partition's owner.
Commit(w) ==
    /\ pc[w] = "commit" /\ owner[job[w].partition] = w
    /\ committed' = [committed EXCEPT ![job[w].partition] = job[w].offset + 1]
    /\ Goto(w, "poll")
    /\ job' = [job EXCEPT ![w] = None]
    /\ UNCHANGED <<redis, log, owner, position, model, produced, unacked, faults, expiries>>

\* A former owner's commit is refused.
CommitRefused(w) ==
    /\ pc[w] = "commit" /\ owner[job[w].partition] # w
    /\ Retry(w, unacked[w])
    /\ UNCHANGED <<redis, log, committed, model, produced, faults, expiries>>

\* The commit fails, or its answer is lost.
CommitFails(w) ==
    /\ pc[w] = "commit" /\ owner[job[w].partition] = w /\ Fault
    /\ Retry(w, unacked[w])
    /\ committed' \in {committed, [committed EXCEPT ![job[w].partition] = job[w].offset + 1]}
    /\ UNCHANGED <<redis, log, model, produced, expiries>>

KeyExpires ==
    /\ expiries < MaxExpiries /\ expiries' = expiries + 1
    /\ Expire
    /\ UNCHANGED <<log, group, pc, job, model, produced, unacked, faults>>

\* The statements of a worker at work.
WorkerStep(w) ==
    \/ Start(w) \/ (\E p \in Partitions : Poll(w, p)) \/ LoadDecision(w) \/ ObserveAndScore(w)
    \/ Save(w) \/ Publish(w) \/ LateDelivery(w) \/ Commit(w) \/ CommitRefused(w)

Next ==
    \/ \E w \in Workers : Start(w)
    \/ \E w \in Workers, p \in Partitions : Assign(p, w)
    \/ \E p \in Partitions : Revoke(p)
    \/ \E w \in Workers : Crash(w)
    \/ \E w \in Workers, p \in Partitions : Poll(w, p)
    \/ \E w \in Workers : LoadDecision(w)
    \/ \E w \in Workers : ObserveAndScore(w)
    \/ \E w \in Workers : Save(w)
    \/ \E w \in Workers : RedisFails(w)
    \/ \E w \in Workers : Publish(w)
    \/ \E w \in Workers : PublishFails(w)
    \/ \E w \in Workers : LateDelivery(w)
    \/ \E w \in Workers : Commit(w)
    \/ \E w \in Workers : CommitRefused(w)
    \/ \E w \in Workers : CommitFails(w)
    \/ KeyExpires

Spec == Init /\ [][Next]_vars

(* A started process runs and is restarted when it ends; the group assigns  *)
(* every partition; a producer resolves what it still holds within          *)
(* message.timeout.ms.                                                      *)
FairSpec ==
    /\ Spec
    /\ \A w \in Workers : WF_vars(WorkerStep(w))
    /\ \A p \in Partitions : WF_vars(\E w \in Workers : Assign(p, w))

----------------------------------------------------------------------------
PublishedDecisions == {r.value : r \in {x \in produced : x.topic = "risk.decisions"}}

(* "Input offsets advance only after a decision or quarantine event is      *)
(* published": every record below a committed offset has its decision in    *)
(* risk.decisions or its evidence in risk.invalid-events.                   *)
NoInputSkipped ==
    \A p \in Partitions : \A o \in 1..(committed[p] - 1) :
        IF log[p][o] = Malformed
        THEN [topic |-> "risk.invalid-events", value |-> <<p, o>>] \in produced
        ELSE \E d \in PublishedDecisions : d.event = log[p][o]

(* While nothing has expired, everything ever published for an event is the *)
(* same decision: no retry, restart, other model or former owner of the     *)
(* partition "produce[s] a different answer".                               *)
OneAnswerPerEvent ==
    expiries = 0 => \A d, f \in PublishedDecisions : d.event = f.event => d = f

(* While nothing has expired, exactly one event of a customer's payments on *)
(* a device is a first use, and all agree on the customer's home country:   *)
(* a redelivered event does not find its own trace and look familiar.       *)
FirstUseFlaggedOnce ==
    expiries = 0 => \A e \in Events : snapshots[e] # None =>
        LET same == {f \in Events : snapshots[f] # None /\ Payload[f].customer = Payload[e].customer}
        IN  /\ Cardinality({f \in same : Payload[f].device = Payload[e].device /\ snapshots[f].newDevice}) = 1
            /\ \A f \in same : snapshots[f].baseline = snapshots[e].baseline

\* The customer's events in e's window among those observed so far.
InWindow(e) ==
    {f \in Events : /\ snapshots[f] # None /\ Payload[f].customer = Payload[e].customer
                    /\ OccurredAt(f) \in (OccurredAt(e) - VelocityWindow)..OccurredAt(e)}

(* The velocity given to an event never exceeds the number of the           *)
(* customer's observed events in its window, and equals it unless a later   *)
(* event was observed before it: pruning for one event loses nothing that   *)
(* the next one in order needs.                                             *)
VelocityExact ==
    [][expiries' = 0 => \A e \in Events : snapshots[e] = None /\ snapshots'[e] # None =>
         LET inOrder == \A f \in Events : snapshots[f] # None /\ Payload[f].customer = Payload[e].customer
                                            => OccurredAt(f) <= OccurredAt(e)
             v == snapshots'[e].velocity
         IN  v <= Cardinality(InWindow(e)') /\ (inOrder => v = Cardinality(InWindow(e)'))]_vars

(* Every record of the topic is eventually passed by the group's offset.    *)
EveryInputSettles == <>(\A p \in Partitions : committed[p] = Len(log[p]) + 1)
=============================================================================
