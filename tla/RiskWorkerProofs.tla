-------------------------- MODULE RiskWorkerProofs --------------------------
(***************************************************************************)
(* Proofs about the risk service: the types of its state, that no record   *)
(* of payments.created is passed without an output, that an event has one  *)
(* answer, and that the features given to events agree with each other.    *)
(***************************************************************************)
EXTENDS RiskWorker, FiniteSetTheorems, TLAPS

AtWork == {"load", "observe", "save", "publish", "commit"}

(* A worker handles the record at its job's offset; from save on it has a   *)
(* decision for the record's event, unless the record is malformed.         *)
HoldsJob ==
    \A w \in Workers :
        /\ pc[w] \in AtWork =>
              job[w] \in Jobs /\ job[w].record = log[job[w].partition][job[w].offset]
        /\ pc[w] \in {"load", "observe", "save"} => job[w].record # Malformed
        /\ pc[w] \in {"save", "publish", "commit"} /\ job[w].record # Malformed =>
              job[w].decision # None /\ job[w].decision.event = job[w].record

(* The decision cached for an event is about the event.                     *)
CachedByEvent == \A e \in Events : decisions[e] # None => decisions[e].event = e

IInv == TypeOK /\ HoldsJob /\ CachedByEvent

(* The record at offset o of partition p has its output.                    *)
Settled(p, o) ==
    IF log[p][o] = Malformed
    THEN [topic |-> "risk.invalid-events", value |-> <<p, o>>] \in produced
    ELSE \E d \in PublishedDecisions : d.event = log[p][o]

(* A worker commits only a record whose output is in a topic.               *)
Persisted == \A w \in Workers : pc[w] = "commit" => Settled(job[w].partition, job[w].offset)

(* The owner of a partition reads next the record after the one it handles; *)
(* every record before it is settled.                                       *)
OwnersInStep ==
    \A w \in Workers : pc[w] \in AtWork /\ owner[job[w].partition] = w =>
        position[job[w].partition] = job[w].offset + 1

OwnersSettle ==
    \A p \in Partitions : owner[p] # None =>
        \A o \in 1..(position[p] - 1) :
            \/ Settled(p, o)
            \/ pc[owner[p]] \in AtWork /\ job[owner[p]].partition = p /\ job[owner[p]].offset = o

(* Without expiry the cache holds what was or may be published for an event.*)
AnswersCached ==
    expiries = 0 =>
        /\ \A w \in Workers : pc[w] = "publish" /\ job[w].record # Malformed =>
              decisions[job[w].record] = job[w].decision
        /\ \A r \in produced \cup UNION {unacked[w] : w \in Workers} :
              r.topic = "risk.decisions" => decisions[r.value.event] = r.value

Observed(c) == {e \in Events : snapshots[e] # None /\ Payload[e].customer = c}

(* Without expiry a customer's keys tell what was given to its events: the  *)
(* devices are those of the events, each flagged as new once, the country   *)
(* is the one every event was compared with.                                *)
FirstUses(c, d) == {e \in Observed(c) : Payload[e].device = d /\ snapshots[e].newDevice}

KeysAgree ==
    expiries = 0 => \A c \in Customers :
        /\ \A e \in Observed(c) : Payload[e].device \in devices[c] /\ snapshots[e].baseline = baseline[c]
        /\ \A d \in Devices : IF d \in devices[c] THEN \E e \in Events : FirstUses(c, d) = {e}
                              ELSE FirstUses(c, d) = {}

(* Without expiry only events too old for a later one have left the sorted  *)
(* set, and nothing else is in it.                                          *)
WindowsKept ==
    expiries = 0 => \A c \in Customers :
        /\ velocity[c] \subseteq Observed(c)
        /\ \A e \in Observed(c) : e \notin velocity[c] =>
              \E f \in Observed(c) : OccurredAt(e) < OccurredAt(f) - VelocityWindow

----------------------------------------------------------------------------
(* The scripts and the scoring.                                             *)

\* The sorted set of an observation holds at least the event itself.
LEMMA ComputeType ==
    ASSUME TypeOK, NEW e \in Events, NEW w \in Workers
    PROVE  Compute(e, w) \in Snapshot(Workers)
<1> DEFINE p      == Payload[e]
           start  == p.occurredAt - VelocityWindow
           base   == IF baseline[p.customer] = None THEN p.country ELSE baseline[p.customer]
           inside == {f \in Kept(p.customer, start) \cup {e} : OccurredAt(f) \in start..p.occurredAt}
<1>1. /\ p.customer \in Customers /\ p.country \in Countries
      /\ p.occurredAt \in Nat /\ start \in Int /\ start <= p.occurredAt
    BY PayloadAssumption, StoreAssumption
<1>2. base \in Countries
    BY <1>1 DEF TypeOK
<1>3. Cardinality(inside) \in Nat \ {0}
  <2>1. inside \subseteq Events
    BY <1>1 DEF Kept, TypeOK
  <2>2. IsFiniteSet(inside)
    BY <2>1, FS_Subset, StoreAssumption
  <2>3. e \in inside
    BY <1>1 DEF OccurredAt
  <2> QED BY <2>2, <2>3, FS_CardinalityType, FS_EmptySet
<1>4. Compute(e, w) = [velocity |-> Cardinality(inside), newDevice |-> p.device \notin devices[p.customer],
                       crossBorder |-> base # p.country, baseline |-> base, decisionAt |-> w]
    BY DEF Compute
<1> HIDE DEF inside, base, p
<1> QED BY <1>2, <1>3, <1>4 DEF Snapshot

(* Observing an event gives it features once and changes only the keys of   *)
(* its customer.                                                            *)
LEMMA ObserveStep ==
    ASSUME TypeOK, NEW e \in Events, NEW w \in Workers, Observe(e, w)
    PROVE  /\ snapshots' \in [Events -> Snapshot(Workers) \cup {None}]
           /\ velocity' \in [Customers -> SUBSET Events]
           /\ devices' \in [Customers -> SUBSET Devices]
           /\ baseline' \in [Customers -> Countries \cup {None}]
           /\ snapshots'[e] \in Snapshot(Workers)
<1>1. CASE snapshots[e] # None
    BY <1>1 DEF Observe, TypeOK, features
<1>2. CASE snapshots[e] = None
  <2>1. Payload[e].customer \in Customers /\ Payload[e].device \in Devices
    BY PayloadAssumption
  <2>2. Compute(e, w) \in Snapshot(Workers) /\ Compute(e, w).baseline \in Countries
    BY ComputeType DEF Snapshot
  <2>3. /\ snapshots' = [snapshots EXCEPT ![e] = Compute(e, w)]
        /\ velocity' = [velocity EXCEPT ![Payload[e].customer] =
                          Kept(Payload[e].customer, Payload[e].occurredAt - VelocityWindow) \cup {e}]
        /\ devices' = [devices EXCEPT ![Payload[e].customer] = @ \cup {Payload[e].device}]
        /\ baseline' = [baseline EXCEPT ![Payload[e].customer] = Compute(e, w).baseline]
    BY <1>2 DEF Observe
  <2>4. Kept(Payload[e].customer, Payload[e].occurredAt - VelocityWindow) \cup {e} \in SUBSET Events
    BY <2>1 DEF Kept, TypeOK
  <2> QED BY <2>1, <2>2, <2>3, <2>4 DEF TypeOK
<1> QED BY <1>1, <1>2

LEMMA ScoredType ==
    ASSUME NEW e \in Events, NEW f \in Snapshot(Workers), NEW v \in Versions \cup {Fallback}
    PROVE  \A d \in Scored(e, f, v) : d \in Decisions /\ d.event = e
<1>1. \A s, m : Decide(s, m) \in Verdicts
    BY DEF Decide, Verdicts
<1> QED BY <1>1 DEF Scored, Decisions

\* What is cached for an event is cached for good.
LEMMA SaveStep ==
    ASSUME IInv, NEW e \in Events, NEW d \in Decisions, d.event = e, SaveDecision(e, d)
    PROVE  /\ decisions' \in [Events -> Decisions \cup {None}]
           /\ \A f \in Events : decisions'[f] # None => decisions'[f].event = f
           /\ decisions'[e] \in Decisions /\ decisions'[e].event = e
           /\ \A f \in Events : decisions[f] # None => decisions'[f] = decisions[f]
BY AbsentAssumption DEF IInv, TypeOK, CachedByEvent, SaveDecision

LEMMA OutputType ==
    ASSUME IInv, NEW w \in Workers, pc[w] \in {"publish", "commit"}
    PROVE  Output(w) \in Outputs
BY DEF IInv, TypeOK, HoldsJob, AtWork, Output, Outputs, Jobs

----------------------------------------------------------------------------
(* Every step preserves the inductive invariant.                            *)

LEMMA InitIInv == Init => IInv
<1> SUFFICES ASSUME Init PROVE IInv
    OBVIOUS
<1>1. TypeOK
    BY WorkerAssumption DEF Init, StoreInit, TypeOK
<1>2. HoldsJob /\ CachedByEvent
    BY DEF Init, StoreInit, HoldsJob, CachedByEvent, AtWork
<1> QED BY <1>1, <1>2 DEF IInv

\* A worker that gives its record up, or leaves.
LEMMA RetryStep ==
    ASSUME IInv, NEW w \in Workers, UNCHANGED log,
           Exit(w) \/ (pc[w] \in AtWork /\ \E q \in SUBSET Outputs : Retry(w, q))
    PROVE  /\ pc' \in [Workers -> {"down", "poll", "load", "observe", "save", "publish", "commit"}]
           /\ job' \in [Workers -> Jobs \cup {None}]
           /\ owner' \in [Partitions -> Workers \cup {None}]
           /\ position' \in [Partitions -> Nat \ {0}]
           /\ unacked' \in [Workers -> SUBSET Outputs]
           /\ HoldsJob'
           /\ pc'[w] \in {"down", "poll"}
           /\ \A u \in Workers \ {w} : UNCHANGED <<pc[u], job[u]>>
<1>1. CASE Exit(w)
    BY <1>1 DEF Exit, Goto, IInv, TypeOK, HoldsJob, AtWork
<1>2. ASSUME pc[w] \in AtWork, NEW q \in SUBSET Outputs, Retry(w, q), ~Exit(w)
      PROVE  /\ pc' = [pc EXCEPT ![w] = "poll"]
             /\ job' = [job EXCEPT ![w] = None]
             /\ position' \in [Partitions -> Nat \ {0}]
             /\ unacked' = [unacked EXCEPT ![w] = q]
             /\ UNCHANGED owner
  <2>1. job[w].offset \in Nat \ {0}
    BY <1>2 DEF IInv, HoldsJob, Jobs
  <2> QED BY <1>2, <2>1 DEF Retry, Goto, IInv, TypeOK
<1> QED BY <1>1, <1>2 DEF IInv, TypeOK, HoldsJob, AtWork

LEMMA GroupStep ==
    ASSUME IInv,
           \/ \E w \in Workers : Start(w) \/ Crash(w)
           \/ \E p \in Partitions : Revoke(p)
           \/ \E w \in Workers, p \in Partitions : Assign(p, w)
           \/ KeyExpires
    PROVE  IInv'
<1> USE DEF vars, redis, features, group
<1>1. ASSUME NEW w \in Workers, Start(w) PROVE IInv'
  <2>1. TypeOK' /\ CachedByEvent'
    BY <1>1 DEF Start, Goto, IInv, TypeOK, CachedByEvent
  <2>2. HoldsJob'
    BY <1>1 DEF Start, Goto, IInv, TypeOK, HoldsJob, AtWork
  <2> QED BY <2>1, <2>2 DEF IInv
<1>2. ASSUME NEW w \in Workers, Crash(w) PROVE IInv'
  <2>1. TypeOK' /\ CachedByEvent'
    BY <1>2, RetryStep, WorkerAssumption DEF Crash, Fault, IInv, TypeOK, CachedByEvent
  <2>2. HoldsJob'
    BY <1>2, RetryStep DEF Crash
  <2> QED BY <2>1, <2>2 DEF IInv
<1>3. ASSUME NEW p \in Partitions, Revoke(p) PROVE IInv'
    BY <1>3, WorkerAssumption DEF Revoke, Fault, IInv, TypeOK, CachedByEvent, HoldsJob
<1>4. ASSUME NEW w \in Workers, NEW p \in Partitions, Assign(p, w) PROVE IInv'
    BY <1>4 DEF Assign, IInv, TypeOK, CachedByEvent, HoldsJob
<1>5. CASE KeyExpires
  <2>1. /\ snapshots' \in [Events -> Snapshot(Workers) \cup {None}]
        /\ velocity' \in [Customers -> SUBSET Events]
        /\ devices' \in [Customers -> SUBSET Devices]
        /\ baseline' \in [Customers -> Countries \cup {None}]
        /\ decisions' \in [Events -> Decisions \cup {None}]
    BY <1>5 DEF KeyExpires, Expire, IInv, TypeOK
  <2>2. CachedByEvent'
    BY <1>5 DEF KeyExpires, Expire, IInv, TypeOK, CachedByEvent
  <2>3. expiries' \in 0..MaxExpiries
    BY <1>5, WorkerAssumption DEF KeyExpires, IInv, TypeOK
  <2>4. UNCHANGED <<log, group, pc, job, model, produced, unacked, faults>>
    BY <1>5 DEF KeyExpires
  <2>5. TypeOK'
    BY <2>1, <2>3, <2>4 DEF IInv, TypeOK
  <2>6. HoldsJob'
    BY <2>4 DEF IInv, HoldsJob
  <2> QED BY <2>2, <2>5, <2>6 DEF IInv
<1> QED BY <1>1, <1>2, <1>3, <1>4, <1>5

LEMMA PollStep ==
    ASSUME IInv, NEW w \in Workers, NEW p \in Partitions, Poll(w, p)
    PROVE  IInv'
<1> USE DEF vars, redis, features, group
<1> DEFINE r == log[p][position[p]]
           j == [partition |-> p, offset |-> position[p], record |-> r, decision |-> None]
<1>1. r \in Events \cup {Malformed} /\ position[p] \in Nat \ {0}
  <2>1. log[p] \in Seq(Events \cup {Malformed}) /\ position[p] \in 1..Len(log[p])
    BY WorkerAssumption DEF Poll, IInv, TypeOK
  <2> QED BY <2>1
<1>2. j \in Jobs
    BY <1>1 DEF Jobs
<1>3. /\ job' = [job EXCEPT ![w] = j] /\ UNCHANGED log
      /\ pc' = [pc EXCEPT ![w] = IF r = Malformed THEN "publish" ELSE "load"]
    BY DEF Poll, Goto
<1>4. TypeOK' /\ CachedByEvent'
    BY <1>2, <1>3 DEF Poll, IInv, TypeOK, CachedByEvent
<1>5. HoldsJob'
    BY <1>2, <1>3 DEF IInv, TypeOK, HoldsJob, AtWork
<1> QED BY <1>4, <1>5 DEF IInv

LEMMA LoadDecisionStep ==
    ASSUME IInv, NEW w \in Workers, LoadDecision(w)
    PROVE  IInv'
<1> USE DEF redis, features, group
<1>1. /\ job[w] \in Jobs /\ job[w].record \in Events
      /\ job[w].record = log[job[w].partition][job[w].offset]
    BY DEF LoadDecision, IInv, HoldsJob, AtWork, Jobs
<1>2. /\ job' = [job EXCEPT ![w].decision = decisions[job[w].record]] /\ UNCHANGED <<log, decisions>>
      /\ pc' = [pc EXCEPT ![w] = IF decisions[job[w].record] = None THEN "observe" ELSE "publish"]
    BY DEF LoadDecision, Goto
<1>3. job'[w] = [job[w] EXCEPT !.decision = decisions[job[w].record]] /\ job'[w] \in Jobs
    BY <1>1, <1>2 DEF IInv, TypeOK, Jobs
<1>4. TypeOK' /\ CachedByEvent'
    BY <1>2, <1>3 DEF LoadDecision, IInv, TypeOK, CachedByEvent
<1>5. HoldsJob'
  <2>1. \A u \in Workers \ {w} : UNCHANGED <<pc[u], job[u]>>
    BY <1>2 DEF IInv, TypeOK
  <2>2. /\ job'[w].record = job[w].record /\ job'[w].partition = job[w].partition
        /\ job'[w].offset = job[w].offset /\ job'[w].decision = decisions[job[w].record]
        /\ pc'[w] = IF decisions[job[w].record] = None THEN "observe" ELSE "publish"
    BY <1>1, <1>2, <1>3 DEF IInv, TypeOK, Jobs
  <2>3. decisions[job[w].record] # None => decisions[job[w].record].event = job[w].record
    BY <1>1 DEF IInv, CachedByEvent
  <2>4. job[w].record # Malformed
    BY <1>1, WorkerAssumption
  <2>5. job'[w].record = log'[job'[w].partition][job'[w].offset]
    BY <1>1, <1>2, <2>2
  <2>6. pc'[w] \in {"save", "publish", "commit"} =>
           job'[w].decision # None /\ job'[w].decision.event = job'[w].record
    BY <2>2, <2>3
  <2>7. ASSUME NEW u \in Workers \ {w}
        PROVE  /\ pc'[u] \in AtWork =>
                     job'[u] \in Jobs /\ job'[u].record = log'[job'[u].partition][job'[u].offset]
               /\ pc'[u] \in {"load", "observe", "save"} => job'[u].record # Malformed
               /\ pc'[u] \in {"save", "publish", "commit"} /\ job'[u].record # Malformed =>
                     job'[u].decision # None /\ job'[u].decision.event = job'[u].record
    BY <1>2, <2>1 DEF IInv, HoldsJob
  <2> QED BY <1>3, <2>2, <2>4, <2>5, <2>6, <2>7 DEF HoldsJob
<1> QED BY <1>4, <1>5 DEF IInv

\* A decision for the record is added to a worker's job.
LEMMA DecidedStep ==
    ASSUME IInv, NEW w \in Workers, pc[w] \in {"observe", "save"}, NEW d \in Decisions,
           d.event = job[w].record, UNCHANGED log, NEW l \in {"save", "publish"}, Goto(w, l),
           job' = [job EXCEPT ![w].decision = d]
    PROVE  /\ pc' \in [Workers -> {"down", "poll", "load", "observe", "save", "publish", "commit"}]
           /\ job' \in [Workers -> Jobs \cup {None}]
           /\ HoldsJob'
<1>1. job[w] \in Jobs /\ job[w].record = log[job[w].partition][job[w].offset]
    BY DEF IInv, HoldsJob, AtWork
<1>2. job'[w] = [job[w] EXCEPT !.decision = d] /\ job'[w] \in Jobs
    BY <1>1 DEF IInv, TypeOK, Jobs
<1>3. /\ job'[w].record = job[w].record /\ job'[w].partition = job[w].partition
      /\ job'[w].offset = job[w].offset /\ job'[w].decision = d /\ pc'[w] = l
      /\ \A u \in Workers \ {w} : UNCHANGED <<pc[u], job[u]>>
    BY <1>1, <1>2 DEF Goto, IInv, TypeOK, Jobs
<1> QED BY <1>1, <1>2, <1>3, AbsentAssumption DEF Goto, IInv, TypeOK, HoldsJob, AtWork

LEMMA ObserveAndScoreStep ==
    ASSUME IInv, NEW w \in Workers, ObserveAndScore(w)
    PROVE  IInv'
<1> USE DEF group
<1>1. job[w].record \in Events
    BY DEF ObserveAndScore, IInv, HoldsJob, AtWork, Jobs
<1>2. PICK d \in Scored(job[w].record, snapshots'[job[w].record], model[w]) :
            job' = [job EXCEPT ![w].decision = d]
    BY DEF ObserveAndScore
<1>3. /\ snapshots' \in [Events -> Snapshot(Workers) \cup {None}]
      /\ velocity' \in [Customers -> SUBSET Events]
      /\ devices' \in [Customers -> SUBSET Devices]
      /\ baseline' \in [Customers -> Countries \cup {None}]
      /\ snapshots'[job[w].record] \in Snapshot(Workers)
    BY <1>1, ObserveStep DEF ObserveAndScore, IInv
<1>4. d \in Decisions /\ d.event = job[w].record
  <2>1. model[w] \in Versions \cup {Fallback}
    BY DEF IInv, TypeOK
  <2> QED BY <1>1, <1>2, <1>3, <2>1, ScoredType
<1>5. /\ pc' \in [Workers -> {"down", "poll", "load", "observe", "save", "publish", "commit"}]
      /\ job' \in [Workers -> Jobs \cup {None}]
      /\ HoldsJob'
    BY <1>2, <1>4, DecidedStep DEF ObserveAndScore
<1> QED BY <1>3, <1>5 DEF ObserveAndScore, IInv, TypeOK, CachedByEvent

LEMMA SavedStep ==
    ASSUME IInv, NEW w \in Workers, Save(w)
    PROVE  IInv'
<1> USE DEF features, group
<1>1. job[w] \in Jobs /\ job[w].record \in Events /\ job[w].decision \in Decisions
      /\ job[w].decision.event = job[w].record
    BY DEF Save, IInv, HoldsJob, AtWork, Jobs
<1>2. /\ decisions' \in [Events -> Decisions \cup {None}] /\ CachedByEvent'
      /\ decisions'[job[w].record] \in Decisions
      /\ decisions'[job[w].record].event = job[w].record
    BY <1>1, SaveStep DEF Save, CachedByEvent
<1>3. PICK d \in Decisions : d = decisions'[job[w].record]
    BY <1>2
<1>4. /\ pc' \in [Workers -> {"down", "poll", "load", "observe", "save", "publish", "commit"}]
      /\ job' \in [Workers -> Jobs \cup {None}]
      /\ HoldsJob'
    BY <1>2, <1>3, DecidedStep DEF Save
<1> QED BY <1>2, <1>4 DEF Save, IInv, TypeOK

LEMMA RedisFailsStep ==
    ASSUME IInv, NEW w \in Workers, RedisFails(w)
    PROVE  IInv'
<1> USE DEF redis, features
<1>1. /\ job[w].record \in Events
      /\ pc[w] = "save" => job[w].decision \in Decisions /\ job[w].decision.event = job[w].record
    BY DEF RedisFails, IInv, HoldsJob, AtWork, Jobs
<1>2. /\ snapshots' \in [Events -> Snapshot(Workers) \cup {None}]
      /\ velocity' \in [Customers -> SUBSET Events]
      /\ devices' \in [Customers -> SUBSET Devices]
      /\ baseline' \in [Customers -> Countries \cup {None}]
      /\ decisions' \in [Events -> Decisions \cup {None}]
      /\ CachedByEvent'
  <2>1. CASE UNCHANGED redis
    BY <2>1 DEF IInv, TypeOK, CachedByEvent
  <2>2. CASE Observe(job[w].record, w) /\ UNCHANGED decisions
    BY <1>1, <2>2, ObserveStep DEF IInv, TypeOK, CachedByEvent
  <2>3. CASE pc[w] = "save" /\ SaveDecision(job[w].record, job[w].decision) /\ UNCHANGED features
    BY <1>1, <2>3, SaveStep DEF IInv, TypeOK, CachedByEvent
  <2> QED BY <2>1, <2>2, <2>3 DEF RedisFails
<1>3. pc[w] \in AtWork /\ UNCHANGED log /\ \E q \in SUBSET Outputs : Retry(w, q)
    BY DEF RedisFails, AtWork, IInv, TypeOK
<1>4. faults' \in 0..MaxFaults
    BY WorkerAssumption DEF RedisFails, Fault, IInv, TypeOK
<1> QED BY <1>2, <1>3, <1>4, RetryStep DEF RedisFails, IInv, TypeOK

LEMMA PublishStep ==
    ASSUME IInv, NEW w \in Workers, Publish(w) \/ PublishFails(w)
    PROVE  IInv'
<1> USE DEF redis, features, group
<1>1. Output(w) \in Outputs
    BY OutputType DEF Publish, PublishFails
<1>2. CASE Publish(w)
  <2>1. TypeOK' /\ CachedByEvent'
    BY <1>1, <1>2 DEF Publish, Goto, IInv, TypeOK, CachedByEvent
  <2>2. HoldsJob'
    BY <1>2 DEF Publish, Goto, IInv, TypeOK, HoldsJob, AtWork
  <2> QED BY <2>1, <2>2 DEF IInv
<1>3. CASE PublishFails(w)
  <2>1. unacked[w] \in SUBSET Outputs /\ unacked[w] \cup {Output(w)} \in SUBSET Outputs
    BY <1>1 DEF IInv, TypeOK
  <2>2. pc[w] \in AtWork /\ UNCHANGED log /\ \E q \in SUBSET Outputs : Retry(w, q)
    BY <1>3, <2>1 DEF PublishFails, AtWork
  <2>3. faults' \in 0..MaxFaults /\ produced' \subseteq Outputs
    BY <1>1, <1>3, WorkerAssumption DEF PublishFails, Fault, IInv, TypeOK
  <2> QED BY <1>3, <2>2, <2>3, RetryStep DEF PublishFails, IInv, TypeOK, CachedByEvent
<1> QED BY <1>2, <1>3

LEMMA LateDeliveryStep ==
    ASSUME IInv, NEW w \in Workers, LateDelivery(w)
    PROVE  IInv'
<1> USE DEF redis, features, group
<1>1. unacked' \in [Workers -> SUBSET Outputs] /\ produced' \subseteq Outputs
    BY DEF LateDelivery, IInv, TypeOK
<1> QED BY <1>1 DEF LateDelivery, IInv, TypeOK, HoldsJob, CachedByEvent

LEMMA CommitStep ==
    ASSUME IInv, NEW w \in Workers, Commit(w) \/ CommitRefused(w) \/ CommitFails(w)
    PROVE  IInv'
<1> USE DEF redis, features
<1>1. /\ pc[w] \in AtWork /\ UNCHANGED log /\ job[w].partition \in Partitions
      /\ job[w].offset + 1 \in Nat \ {0}
    BY DEF Commit, CommitRefused, CommitFails, AtWork, IInv, HoldsJob, Jobs
<1>2. committed' \in [Partitions -> Nat \ {0}]
    BY <1>1 DEF Commit, CommitRefused, CommitFails, IInv, TypeOK
<1>3. CASE Commit(w)
  <2>1. TypeOK' /\ CachedByEvent'
    BY <1>2, <1>3 DEF Commit, Goto, IInv, TypeOK, CachedByEvent
  <2>2. HoldsJob'
    BY <1>3 DEF Commit, Goto, IInv, TypeOK, HoldsJob, AtWork
  <2> QED BY <2>1, <2>2 DEF IInv
<1>4. CASE CommitRefused(w) \/ CommitFails(w)
  <2>1. \E q \in SUBSET Outputs : Retry(w, q)
    BY <1>4 DEF CommitRefused, CommitFails, IInv, TypeOK
  <2>2. faults' \in 0..MaxFaults
    BY <1>4, WorkerAssumption DEF CommitRefused, CommitFails, Fault, IInv, TypeOK
  <2> QED BY <1>1, <1>2, <1>4, <2>1, <2>2, RetryStep
          DEF CommitRefused, CommitFails, IInv, TypeOK, CachedByEvent
<1> QED BY <1>3, <1>4

LEMMA NextIInv == IInv /\ [Next]_vars => IInv'
<1>1. ASSUME IInv, UNCHANGED vars PROVE IInv'
    BY <1>1 DEF vars, redis, features, group, IInv, TypeOK, HoldsJob, CachedByEvent
<1> QED BY <1>1, GroupStep, PollStep, LoadDecisionStep, ObserveAndScoreStep, SavedStep, RedisFailsStep,
            PublishStep, LateDeliveryStep, CommitStep DEF Next

LEMMA Invariance == Spec => []IInv
BY InitIInv, NextIInv, PTL DEF Spec

(* The state keeps its types: a worker that publishes has an output, and    *)
(* every event that is observed gets a positive velocity.                   *)
THEOREM TypeCorrect == Spec => []TypeOK
<1>1. IInv => TypeOK
    BY DEF IInv
<1> QED BY <1>1, Invariance, PTL

----------------------------------------------------------------------------
(* Offsets follow outputs.                                                  *)

\* A worker at work keeps its record.
StaysAtWork(w) ==
    /\ pc'[w] \in AtWork <=> pc[w] \in AtWork
    /\ pc[w] \in AtWork => /\ job'[w].partition = job[w].partition
                           /\ job'[w].offset = job[w].offset

\* The offset of worker w's record is committed.
Commits(w) ==
    /\ pc[w] = "commit" /\ owner[job[w].partition] = w
    /\ committed' = [committed EXCEPT ![job[w].partition] = job[w].offset + 1]

\* A worker gives its record up: its commit may have reached the broker.
GivesUp(w) ==
    /\ pc[w] \in AtWork
    /\ \E q \in SUBSET Outputs : Retry(w, q)
    /\ UNCHANGED committed \/ Commits(w)

LEMMA GroupSteps ==
    ASSUME IInv, [Next]_vars
    PROVE  \/ UNCHANGED group /\ \A w \in Workers : StaysAtWork(w)
           \/ \E w \in Workers, p \in Partitions : Assign(p, w) \/ Poll(w, p)
           \/ \E p \in Partitions : Revoke(p)
           \/ \E w \in Workers : Crash(w) \/ Commit(w) \/ GivesUp(w)
<1> DEFINE Same == UNCHANGED group /\ \A w \in Workers : StaysAtWork(w)
<1> USE DEF group, StaysAtWork, AtWork
<1>1. CASE UNCHANGED vars \/ KeyExpires \/ \E w \in Workers : LateDelivery(w)
    BY <1>1 DEF vars, KeyExpires, LateDelivery
<1>2. ASSUME NEW w \in Workers, Start(w) \/ Publish(w) PROVE Same
    BY <1>2 DEF Start, Publish, Goto, IInv, TypeOK
<1>3. ASSUME NEW w \in Workers, LoadDecision(w) \/ ObserveAndScore(w) \/ Save(w) PROVE Same
  <2>1. /\ UNCHANGED group /\ pc[w] \in AtWork /\ \E l \in AtWork : Goto(w, l)
        /\ \E d : job' = [job EXCEPT ![w].decision = d]
    BY <1>3 DEF LoadDecision, ObserveAndScore, Save
  <2>2. job[w] \in Jobs
    BY <2>1 DEF IInv, HoldsJob
  <2> QED BY <2>1, <2>2 DEF Goto, IInv, TypeOK, Jobs
<1>4. ASSUME NEW w \in Workers, RedisFails(w) \/ PublishFails(w) PROVE GivesUp(w)
  <2>1. unacked[w] \in SUBSET Outputs /\ pc[w] \in AtWork
    BY <1>4 DEF RedisFails, PublishFails, IInv, TypeOK
  <2>2. CASE RedisFails(w)
    BY <2>1, <2>2 DEF RedisFails, GivesUp
  <2>3. CASE PublishFails(w)
    <3>1. unacked[w] \cup {Output(w)} \in SUBSET Outputs
      BY <2>1, <2>3, OutputType DEF PublishFails
    <3> QED BY <2>1, <2>3, <3>1 DEF PublishFails, GivesUp
  <2> QED BY <1>4, <2>2, <2>3
<1>5. ASSUME NEW w \in Workers, CommitRefused(w) \/ CommitFails(w) PROVE GivesUp(w)
    BY <1>5 DEF CommitRefused, CommitFails, GivesUp, Commits, IInv, TypeOK
<1> QED BY <1>1, <1>2, <1>3, <1>4, <1>5 DEF Next

\* What a worker that gives its record up leaves to the partitions.
LEMMA GiveUpStep ==
    ASSUME IInv, NEW w \in Workers, GivesUp(w) \/ Crash(w)
    PROVE  /\ pc'[w] \notin AtWork
           /\ \A u \in Workers \ {w} : UNCHANGED <<pc[u], job[u]>>
           /\ \A p \in Partitions : owner'[p] # None => owner'[p] = owner[p]
           /\ \A p \in Partitions : \/ UNCHANGED position[p]
                                    \/ /\ p = job[w].partition /\ owner[p] = w /\ pc[w] \in AtWork
                                       /\ position'[p] = job[w].offset
           /\ owner'[job[w].partition] = w /\ job[w].partition \in Partitions /\ pc[w] \in AtWork =>
                 position'[job[w].partition] = job[w].offset
<1> USE DEF AtWork
<1>1. CASE Exit(w)
    BY <1>1, WorkerAssumption DEF Exit, Goto, IInv, TypeOK
<1>2. CASE GivesUp(w) /\ ~Exit(w)
  <2>1. pc[w] \in AtWork
    BY <1>2 DEF GivesUp
  <2>2. /\ pc' = [pc EXCEPT ![w] = "poll"] /\ job' = [job EXCEPT ![w] = None] /\ UNCHANGED owner
        /\ position' = [p \in Partitions |-> IF p = job[w].partition /\ owner[p] = w
                                             THEN job[w].offset ELSE position[p]]
    BY <1>2 DEF GivesUp, Retry, Goto
  <2> QED BY <2>1, <2>2 DEF IInv, TypeOK
<1> QED BY <1>1, <1>2 DEF Crash

LEMMA OutputsKept ==
    ASSUME IInv, [Next]_vars
    PROVE  UNCHANGED log /\ produced \subseteq produced'
<1>1. UNCHANGED log
    BY DEF Next, vars, Start, Assign, Revoke, Crash, Poll, LoadDecision, ObserveAndScore, Save, RedisFails,
           Publish, PublishFails, LateDelivery, Commit, CommitRefused, CommitFails, KeyExpires
<1>2. produced \subseteq produced'
    BY DEF Next, vars, Start, Assign, Revoke, Crash, Poll, LoadDecision, ObserveAndScore, Save, RedisFails,
           Publish, PublishFails, LateDelivery, Commit, CommitRefused, CommitFails, KeyExpires
<1> QED BY <1>1, <1>2

LEMMA SettledKept ==
    ASSUME IInv, [Next]_vars, NEW p, NEW o, Settled(p, o)
    PROVE  Settled(p, o)'
BY OutputsKept DEF Settled, PublishedDecisions

\* A worker is about to commit when its output has been delivered.
LEMMA PersistedStep ==
    ASSUME IInv, [Next]_vars, Persisted
    PROVE  Persisted'
<1> SUFFICES ASSUME NEW w \in Workers, pc'[w] = "commit"
             PROVE  Settled(job[w].partition, job[w].offset)'
    BY DEF Persisted
<1>1. \/ UNCHANGED <<pc[w], job[w]>>
      \/ Publish(w)
  <2>1. CASE UNCHANGED vars \/ KeyExpires \/ \E u \in Workers : LateDelivery(u)
    BY <2>1 DEF vars, KeyExpires, LateDelivery
  <2>2. ASSUME NEW u \in Workers, \/ Start(u) \/ LoadDecision(u) \/ ObserveAndScore(u) \/ Save(u)
                                  \/ Publish(u) \/ Commit(u)
        PROVE  UNCHANGED <<pc[w], job[w]>> \/ Publish(w)
    BY <2>2 DEF Start, LoadDecision, ObserveAndScore, Save, Publish, Commit, Goto, IInv, TypeOK
  <2>3. ASSUME NEW u \in Workers, NEW p \in Partitions, Assign(p, u) \/ Poll(u, p)
        PROVE  UNCHANGED <<pc[w], job[w]>>
    BY <2>3 DEF Assign, Poll, Revoke, Goto, IInv, TypeOK
  <2>4. ASSUME NEW p \in Partitions, Revoke(p)
        PROVE  UNCHANGED <<pc[w], job[w]>>
    BY <2>4 DEF Revoke
  <2>5. ASSUME NEW u \in Workers, Crash(u) \/ GivesUp(u)
        PROVE  UNCHANGED <<pc[w], job[w]>>
    BY <2>5, GiveUpStep DEF AtWork
  <2>6. ASSUME NEW u \in Workers, \/ RedisFails(u) \/ PublishFails(u) \/ CommitRefused(u) \/ CommitFails(u)
        PROVE  UNCHANGED <<pc[w], job[w]>>
    <3>1. pc'[u] # "commit" /\ \A v \in Workers \ {u} : UNCHANGED <<pc[v], job[v]>>
      BY <2>6 DEF RedisFails, PublishFails, CommitRefused, CommitFails, Retry, Exit, Goto, IInv, TypeOK
    <3> QED BY <3>1
  <2> QED BY <2>1, <2>2, <2>3, <2>4, <2>5, <2>6 DEF Next
<1>2. PICK p : p = job[w].partition
    OBVIOUS
<1>3. PICK o : o = job[w].offset
    OBVIOUS
<1>4. CASE UNCHANGED <<pc[w], job[w]>>
  <2>1. Settled(p, o)
    BY <1>2, <1>3, <1>4 DEF Persisted
  <2>2. Settled(p, o)'
    BY <2>1, SettledKept
  <2> QED BY <1>2, <1>3, <1>4, <2>2 DEF Settled
<1>5. CASE Publish(w)
  <2>1. job[w].record = log[p][o] /\ UNCHANGED <<log, job>> /\ Output(w) \in produced'
    BY <1>2, <1>3, <1>5 DEF Publish, IInv, HoldsJob, AtWork
  <2>2. CASE job[w].record = Malformed
    BY <1>2, <1>3, <2>1, <2>2 DEF Settled, Output
  <2>3. CASE job[w].record # Malformed
    <3>1. job[w].decision.event = job[w].record
      BY <1>5, <2>3 DEF Publish, IInv, HoldsJob
    <3>2. job[w].decision \in PublishedDecisions'
      BY <2>1, <2>3 DEF Output, PublishedDecisions
    <3> QED BY <1>2, <1>3, <2>1, <2>3, <3>1, <3>2 DEF Settled
  <2> QED BY <2>2, <2>3
<1> QED BY <1>1, <1>4, <1>5

LEMMA OwnersInStepStep ==
    ASSUME IInv, [Next]_vars, OwnersInStep
    PROVE  OwnersInStep'
<1> SUFFICES ASSUME NEW w \in Workers, pc'[w] \in AtWork, owner'[job'[w].partition] = w
             PROVE  position'[job'[w].partition] = job'[w].offset + 1
    BY DEF OwnersInStep
<1> USE DEF group
<1>1. CASE UNCHANGED group /\ \A u \in Workers : StaysAtWork(u)
    BY <1>1 DEF StaysAtWork, OwnersInStep
<1>2. ASSUME NEW u \in Workers, NEW p \in Partitions, Assign(p, u)
      PROVE  position'[job'[w].partition] = job'[w].offset + 1
    BY <1>2 DEF Assign, OwnersInStep, AtWork, IInv, TypeOK, HoldsJob, Jobs
<1>3. ASSUME NEW u \in Workers, NEW p \in Partitions, Poll(u, p)
      PROVE  position'[job'[w].partition] = job'[w].offset + 1
  <2>1. CASE u = w
    BY <1>3, <2>1 DEF Poll, IInv, TypeOK
  <2>2. CASE u # w
    <3>1. UNCHANGED <<pc[w], job[w], owner>>
      BY <1>3, <2>2 DEF Poll, Goto, IInv, TypeOK
    <3>2. job[w].partition \in Partitions /\ job[w].partition # p
      BY <1>3, <2>2, <3>1 DEF Poll, IInv, HoldsJob, Jobs
    <3> QED BY <1>3, <3>1, <3>2 DEF Poll, OwnersInStep, IInv, TypeOK
  <2> QED BY <2>1, <2>2
<1>4. ASSUME NEW p \in Partitions, Revoke(p)
      PROVE  position'[job'[w].partition] = job'[w].offset + 1
    BY <1>4, WorkerAssumption DEF Revoke, OwnersInStep, AtWork, IInv, TypeOK, HoldsJob, Jobs
<1>5. ASSUME NEW u \in Workers, GivesUp(u) \/ Crash(u)
      PROVE  position'[job'[w].partition] = job'[w].offset + 1
  <2>1. u # w /\ UNCHANGED <<pc[w], job[w]>>
    BY <1>5, GiveUpStep
  <2>2. job[w].partition \in Partitions /\ owner[job[w].partition] = w
    BY <1>5, <2>1, GiveUpStep, WorkerAssumption DEF IInv, HoldsJob, Jobs
  <2>3. UNCHANGED position[job[w].partition]
    BY <1>5, <2>1, <2>2, GiveUpStep
  <2> QED BY <2>1, <2>2, <2>3 DEF OwnersInStep
<1>6. ASSUME NEW u \in Workers, Commit(u)
      PROVE  position'[job'[w].partition] = job'[w].offset + 1
    BY <1>6 DEF Commit, Goto, OwnersInStep, AtWork, IInv, TypeOK
<1> QED BY <1>1, <1>2, <1>3, <1>4, <1>5, <1>6, GroupSteps

\* The record of a worker that commits and owns its partition is the last one
\* before the position, and settled like those before it.
LEMMA CommitSettles ==
    ASSUME IInv, Persisted, OwnersInStep, OwnersSettle,
           NEW w \in Workers, pc[w] = "commit", owner[job[w].partition] = w
    PROVE  /\ job[w].partition \in Partitions /\ job[w].offset \in Nat \ {0}
           /\ position[job[w].partition] = job[w].offset + 1
           /\ \A o \in 1..job[w].offset : Settled(job[w].partition, o)
<1>1. job[w].partition \in Partitions /\ job[w].offset \in Nat \ {0}
    BY DEF IInv, HoldsJob, AtWork, Jobs
<1>2. position[job[w].partition] = job[w].offset + 1
    BY DEF OwnersInStep, AtWork
<1>3. \A o \in 1..(position[job[w].partition] - 1) :
          Settled(job[w].partition, o) \/ job[w].offset = o
    BY <1>1, WorkerAssumption DEF OwnersSettle
<1>4. Settled(job[w].partition, job[w].offset)
    BY DEF Persisted
<1> QED BY <1>1, <1>2, <1>3, <1>4

LEMMA OwnersSettleStep ==
    ASSUME IInv, [Next]_vars, Persisted, OwnersInStep, OwnersSettle, NoInputSkipped
    PROVE  OwnersSettle'
<1> SUFFICES ASSUME NEW p \in Partitions, owner'[p] # None, NEW o \in 1..(position'[p] - 1)
             PROVE  \/ Settled(p, o)'
                    \/ /\ pc'[owner'[p]] \in AtWork
                       /\ job'[owner'[p]].partition = p /\ job'[owner'[p]].offset = o
    BY DEF OwnersSettle
<1> DEFINE u == owner[p]
           Holds == pc[u] \in AtWork /\ job[u].partition = p /\ job[u].offset = o
<1> USE DEF group
<1>0. /\ Settled(p, o) => Settled(p, o)'
      /\ position[p] \in Nat \ {0} /\ position'[p] \in Nat \ {0}
      /\ owner[p] \in Workers \cup {None} /\ owner'[p] \in Workers
    BY SettledKept, NextIInv DEF IInv, TypeOK
<1>1. ASSUME owner'[p] = u, position'[p] <= position[p] PROVE Settled(p, o) \/ Holds
    BY <1>0, <1>1 DEF OwnersSettle
<1>2. CASE UNCHANGED group /\ \A w \in Workers : StaysAtWork(w)
    BY <1>0, <1>1, <1>2 DEF StaysAtWork
<1>3. ASSUME NEW w \in Workers, NEW q \in Partitions, Assign(q, w)
      PROVE  Settled(p, o) \/ (owner'[p] = u /\ Holds /\ UNCHANGED <<pc, job>>)
  <2>1. CASE p = q
    <3>1. position'[p] = committed[p]
      BY <1>3, <2>1 DEF Assign, IInv, TypeOK
    <3> QED BY <3>1 DEF NoInputSkipped, Settled
  <2>2. CASE p # q
    BY <1>0, <1>1, <1>3, <2>2 DEF Assign, IInv, TypeOK
  <2> QED BY <2>1, <2>2
<1>4. ASSUME NEW w \in Workers, NEW q \in Partitions, Poll(w, q)
      PROVE  \/ Settled(p, o)
             \/ /\ pc'[owner'[p]] \in AtWork
                /\ job'[owner'[p]].partition = p /\ job'[owner'[p]].offset = o
  <2>1. owner'[p] = u /\ pc[w] = "poll" /\ owner[q] = w
    BY <1>4 DEF Poll
  <2>2. CASE p = q /\ o = position[p]
    BY <1>4, <2>1, <2>2 DEF Poll, Goto, AtWork, IInv, TypeOK
  <2>3. CASE p = q /\ o # position[p]
    <3>1. position'[p] = position[p] + 1
      BY <1>4, <2>3 DEF Poll, IInv, TypeOK
    <3>2. o \in 1..(position[p] - 1)
      BY <1>0, <2>3, <3>1
    <3> QED BY <1>0, <2>1, <2>3, <3>2 DEF OwnersSettle, AtWork
  <2>4. CASE p # q
    <3>1. position'[p] = position[p] /\ \A v \in Workers \ {w} : UNCHANGED <<pc[v], job[v]>>
      BY <1>4, <2>4 DEF Poll, Goto, IInv, TypeOK
    <3>2. Settled(p, o) \/ Holds
      BY <1>0, <1>1, <2>1, <3>1
    <3> QED BY <1>0, <2>1, <3>1, <3>2 DEF AtWork
  <2> QED BY <2>2, <2>3, <2>4
<1>5. ASSUME NEW q \in Partitions, Revoke(q)
      PROVE  Settled(p, o) \/ (owner'[p] = u /\ Holds /\ UNCHANGED <<pc, job>>)
    BY <1>0, <1>1, <1>5 DEF Revoke, IInv, TypeOK
<1>6. ASSUME NEW w \in Workers, GivesUp(w) \/ Crash(w)
      PROVE  Settled(p, o) \/ (owner'[p] = u /\ Holds /\ UNCHANGED <<pc[u], job[u]>>)
  <2>1. owner'[p] = u /\ u \in Workers
    BY <1>0, <1>6, GiveUpStep
  <2>2. CASE UNCHANGED position[p]
    <3>1. Settled(p, o) \/ Holds
      BY <1>0, <1>1, <2>1, <2>2
    <3>2. CASE Holds /\ u = w
      <4>1. position'[p] = job[w].offset
        BY <1>6, <2>1, <3>2, GiveUpStep
      <4> QED BY <1>0, <3>2, <4>1
    <3> QED BY <1>6, <2>1, <3>1, <3>2, GiveUpStep
  <2>3. CASE /\ p = job[w].partition /\ owner[p] = w /\ pc[w] \in AtWork
             /\ position'[p] = job[w].offset
    <3>1. position[p] = job[w].offset + 1
      BY <2>3 DEF OwnersInStep
    <3>2. Settled(p, o) \/ job[w].offset = o
      BY <1>0, <1>1, <2>1, <2>3, <3>1
    <3> QED BY <1>0, <2>3, <3>2
  <2> QED BY <1>6, <2>2, <2>3, GiveUpStep
<1>7. ASSUME NEW w \in Workers, Commit(w)
      PROVE  Settled(p, o) \/ (owner'[p] = u /\ Holds /\ UNCHANGED <<pc[u], job[u]>>)
  <2>1. UNCHANGED <<owner, position>> /\ \A v \in Workers \ {w} : UNCHANGED <<pc[v], job[v]>>
    BY <1>7 DEF Commit, Goto, IInv, TypeOK
  <2>2. Settled(p, o) \/ Holds
    BY <1>1, <1>0, <2>1
  <2>3. CASE Holds /\ u = w
    BY <1>7, <2>3 DEF Commit, Persisted
  <2> QED BY <1>0, <2>1, <2>2, <2>3
<1>8. ASSUME owner'[p] = u, Holds, UNCHANGED <<pc[u], job[u]>>
      PROVE  /\ pc'[owner'[p]] \in AtWork
             /\ job'[owner'[p]].partition = p /\ job'[owner'[p]].offset = o
    BY <1>8
<1>9. \/ Settled(p, o)
      \/ owner'[p] = u /\ Holds /\ UNCHANGED <<pc[u], job[u]>>
      \/ /\ pc'[owner'[p]] \in AtWork
         /\ job'[owner'[p]].partition = p /\ job'[owner'[p]].offset = o
      \/ UNCHANGED group /\ \A w \in Workers : StaysAtWork(w)
  <2> HIDE DEF Holds, group
  <2> QED BY <1>3, <1>4, <1>5, <1>6, <1>7, GroupSteps
<1> HIDE DEF Holds, group
<1> QED BY <1>0, <1>2, <1>8, <1>9

LEMMA NoInputSkippedStep ==
    ASSUME IInv, [Next]_vars, Persisted, OwnersInStep, OwnersSettle, NoInputSkipped
    PROVE  NoInputSkipped'
<1> SUFFICES ASSUME NEW p \in Partitions, NEW o \in 1..(committed'[p] - 1)
             PROVE  Settled(p, o)'
    BY DEF NoInputSkipped, Settled
<1>1. Settled(p, o) => Settled(p, o)'
    BY SettledKept
<1>2. CASE UNCHANGED committed
    BY <1>1, <1>2 DEF NoInputSkipped, Settled
<1>3. ASSUME NEW w \in Workers, Commits(w)
      PROVE  Settled(p, o)
  <2>1. /\ job[w].partition \in Partitions /\ job[w].offset \in Nat \ {0}
        /\ \A x \in 1..job[w].offset : Settled(job[w].partition, x)
    BY <1>3, CommitSettles DEF Commits
  <2>2. CASE p = job[w].partition
    <3>1. committed'[p] = job[w].offset + 1
      BY <1>3, <2>2 DEF Commits, IInv, TypeOK
    <3> QED BY <2>1, <2>2, <3>1
  <2>3. CASE p # job[w].partition
    <3>1. committed'[p] = committed[p]
      BY <1>3, <2>3 DEF Commits, IInv, TypeOK
    <3> QED BY <3>1 DEF NoInputSkipped, Settled
  <2> QED BY <2>2, <2>3
<1>4. UNCHANGED committed \/ \E w \in Workers : Commits(w)
    BY GroupSteps DEF group, Assign, Poll, Revoke, Crash, Commit, GivesUp, Commits
<1> QED BY <1>1, <1>2, <1>3, <1>4

(* With every record below a committed offset settled, the next owner of    *)
(* the partition starts behind nothing unsettled.                           *)
Progress == Persisted /\ OwnersInStep /\ OwnersSettle /\ NoInputSkipped

LEMMA ProgressInvariance == Spec => []Progress
<1>1. Init => Progress
    BY DEF Init, Progress, Persisted, OwnersInStep, OwnersSettle, NoInputSkipped, AtWork
<1>2. IInv /\ [Next]_vars /\ Progress => Progress'
    BY PersistedStep, OwnersInStepStep, OwnersSettleStep, NoInputSkippedStep DEF Progress
<1> QED BY <1>1, <1>2, Invariance, PTL DEF Spec

(* Every record below a committed offset has its decision in risk.decisions *)
(* or its evidence in risk.invalid-events: _handle commits after process    *)
(* returned, seeks back after a failure, and a former owner's commit is     *)
(* refused.                                                                 *)
THEOREM OffsetsFollowOutputs == Spec => []NoInputSkipped
<1>1. Progress => NoInputSkipped
    BY DEF Progress
<1> QED BY <1>1, ProgressInvariance, PTL

----------------------------------------------------------------------------
(* One answer per event.                                                    *)

LEMMA NothingExpires ==
    ASSUME IInv, [Next]_vars, expiries' = 0
    PROVE  expiries = 0 /\ ~KeyExpires
<1>1. expiries \in Nat
    BY WorkerAssumption DEF IInv, TypeOK
<1>2. ~KeyExpires
    BY <1>1 DEF KeyExpires
<1>3. UNCHANGED expiries
    BY <1>2 DEF Next, vars, Start, Assign, Revoke, Crash, Poll, LoadDecision, ObserveAndScore, Save,
                RedisFails, Publish, PublishFails, LateDelivery, Commit, CommitRefused, CommitFails
<1> QED BY <1>2, <1>3

\* Until a key expires a cached decision stays as it is.
LEMMA CachedKept ==
    ASSUME IInv, [Next]_vars, expiries' = 0, NEW e \in Events, decisions[e] # None
    PROVE  decisions'[e] = decisions[e]
<1> USE DEF redis, features
<1>1. ~KeyExpires
    BY NothingExpires
<1>2. ASSUME NEW w \in Workers, Save(w) \/ RedisFails(w) PROVE decisions'[e] = decisions[e]
    BY <1>2 DEF Save, RedisFails, SaveDecision, IInv, TypeOK
<1> QED BY <1>1, <1>2 DEF Next, vars, Start, Assign, Revoke, Crash, Poll, LoadDecision, ObserveAndScore,
              Publish, PublishFails, LateDelivery, Commit, CommitRefused, CommitFails

\* Everything in a topic, or still on its way there.
Sent == produced \cup UNION {unacked[w] : w \in Workers}

\* Only workers about to publish send.
LEMMA SentGrows ==
    ASSUME IInv, [Next]_vars, NEW r \in Sent'
    PROVE  r \in Sent \/ \E w \in Workers : pc[w] = "publish" /\ r = Output(w)
<1> USE DEF Sent
<1>1. ASSUME NEW w \in Workers, NEW q, Retry(w, q)
      PROVE  UNION {unacked'[u] : u \in Workers} \subseteq q \cup UNION {unacked[u] : u \in Workers}
    BY <1>1 DEF Retry, Exit, IInv, TypeOK
<1>2. ASSUME NEW w \in Workers, Crash(w) PROVE r \in Sent
    BY <1>2 DEF Crash, Exit, IInv, TypeOK
<1>3. ASSUME NEW w \in Workers, RedisFails(w) \/ CommitRefused(w) \/ CommitFails(w) PROVE r \in Sent
  <2>1. Retry(w, unacked[w]) /\ UNCHANGED produced
    BY <1>3 DEF RedisFails, CommitRefused, CommitFails
  <2> QED BY <1>1, <2>1
<1>4. ASSUME NEW w \in Workers, PublishFails(w) PROVE r \in Sent \/ (pc[w] = "publish" /\ r = Output(w))
    BY <1>1, <1>4 DEF PublishFails
<1>5. ASSUME NEW w \in Workers, Publish(w) PROVE r \in Sent \/ (pc[w] = "publish" /\ r = Output(w))
    BY <1>5 DEF Publish
<1>6. ASSUME NEW w \in Workers, LateDelivery(w) PROVE r \in Sent
    BY <1>6 DEF LateDelivery, IInv, TypeOK
<1>7. CASE UNCHANGED <<produced, unacked>>
    BY <1>7
<1> QED BY <1>2, <1>3, <1>4, <1>5, <1>6, <1>7
        DEF Next, vars, Start, Assign, Revoke, Poll, LoadDecision, ObserveAndScore, Save, Commit, KeyExpires

\* A worker comes to publish a decision it has loaded or saved.
LEMMA ToPublish ==
    ASSUME IInv, [Next]_vars, NEW w \in Workers, pc'[w] = "publish", job'[w].record # Malformed
    PROVE  UNCHANGED <<pc[w], job[w]>> \/ LoadDecision(w) \/ Save(w)
<1>1. CASE UNCHANGED vars \/ KeyExpires \/ \E u \in Workers : LateDelivery(u)
    BY <1>1 DEF vars, KeyExpires, LateDelivery
<1>2. ASSUME NEW u \in Workers, \/ Start(u) \/ LoadDecision(u) \/ ObserveAndScore(u) \/ Save(u)
                                \/ Publish(u) \/ Commit(u)
      PROVE  UNCHANGED <<pc[w], job[w]>> \/ LoadDecision(w) \/ Save(w)
    BY <1>2 DEF Start, LoadDecision, ObserveAndScore, Save, Publish, Commit, Goto, IInv, TypeOK
<1>3. ASSUME NEW u \in Workers, NEW p \in Partitions, Assign(p, u) \/ Poll(u, p)
      PROVE  UNCHANGED <<pc[w], job[w]>>
    BY <1>3 DEF Assign, Poll, Goto, IInv, TypeOK
<1>4. ASSUME NEW p \in Partitions, Revoke(p) PROVE UNCHANGED <<pc[w], job[w]>>
    BY <1>4 DEF Revoke
<1>5. ASSUME NEW u \in Workers, \/ Crash(u) \/ RedisFails(u) \/ PublishFails(u)
                                \/ CommitRefused(u) \/ CommitFails(u)
      PROVE  UNCHANGED <<pc[w], job[w]>>
  <2>1. pc'[u] # "publish" /\ \A v \in Workers \ {u} : UNCHANGED <<pc[v], job[v]>>
    BY <1>5 DEF Crash, RedisFails, PublishFails, CommitRefused, CommitFails, Retry, Exit, Goto, IInv, TypeOK
  <2> QED BY <2>1
<1> QED BY <1>1, <1>2, <1>3, <1>4, <1>5 DEF Next

LEMMA AnswersCachedStep ==
    ASSUME IInv, [Next]_vars, AnswersCached
    PROVE  AnswersCached'
<1> SUFFICES ASSUME expiries' = 0
             PROVE  /\ \A w \in Workers : pc'[w] = "publish" /\ job'[w].record # Malformed =>
                          decisions'[job'[w].record] = job'[w].decision
                    /\ \A r \in Sent' : r.topic = "risk.decisions" =>
                          decisions'[r.value.event] = r.value
    BY DEF AnswersCached, Sent
<1>1. expiries = 0
    BY NothingExpires
<1>2. ASSUME NEW w \in Workers, pc'[w] = "publish", job'[w].record # Malformed
      PROVE  decisions'[job'[w].record] = job'[w].decision
  <2>1. CASE UNCHANGED <<pc[w], job[w]>>
    <3>1. decisions[job[w].record] = job[w].decision /\ job[w].decision # None
      BY <1>1, <1>2, <2>1 DEF AnswersCached, IInv, HoldsJob
    <3>2. job[w].record \in Events
      BY <1>2, <2>1 DEF IInv, HoldsJob, AtWork, Jobs
    <3> QED BY <2>1, <3>1, <3>2, CachedKept
  <2>2. CASE LoadDecision(w) \/ Save(w)
    <3>1. job[w] \in Jobs /\ job' = [job EXCEPT ![w].decision = decisions'[job[w].record]]
      BY <2>2 DEF LoadDecision, Save, redis, IInv, HoldsJob, AtWork
    <3> QED BY <3>1 DEF IInv, TypeOK, Jobs
  <2> QED BY <1>2, <2>1, <2>2, ToPublish
<1>3. ASSUME NEW r \in Sent', r.topic = "risk.decisions"
      PROVE  decisions'[r.value.event] = r.value
  <2>1. r.value \in Decisions /\ r.value.event \in Events
    <3>1. produced' \subseteq Outputs /\ \A w \in Workers : unacked'[w] \subseteq Outputs
      BY NextIInv DEF IInv, TypeOK
    <3>2. r \in Outputs
      BY <3>1 DEF Sent
    <3> QED BY <1>3, <3>2 DEF Outputs, Decisions
  <2>2. decisions[r.value.event] = r.value
    <3>1. CASE r \in Sent
      BY <1>1, <1>3, <3>1 DEF AnswersCached, Sent
    <3>2. ASSUME NEW w \in Workers, pc[w] = "publish", r = Output(w)
          PROVE  decisions[r.value.event] = r.value
      <4>1. job[w].record # Malformed /\ r.value = job[w].decision
        BY <1>3, <3>2 DEF Output
      <4> QED BY <1>1, <3>2, <4>1 DEF AnswersCached, IInv, HoldsJob
    <3> QED BY <3>1, <3>2, SentGrows
  <2> QED BY <2>1, <2>2, CachedKept, AbsentAssumption
<1> QED BY <1>2, <1>3

(* While nothing has expired, an event is answered with one decision, the   *)
(* one cached first: save_decision returns the stored one, and it is what   *)
(* _handle publishes, again after any retry, restart or reassignment.       *)
THEOREM OneAnswer == Spec => []OneAnswerPerEvent
<1>1. Init => AnswersCached
    BY DEF Init, AnswersCached
<1>2. IInv /\ AnswersCached => OneAnswerPerEvent
  <2> SUFFICES ASSUME IInv, AnswersCached, expiries = 0, NEW d \in PublishedDecisions
               PROVE  decisions[d.event] = d
    BY DEF OneAnswerPerEvent
  <2> QED BY DEF PublishedDecisions, AnswersCached
<1> QED BY <1>1, <1>2, AnswersCachedStep, Invariance, PTL DEF Spec

----------------------------------------------------------------------------
(* The features of a customer's events.                                     *)

(* Event e is given its features by a worker, for the first time.           *)
FirstObserved(e, w) == snapshots[e] = None /\ Observe(e, w)

LEMMA FeatureSteps ==
    ASSUME IInv, [Next]_vars, expiries' = 0
    PROVE  UNCHANGED features \/ \E e \in Events, w \in Workers : FirstObserved(e, w)
<1>1. ~KeyExpires
    BY NothingExpires
<1>2. ASSUME NEW w \in Workers, ObserveAndScore(w) \/ (RedisFails(w) /\ ~UNCHANGED features)
      PROVE  UNCHANGED features \/ FirstObserved(job[w].record, w)
    BY <1>2 DEF ObserveAndScore, RedisFails, redis, FirstObserved, Observe
<1>3. ASSUME NEW w \in Workers, ObserveAndScore(w) \/ RedisFails(w)
      PROVE  job[w].record \in Events
    BY <1>3 DEF ObserveAndScore, RedisFails, IInv, HoldsJob, AtWork, Jobs
<1> QED BY <1>1, <1>2, <1>3 DEF Next, vars, redis, Start, Assign, Revoke, Crash, Poll, LoadDecision, Save,
              Publish, PublishFails, LateDelivery, Commit, CommitRefused, CommitFails

\* What the script writes for a first observation.
LEMMA FirstObservedKeys ==
    ASSUME IInv, NEW e \in Events, NEW w \in Workers, FirstObserved(e, w)
    PROVE  LET p == Payload[e]
               s == snapshots'[e]
           IN  /\ p.customer \in Customers /\ p.device \in Devices /\ p.country \in Countries
               /\ s \in Snapshot(Workers) /\ s # None /\ s = Compute(e, w)
               /\ s.newDevice = (p.device \notin devices[p.customer])
               /\ s.baseline = IF baseline[p.customer] = None THEN p.country ELSE baseline[p.customer]
               /\ \A f \in Events \ {e} : snapshots'[f] = snapshots[f]
               /\ velocity' = [velocity EXCEPT ![p.customer] =
                                 Kept(p.customer, p.occurredAt - VelocityWindow) \cup {e}]
               /\ devices' = [devices EXCEPT ![p.customer] = @ \cup {p.device}]
               /\ baseline' = [baseline EXCEPT ![p.customer] = s.baseline]
<1>1. Compute(e, w) \in Snapshot(Workers)
    BY ComputeType DEF IInv
<1>2. /\ snapshots'[e] = Compute(e, w) /\ \A f \in Events \ {e} : snapshots'[f] = snapshots[f]
      /\ velocity' = [velocity EXCEPT ![Payload[e].customer] =
                        Kept(Payload[e].customer, Payload[e].occurredAt - VelocityWindow) \cup {e}]
      /\ devices' = [devices EXCEPT ![Payload[e].customer] = @ \cup {Payload[e].device}]
      /\ baseline' = [baseline EXCEPT ![Payload[e].customer] = Compute(e, w).baseline]
    BY DEF FirstObserved, Observe, IInv, TypeOK
<1>3. /\ Compute(e, w).newDevice = (Payload[e].device \notin devices[Payload[e].customer])
      /\ Compute(e, w).baseline = IF baseline[Payload[e].customer] = None THEN Payload[e].country
                                  ELSE baseline[Payload[e].customer]
    BY DEF Compute
<1> QED BY <1>1, <1>2, <1>3, PayloadAssumption, AbsentAssumption

LEMMA ObservedGrows ==
    ASSUME IInv, NEW e \in Events, NEW w \in Workers, FirstObserved(e, w), NEW c \in Customers
    PROVE  Observed(c)' = IF c = Payload[e].customer THEN Observed(c) \cup {e} ELSE Observed(c)
BY FirstObservedKeys DEF Observed

LEMMA KeysAgreeStep ==
    ASSUME IInv, [Next]_vars, KeysAgree
    PROVE  KeysAgree'
<1> SUFFICES ASSUME expiries' = 0, NEW c \in Customers
             PROVE  /\ \A f \in Observed(c)' : /\ Payload[f].device \in devices'[c]
                                               /\ snapshots'[f].baseline = baseline'[c]
                    /\ \A d \in Devices : IF d \in devices'[c] THEN \E f \in Events : FirstUses(c, d)' = {f}
                                          ELSE FirstUses(c, d)' = {}
    BY DEF KeysAgree
<1>1. /\ \A f \in Observed(c) : Payload[f].device \in devices[c] /\ snapshots[f].baseline = baseline[c]
      /\ \A d \in Devices : IF d \in devices[c] THEN \E f \in Events : FirstUses(c, d) = {f}
                            ELSE FirstUses(c, d) = {}
    BY NothingExpires DEF KeysAgree
<1>2. CASE UNCHANGED features
    BY <1>1, <1>2 DEF features, Observed, FirstUses
<1>3. ASSUME NEW e \in Events, NEW w \in Workers, FirstObserved(e, w), c # Payload[e].customer
      PROVE  /\ Observed(c)' = Observed(c) /\ devices'[c] = devices[c] /\ baseline'[c] = baseline[c]
             /\ \A f \in Observed(c) : snapshots'[f] = snapshots[f]
             /\ \A d \in Devices : FirstUses(c, d)' = FirstUses(c, d)
  <2>1. Observed(c)' = Observed(c) /\ e \notin Observed(c)
    BY <1>3, ObservedGrows DEF Observed
  <2>2. /\ devices'[c] = devices[c] /\ baseline'[c] = baseline[c]
        /\ \A f \in Observed(c) : snapshots'[f] = snapshots[f]
    BY <1>3, <2>1, FirstObservedKeys DEF IInv, TypeOK, Observed
  <2> QED BY <2>1, <2>2 DEF FirstUses
<1>4. ASSUME NEW e \in Events, NEW w \in Workers, FirstObserved(e, w), c = Payload[e].customer
      PROVE  /\ \A f \in Observed(c)' : /\ Payload[f].device \in devices'[c]
                                        /\ snapshots'[f].baseline = baseline'[c]
             /\ \A d \in Devices : IF d \in devices'[c] THEN \E f \in Events : FirstUses(c, d)' = {f}
                                   ELSE FirstUses(c, d)' = {}
  <2> DEFINE dev == Payload[e].device
  <2>1. Observed(c)' = Observed(c) \cup {e} /\ e \notin Observed(c)
    BY <1>4, ObservedGrows DEF Observed, FirstObserved
  <2>2. /\ devices'[c] = devices[c] \cup {dev} /\ baseline'[c] = snapshots'[e].baseline
        /\ snapshots'[e].newDevice = (dev \notin devices[c])
        /\ snapshots'[e].baseline = IF baseline[c] = None THEN Payload[e].country ELSE baseline[c]
        /\ \A f \in Observed(c) : snapshots'[f] = snapshots[f]
    BY <1>4, <2>1, FirstObservedKeys DEF IInv, TypeOK, Observed
  <2>3. \A f \in Observed(c) : snapshots[f].baseline # None
    BY StoreAssumption DEF Observed, IInv, TypeOK, Snapshot
  <2>4. ASSUME NEW f \in Observed(c)'
        PROVE  Payload[f].device \in devices'[c] /\ snapshots'[f].baseline = baseline'[c]
    BY <1>1, <2>1, <2>2, <2>3
  <2>5. ASSUME NEW d \in Devices, d # dev
        PROVE  FirstUses(c, d)' = FirstUses(c, d)
    BY <2>1, <2>2, <2>5 DEF FirstUses
  <2>6. FirstUses(c, dev)' = IF dev \in devices[c] THEN FirstUses(c, dev) ELSE FirstUses(c, dev) \cup {e}
    BY <2>1, <2>2 DEF FirstUses
  <2>7. ASSUME NEW d \in Devices
        PROVE  IF d \in devices'[c] THEN \E f \in Events : FirstUses(c, d)' = {f}
               ELSE FirstUses(c, d)' = {}
    <3>1. CASE d # dev
      BY <1>1, <2>2, <2>5, <3>1
    <3>2. CASE d = dev
      BY <1>1, <2>2, <2>6, <3>2
    <3> QED BY <3>1, <3>2
  <2> QED BY <2>4, <2>7
<1> QED BY <1>1, <1>2, <1>3, <1>4, FeatureSteps

(* While nothing has expired, a device is new to a customer in exactly one  *)
(* event, and all its events are compared with the same country: the script *)
(* returns the stored snapshot when an event comes again.                   *)
THEOREM FirstUseOnce == Spec => []FirstUseFlaggedOnce
<1>1. Init => KeysAgree
    BY DEF Init, StoreInit, KeysAgree, Observed, FirstUses
<1>2. IInv /\ KeysAgree => FirstUseFlaggedOnce
  <2> SUFFICES ASSUME IInv, KeysAgree, expiries = 0, NEW e \in Events, snapshots[e] # None
               PROVE  LET same == {f \in Events : snapshots[f] # None
                                                  /\ Payload[f].customer = Payload[e].customer}
                      IN  /\ Cardinality({f \in same : Payload[f].device = Payload[e].device
                                                       /\ snapshots[f].newDevice}) = 1
                          /\ \A f \in same : snapshots[f].baseline = snapshots[e].baseline
    BY DEF FirstUseFlaggedOnce
  <2> DEFINE c == Payload[e].customer
             d == Payload[e].device
  <2>1. c \in Customers /\ d \in Devices /\ e \in Observed(c)
    BY PayloadAssumption DEF Observed
  <2>2. d \in devices[c] /\ \A f \in Observed(c) : snapshots[f].baseline = snapshots[e].baseline
    BY <2>1 DEF KeysAgree
  <2>3. PICK f : FirstUses(c, d) = {f}
    BY <2>1, <2>2 DEF KeysAgree
  <2>4. Cardinality(FirstUses(c, d)) = 1
    BY <2>3, FS_Singleton
  <2> QED BY <2>2, <2>4 DEF Observed, FirstUses
<1> QED BY <1>1, <1>2, KeysAgreeStep, Invariance, PTL DEF Spec

LEMMA WindowsKeptStep ==
    ASSUME IInv, [Next]_vars, WindowsKept
    PROVE  WindowsKept'
<1> SUFFICES ASSUME expiries' = 0, NEW c \in Customers
             PROVE  /\ velocity'[c] \subseteq Observed(c)'
                    /\ \A g \in Observed(c)' : g \notin velocity'[c] =>
                          \E f \in Observed(c)' : OccurredAt(g) < OccurredAt(f) - VelocityWindow
    BY DEF WindowsKept, OccurredAt
<1>1. /\ velocity[c] \subseteq Observed(c)
      /\ \A g \in Observed(c) : g \notin velocity[c] =>
            \E f \in Observed(c) : OccurredAt(g) < OccurredAt(f) - VelocityWindow
    BY NothingExpires DEF WindowsKept
<1>2. CASE UNCHANGED features
    BY <1>1, <1>2 DEF features, Observed
<1>3. ASSUME NEW e \in Events, NEW w \in Workers, FirstObserved(e, w), c # Payload[e].customer
      PROVE  Observed(c)' = Observed(c) /\ velocity'[c] = velocity[c]
    BY <1>3, ObservedGrows, FirstObservedKeys DEF IInv, TypeOK
<1>4. ASSUME NEW e \in Events, NEW w \in Workers, FirstObserved(e, w), c = Payload[e].customer
      PROVE  /\ velocity'[c] \subseteq Observed(c)'
             /\ \A g \in Observed(c)' : g \notin velocity'[c] =>
                   \E f \in Observed(c)' : OccurredAt(g) < OccurredAt(f) - VelocityWindow
  <2>1. /\ Observed(c)' = Observed(c) \cup {e}
        /\ velocity'[c] = Kept(c, OccurredAt(e) - VelocityWindow) \cup {e}
    BY <1>4, ObservedGrows, FirstObservedKeys DEF IInv, TypeOK, OccurredAt
  <2>2. ASSUME NEW g \in velocity[c], g \notin Kept(c, OccurredAt(e) - VelocityWindow)
        PROVE  OccurredAt(g) < OccurredAt(e) - VelocityWindow
    <3>1. g \in Events
      BY DEF IInv, TypeOK
    <3>2. OccurredAt(g) \in Nat /\ OccurredAt(e) - VelocityWindow \in Int
      BY <3>1, PayloadAssumption, StoreAssumption DEF OccurredAt
    <3> QED BY <2>2, <3>2 DEF Kept
  <2>3. Kept(c, OccurredAt(e) - VelocityWindow) \subseteq velocity[c]
    BY DEF Kept
  <2> QED BY <1>1, <2>1, <2>2, <2>3
<1> QED BY <1>1, <1>2, <1>3, <1>4, FeatureSteps

LEMMA WindowsInvariance == Spec => []WindowsKept
<1>1. Init => WindowsKept
    BY DEF Init, StoreInit, WindowsKept, Observed
<1> QED BY <1>1, WindowsKeptStep, Invariance, PTL DEF Spec

(* The velocity of a first observation counts events of the customer in the *)
(* window, and all of them unless a later event was observed before.        *)
LEMMA VelocityCounts ==
    ASSUME IInv, WindowsKept, expiries = 0,
           NEW e \in Events, NEW w \in Workers, FirstObserved(e, w)
    PROVE  LET inOrder == \A f \in Events : snapshots[f] # None /\ Payload[f].customer = Payload[e].customer
                                              => OccurredAt(f) <= OccurredAt(e)
               v == snapshots'[e].velocity
           IN  v <= Cardinality(InWindow(e)') /\ (inOrder => v = Cardinality(InWindow(e)'))
<1> DEFINE c       == Payload[e].customer
           start   == OccurredAt(e) - VelocityWindow
           inside  == {f \in Kept(c, start) \cup {e} : OccurredAt(f) \in start..OccurredAt(e)}
           inOrder == \A f \in Events : snapshots[f] # None /\ Payload[f].customer = c
                                          => OccurredAt(f) <= OccurredAt(e)
<1>1. /\ c \in Customers /\ start \in Int /\ OccurredAt(e) \in Nat /\ start <= OccurredAt(e)
      /\ \A f \in Events : OccurredAt(f) \in Nat
    BY PayloadAssumption, StoreAssumption DEF OccurredAt
<1>2. snapshots'[e].velocity = Cardinality(inside)
  <2>1. snapshots'[e] = Compute(e, w)
    BY FirstObservedKeys
  <2> QED BY <2>1 DEF Compute, OccurredAt
<1>3. Observed(c)' = Observed(c) \cup {e}
    BY <1>1, ObservedGrows
<1>4. /\ velocity[c] \subseteq Observed(c)
      /\ \A g \in Observed(c) : g \notin velocity[c] =>
            \E f \in Observed(c) : OccurredAt(g) < OccurredAt(f) - VelocityWindow
    BY <1>1 DEF WindowsKept
<1>5. InWindow(e)' = {f \in Observed(c)' : OccurredAt(f) \in start..OccurredAt(e)}
    BY DEF InWindow, Observed, OccurredAt
<1>6. inside \subseteq InWindow(e)'
    BY <1>3, <1>4, <1>5 DEF Kept
<1>7. Cardinality(inside) <= Cardinality(InWindow(e)')
  <2>1. InWindow(e)' \subseteq Events
    BY DEF InWindow
  <2>2. IsFiniteSet(InWindow(e)')
    BY <2>1, FS_Subset, StoreAssumption
  <2> QED BY <1>6, <2>2, FS_Subset
<1>8. ASSUME inOrder PROVE InWindow(e)' \subseteq inside
  <2> SUFFICES ASSUME NEW f \in InWindow(e)' PROVE f \in inside
    OBVIOUS
  <2>1. /\ f \in Observed(c) \/ f = e
        /\ OccurredAt(f) \in start..OccurredAt(e) /\ OccurredAt(f) \in Nat
    BY <1>1, <1>3, <1>5 DEF Observed
  <2>2. CASE f \in Observed(c)
    <3>1. f \in velocity[c]
      <4> SUFFICES ASSUME f \notin velocity[c] PROVE FALSE
        OBVIOUS
      <4>1. PICK g \in Observed(c) : OccurredAt(f) < OccurredAt(g) - VelocityWindow
        BY <1>4, <2>2
      <4>2. OccurredAt(g) \in Nat /\ OccurredAt(g) <= OccurredAt(e)
        BY <1>1, <1>8 DEF Observed
      <4> QED BY <1>1, <2>1, <4>1, <4>2, StoreAssumption
    <3> QED BY <1>1, <2>1, <3>1 DEF Kept
  <2> QED BY <2>1, <2>2
<1>9. inOrder => Cardinality(inside) = Cardinality(InWindow(e)')
  <2> HIDE DEF inside
  <2> QED BY <1>6, <1>8
<1> HIDE DEF inside
<1> QED BY <1>2, <1>7, <1>9

(* While nothing has expired, the velocity given to an event never exceeds  *)
(* the number of the customer's observed events in its window, and is that  *)
(* number when events come in order: ZREMRANGEBYSCORE removes for one event *)
(* nothing that the next one counts.                                        *)
THEOREM VelocityIsExact == Spec => VelocityExact
<1>1. ASSUME IInv, WindowsKept, [Next]_vars, expiries' = 0,
             NEW e \in Events, snapshots[e] = None, snapshots'[e] # None
      PROVE  \E w \in Workers : FirstObserved(e, w)
    BY <1>1, FeatureSteps, FirstObservedKeys DEF features
<1>2. IInv /\ WindowsKept /\ [Next]_vars =>
        (expiries' = 0 => \A e \in Events : snapshots[e] = None /\ snapshots'[e] # None =>
           LET inOrder == \A f \in Events : snapshots[f] # None /\ Payload[f].customer = Payload[e].customer
                                              => OccurredAt(f) <= OccurredAt(e)
               v == snapshots'[e].velocity
           IN  v <= Cardinality(InWindow(e)') /\ (inOrder => v = Cardinality(InWindow(e)')))
    BY <1>1, NothingExpires, VelocityCounts
<1> QED BY <1>2, Invariance, WindowsInvariance, PTL DEF Spec, VelocityExact
=============================================================================
