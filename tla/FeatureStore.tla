---------------------------- MODULE FeatureStore ----------------------------
(***************************************************************************)
(* The Redis state of the risk service and the two Lua scripts that change *)
(* it.  A script runs atomically.                                          *)
(*                                                                         *)
(* An event stands for its payment, which has one event.  The velocity     *)
(* sorted set of a customer is the set of its members, the score of a      *)
(* member being the time of its event.  Keys expire; None is a missing     *)
(* key, as is an empty set of members or devices.                          *)
(***************************************************************************)
EXTENDS Integers, FiniteSets

CONSTANTS
    Events,           \* valid payments.created events
    Customers, Devices, Countries,
    Payload,          \* event -> customer, device, country, occurredAt
    VelocityWindow,   \* length of the window, in units of occurredAt
    None

ASSUME PayloadAssumption ==
    Payload \in [Events -> [customer : Customers, device : Devices, country : Countries, occurredAt : Nat]]
ASSUME StoreAssumption ==
    VelocityWindow \in Nat \ {0} /\ IsFiniteSet(Events) /\ None \notin Events \cup Countries

VARIABLES
    snapshots,   \* event:<id>: the features computed for an event
    velocity,    \* customer:<id>:velocity
    devices,     \* customer:<id>:devices
    baseline,    \* customer:<id>:baseline_country
    decisions    \* decision:<id>: the decision made for an event

features == <<snapshots, velocity, devices, baseline>>
redis == <<features, decisions>>

\* decisionAt, the clock read before the first observation, is represented
\* by the worker that read it.
Snapshot(workers) ==
    [velocity : Nat \ {0}, newDevice : BOOLEAN, crossBorder : BOOLEAN, baseline : Countries,
     decisionAt : workers]

StoreInit ==
    /\ snapshots = [e \in Events |-> None]
    /\ velocity = [c \in Customers |-> {}]
    /\ devices = [c \in Customers |-> {}]
    /\ baseline = [c \in Customers |-> None]
    /\ decisions = [e \in Events |-> None]

OccurredAt(e) == Payload[e].occurredAt

\* Mutant: the member at the start of the window is pruned too.
Kept_OpenWindow(c, start) == {f \in velocity[c] : OccurredAt(f) > start}

\* ZREMRANGEBYSCORE -inf (start - 1).
Kept(c, start) == {f \in velocity[c] : OccurredAt(f) >= start}

\* Mutant: counts before the event itself is added.
Compute_CountFirst(e, clock) ==
    LET p     == Payload[e]
        start == p.occurredAt - VelocityWindow
        base  == IF baseline[p.customer] = None THEN p.country ELSE baseline[p.customer]
    IN  [velocity    |-> Cardinality({f \in Kept(p.customer, start) : OccurredAt(f) \in start..p.occurredAt}),
         newDevice   |-> p.device \notin devices[p.customer],
         crossBorder |-> base # p.country,
         baseline    |-> base,
         decisionAt  |-> clock]

\* The features of an event that has none yet, observed now.
Compute(e, clock) ==
    LET p     == Payload[e]
        start == p.occurredAt - VelocityWindow
        base  == IF baseline[p.customer] = None THEN p.country ELSE baseline[p.customer]
    IN  [velocity    |-> Cardinality({f \in Kept(p.customer, start) \cup {e} :
                                       OccurredAt(f) \in start..p.occurredAt}),
         newDevice   |-> p.device \notin devices[p.customer],
         crossBorder |-> base # p.country,
         baseline    |-> base,
         decisionAt  |-> clock]

\* Mutant: the cached snapshot is not looked for.
Observe_Again(e, clock) ==
    LET p == Payload[e]
    IN  /\ snapshots' = [snapshots EXCEPT ![e] = Compute(e, clock)]
        /\ velocity' = [velocity EXCEPT ![p.customer] = Kept(p.customer, p.occurredAt - VelocityWindow) \cup {e}]
        /\ devices' = [devices EXCEPT ![p.customer] = @ \cup {p.device}]
        /\ baseline' = [baseline EXCEPT ![p.customer] = Compute(e, clock).baseline]

\* _OBSERVE_SCRIPT: snapshots'[e] is what it returns.
Observe(e, clock) ==
    LET p == Payload[e]
    IN  IF snapshots[e] # None
        THEN UNCHANGED features
        ELSE /\ snapshots' = [snapshots EXCEPT ![e] = Compute(e, clock)]
             /\ velocity' = [velocity EXCEPT ![p.customer] =
                               Kept(p.customer, p.occurredAt - VelocityWindow) \cup {e}]
             /\ devices' = [devices EXCEPT ![p.customer] = @ \cup {p.device}]
             /\ baseline' = [baseline EXCEPT ![p.customer] = Compute(e, clock).baseline]

\* _CACHE_DECISION_SCRIPT: decisions'[e] is what it returns.
SaveDecision(e, d) ==
    decisions' = [decisions EXCEPT ![e] = IF @ = None THEN d ELSE @]

\* A key reaches its time to live.  The three keys of a customer are given
\* the same expiry at the same instant.
Expire ==
    \/ \E e \in Events : /\ snapshots[e] # None
                         /\ snapshots' = [snapshots EXCEPT ![e] = None]
                         /\ UNCHANGED <<velocity, devices, baseline, decisions>>
    \/ \E e \in Events : /\ decisions[e] # None
                         /\ decisions' = [decisions EXCEPT ![e] = None]
                         /\ UNCHANGED features
    \/ \E c \in Customers : /\ baseline[c] # None
                            /\ velocity' = [velocity EXCEPT ![c] = {}]
                            /\ devices' = [devices EXCEPT ![c] = {}]
                            /\ baseline' = [baseline EXCEPT ![c] = None]
                            /\ UNCHANGED <<snapshots, decisions>>
=============================================================================
