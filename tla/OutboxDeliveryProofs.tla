------------------------ MODULE OutboxDeliveryProofs ------------------------
(***************************************************************************)
(* Proofs about OutboxDelivery for any number of events and publishers,    *)
(* any retry delays and any number of failures.                            *)
(***************************************************************************)
EXTENDS OutboxDelivery, SequenceTheorems, FiniteSetTheorems, WellFoundedInduction, TLAPS

PublisherPCs == {"down", "ready", "publish", "mark", "record", "sleep"}

\* The types the argument needs; the values of wait do not matter to it and are
\* bounded at the end, by what deliveryBackoff returns.
Types ==
    /\ state \in [Events -> {"absent", "pending", "published", "dead"}]
    /\ attempts \in [Events -> 0..MaxAttempts]
    /\ DOMAIN wait = Events /\ wait = [e \in Events |-> wait[e]]
    /\ due \in Seq(Events)
    /\ lock \in [Events -> Publishers \cup {None}]
    /\ topic \subseteq Events
    /\ pc \in [Publishers -> PublisherPCs]
    /\ event \in [Publishers -> Events \cup {None}]
    /\ stopping \in [Publishers -> BOOLEAN]

InSeq(s, e) == \E i \in DOMAIN s : s[i] = e
NoRepeats(s) == \A i, j \in DOMAIN s : s[i] = s[j] => i = j

(* The due rows are pending rows without a delay, each of them once; only   *)
(* a pending row is delayed.                                                *)
DueRows ==
    /\ NoRepeats(due)
    /\ \A e \in Events : InSeq(due, e) => state[e] = "pending" /\ wait[e] = 0
    /\ \A e \in Events : wait[e] # 0 => state[e] = "pending"

(* A claimed row is still due, so pending.                                  *)
ClaimedDue == \A w \in Publishers : event[w] # None => InSeq(due, event[w])

(* A row about to be marked was stored by Kafka and was not refused.        *)
Acknowledged ==
    \A w \in Publishers : pc[w] = "mark" => event[w] \in topic /\ event[w] \notin Poison

IInv ==
    /\ Types /\ DueRows /\ ClaimedDue /\ Acknowledged
    /\ PublishedWasDelivered /\ OnlyPoisonQuarantined /\ ClaimsExclusive

----------------------------------------------------------------------------
(* The elements of a sequence without repetitions between two positions.    *)
LEMMA Slice ==
    ASSUME NEW S, NEW s \in Seq(S), NoRepeats(s),
           NEW m \in 1..(Len(s) + 1), NEW n \in 0..Len(s)
    PROVE  /\ SubSeq(s, m, n) \in Seq(S)
           /\ NoRepeats(SubSeq(s, m, n))
           /\ \A f : InSeq(SubSeq(s, m, n), f) <=> \E i \in m..n : s[i] = f
<1> DEFINE t == SubSeq(s, m, n)
<1>1. Len(s) \in Nat /\ m \in Int /\ n \in Int /\ m >= 1 /\ n <= Len(s)
    OBVIOUS
<1>2. \A i \in m..n : i \in DOMAIN s /\ s[i] \in S
    BY <1>1
<1>3. /\ t \in Seq(S)
      /\ Len(t) = IF m <= n THEN n - m + 1 ELSE 0
      /\ \A i \in 1..(n - m + 1) : t[i] = s[m + i - 1]
    BY <1>1, <1>2, SubSeqProperties
<1> HIDE DEF t
<1>4. DOMAIN t = 1..(n - m + 1)
    BY <1>1, <1>3
<1>5. ASSUME NEW i \in DOMAIN t PROVE m + i - 1 \in m..n /\ t[i] = s[m + i - 1]
    BY <1>1, <1>3, <1>4
<1>6. NoRepeats(t)
  <2> SUFFICES ASSUME NEW i \in DOMAIN t, NEW j \in DOMAIN t, t[i] = t[j] PROVE i = j
      BY DEF NoRepeats
  <2>1. m + i - 1 = m + j - 1
      BY <1>2, <1>5 DEF NoRepeats
  <2> QED BY <2>1, <1>1, <1>4
<1>7. ASSUME NEW f, InSeq(t, f) PROVE \E i \in m..n : s[i] = f
    BY <1>5, <1>7 DEF InSeq
<1>8. ASSUME NEW f, NEW i \in m..n, s[i] = f PROVE InSeq(t, f)
  <2>1. i - m + 1 \in DOMAIN t /\ m + (i - m + 1) - 1 = i
      BY <1>1, <1>4
  <2> QED BY <2>1, <1>5, <1>8 DEF InSeq
<1> QED BY <1>3, <1>6, <1>7, <1>8 DEF t

(* Appending new elements, in any order, adds them and nothing else.        *)
LEMMA Appended ==
    ASSUME NEW S, NEW s \in Seq(S), NEW u \in Seq(S), NoRepeats(s), NoRepeats(u),
           \A f : ~(InSeq(s, f) /\ InSeq(u, f))
    PROVE  /\ s \o u \in Seq(S)
           /\ NoRepeats(s \o u)
           /\ \A f : InSeq(s \o u, f) <=> (InSeq(s, f) \/ InSeq(u, f))
<1> DEFINE t == s \o u
<1>1. /\ t \in Seq(S) /\ Len(t) = Len(s) + Len(u) /\ Len(s) \in Nat /\ Len(u) \in Nat
      /\ \A j \in 1..(Len(s) + Len(u)) : t[j] = IF j <= Len(s) THEN s[j] ELSE u[j - Len(s)]
    BY ConcatProperties
<1> HIDE DEF t
<1>2. DOMAIN t = 1..(Len(s) + Len(u)) /\ DOMAIN s = 1..Len(s) /\ DOMAIN u = 1..Len(u)
    BY <1>1
<1>3. ASSUME NEW j \in DOMAIN t
      PROVE  \/ j \in DOMAIN s /\ t[j] = s[j]
             \/ j > Len(s) /\ j - Len(s) \in DOMAIN u /\ t[j] = u[j - Len(s)]
    BY <1>1, <1>2
<1>4. NoRepeats(t)
  <2> SUFFICES ASSUME NEW i \in DOMAIN t, NEW j \in DOMAIN t, t[i] = t[j] PROVE i = j
      BY DEF NoRepeats
  <2>1. CASE i \in DOMAIN s /\ t[i] = s[i]
      BY <2>1, <1>3 DEF NoRepeats, InSeq
  <2>2. CASE i - Len(s) \in DOMAIN u /\ t[i] = u[i - Len(s)]
    <3>1. j - Len(s) \in DOMAIN u /\ t[j] = u[j - Len(s)]
        BY <2>2, <1>3 DEF InSeq
    <3>2. i - Len(s) = j - Len(s)
        BY <3>1, <2>2 DEF NoRepeats
    <3> QED BY <3>2, <1>1, <1>2
  <2> QED BY <2>1, <2>2, <1>3
<1>5. ASSUME NEW f, InSeq(t, f) PROVE InSeq(s, f) \/ InSeq(u, f)
    BY <1>3, <1>5 DEF InSeq
<1>6. ASSUME NEW f, InSeq(s, f) PROVE InSeq(t, f)
  <2>1. PICK j \in DOMAIN s : s[j] = f
      BY <1>6 DEF InSeq
  <2>2. j \in DOMAIN t /\ t[j] = f
      BY <2>1, <1>1, <1>2
  <2> QED BY <2>2 DEF InSeq
<1>7. ASSUME NEW f, InSeq(u, f) PROVE InSeq(t, f)
  <2>1. PICK j \in DOMAIN u : u[j] = f
      BY <1>7 DEF InSeq
  <2>2. /\ Len(s) + j \in DOMAIN t /\ ~(Len(s) + j <= Len(s)) /\ (Len(s) + j) - Len(s) = j
      BY <1>1, <1>2
  <2>3. t[Len(s) + j] = f
      BY <2>1, <2>2, <1>1, <1>2
  <2> QED BY <2>2, <2>3 DEF InSeq
<1> QED BY <1>1, <1>4, <1>5, <1>6, <1>7 DEF t

(* A function on an initial segment of the naturals is a sequence.          *)
LEMMA FunctionIsSeq ==
    ASSUME NEW S, NEW n \in Nat, NEW f \in [1..n -> S]
    PROVE  f \in Seq(S) /\ DOMAIN f = 1..n
BY SeqDef

(* Taking one element out of a sequence without repetitions keeps the       *)
(* others.                                                                  *)
LEMMA Removed ==
    ASSUME NEW S, NEW s \in Seq(S), NoRepeats(s), NEW i \in DOMAIN s
    PROVE  LET t == SubSeq(s, 1, i - 1) \o SubSeq(s, i + 1, Len(s))
           IN  /\ t \in Seq(S)
               /\ NoRepeats(t)
               /\ \A f : InSeq(t, f) <=> (InSeq(s, f) /\ f # s[i])
<1> DEFINE u == SubSeq(s, 1, i - 1)
           v == SubSeq(s, i + 1, Len(s))
<1>1. /\ Len(s) \in Nat /\ DOMAIN s = 1..Len(s) /\ i \in 1..Len(s)
      /\ 1 \in 1..(Len(s) + 1) /\ i - 1 \in 0..Len(s)
      /\ i + 1 \in 1..(Len(s) + 1) /\ Len(s) \in 0..Len(s)
    OBVIOUS
<1>2. u \in Seq(S) /\ NoRepeats(u) /\ \A f : InSeq(u, f) <=> \E j \in 1..(i - 1) : s[j] = f
    BY <1>1, Slice
<1>3. v \in Seq(S) /\ NoRepeats(v) /\ \A f : InSeq(v, f) <=> \E j \in (i + 1)..Len(s) : s[j] = f
    BY <1>1, Slice
<1> HIDE DEF u, v
<1>4. \A j \in 1..Len(s) : j \in 1..(i - 1) \/ j = i \/ j \in (i + 1)..Len(s)
    BY <1>1
<1>5. ASSUME NEW j \in 1..(i - 1) PROVE j \in DOMAIN s /\ j # i /\ j \notin (i + 1)..Len(s)
    BY <1>1
<1>6. ASSUME NEW j \in (i + 1)..Len(s) PROVE j \in DOMAIN s /\ j # i
    BY <1>1
<1>7. \A f : ~(InSeq(u, f) /\ InSeq(v, f))
    BY <1>2, <1>3, <1>5, <1>6 DEF NoRepeats
<1>8. \A f : (InSeq(u, f) \/ InSeq(v, f)) <=> (InSeq(s, f) /\ f # s[i])
    BY <1>1, <1>2, <1>3, <1>4, <1>5, <1>6 DEF NoRepeats, InSeq
<1>9. /\ u \o v \in Seq(S) /\ NoRepeats(u \o v)
      /\ \A f : InSeq(u \o v, f) <=> (InSeq(u, f) \/ InSeq(v, f))
    BY <1>2, <1>3, <1>7, Appended
<1>10. \A f : InSeq(u \o v, f) <=> (InSeq(s, f) /\ f # s[i])
    BY <1>8, <1>9
<1> QED BY <1>9, <1>10 DEF u, v

(* Putting a new element into a sequence adds it and nothing else.          *)
LEMMA Inserted ==
    ASSUME NEW S, NEW s \in Seq(S), NoRepeats(s), NEW e \in S, ~InSeq(s, e), NEW i \in 0..Len(s)
    PROVE  LET t == SubSeq(s, 1, i) \o <<e>> \o SubSeq(s, i + 1, Len(s))
           IN  /\ t \in Seq(S)
               /\ NoRepeats(t)
               /\ \A f : InSeq(t, f) <=> (InSeq(s, f) \/ f = e)
<1> DEFINE u == SubSeq(s, 1, i)
           v == SubSeq(s, i + 1, Len(s))
           x == u \o <<e>>
<1>1. /\ Len(s) \in Nat /\ DOMAIN s = 1..Len(s) /\ i \in 0..Len(s)
      /\ 1 \in 1..(Len(s) + 1) /\ i + 1 \in 1..(Len(s) + 1) /\ Len(s) \in 0..Len(s)
    OBVIOUS
<1>2. u \in Seq(S) /\ NoRepeats(u) /\ \A f : InSeq(u, f) <=> \E j \in 1..i : s[j] = f
    BY <1>1, Slice
<1>3. v \in Seq(S) /\ NoRepeats(v) /\ \A f : InSeq(v, f) <=> \E j \in (i + 1)..Len(s) : s[j] = f
    BY <1>1, Slice
<1>4. <<e>> \in Seq(S) /\ NoRepeats(<<e>>) /\ \A f : InSeq(<<e>>, f) <=> f = e
    BY DEF NoRepeats, InSeq
<1> HIDE DEF u, v
<1>5. \A j \in 1..Len(s) : j \in 1..i \/ j \in (i + 1)..Len(s)
    BY <1>1
<1>6. ASSUME NEW j \in 1..i PROVE j \in DOMAIN s /\ j \notin (i + 1)..Len(s)
    BY <1>1
<1>7. ASSUME NEW j \in (i + 1)..Len(s) PROVE j \in DOMAIN s
    BY <1>1
<1>8. \A f : (InSeq(u, f) \/ InSeq(v, f)) <=> InSeq(s, f)
    BY <1>1, <1>2, <1>3, <1>5, <1>6, <1>7 DEF InSeq
<1>9. \A f : ~(InSeq(u, f) /\ InSeq(<<e>>, f))
    BY <1>4, <1>8
<1>10. x \in Seq(S) /\ NoRepeats(x) /\ \A f : InSeq(x, f) <=> (InSeq(u, f) \/ f = e)
    BY <1>2, <1>4, <1>9, Appended
<1> HIDE DEF x
<1>11. \A f : ~(InSeq(u, f) /\ InSeq(v, f))
    BY <1>2, <1>3, <1>6, <1>7 DEF NoRepeats
<1>12. \A f : ~(InSeq(x, f) /\ InSeq(v, f))
    BY <1>8, <1>10, <1>11
<1>13. /\ x \o v \in Seq(S) /\ NoRepeats(x \o v)
       /\ \A f : InSeq(x \o v, f) <=> (InSeq(x, f) \/ InSeq(v, f))
    BY <1>3, <1>10, <1>12, Appended
<1>14. \A f : InSeq(x \o v, f) <=> (InSeq(s, f) \/ f = e)
    BY <1>8, <1>10, <1>13
<1> QED BY <1>13, <1>14 DEF u, v, x
----------------------------------------------------------------------------
(* No row exists at the start.                                              *)
LEMMA InitIInv == Init => IInv
<1> SUFFICES ASSUME Init PROVE IInv
    OBVIOUS
<1> USE OutboxAssumption DEF Init
<1>1. Types
    BY DEF Types, PublisherPCs
<1>2. \A e : ~InSeq(due, e)
    BY DEF InSeq
<1>3. DueRows /\ ClaimedDue /\ Acknowledged
    BY <1>2 DEF DueRows, NoRepeats, ClaimedDue, Acknowledged
<1>4. PublishedWasDelivered /\ OnlyPoisonQuarantined /\ ClaimsExclusive
    BY DEF PublishedWasDelivered, OnlyPoisonQuarantined, ClaimsExclusive
<1> QED BY <1>1, <1>3, <1>4 DEF IInv

(* Removing the claimed row from the due rows keeps the other claims due.   *)
LEMMA WithoutClaimed ==
    ASSUME IInv, NEW w \in Publishers, event[w] # None
    PROVE  /\ Without(event[w]) \in Seq(Events) /\ NoRepeats(Without(event[w]))
           /\ \A f : InSeq(Without(event[w]), f) <=> (InSeq(due, f) /\ f # event[w])
<1> DEFINE i == CHOOSE i \in DOMAIN due : due[i] = event[w]
<1>1. i \in DOMAIN due /\ due[i] = event[w]
    BY DEF IInv, ClaimedDue, InSeq
<1>2. due \in Seq(Events) /\ NoRepeats(due)
    BY DEF IInv, Types, DueRows
<1> HIDE DEF i
<1>3. LET t == SubSeq(due, 1, i - 1) \o SubSeq(due, i + 1, Len(due))
      IN  /\ t \in Seq(Events) /\ NoRepeats(t)
          /\ \A f : InSeq(t, f) <=> (InSeq(due, f) /\ f # due[i])
    BY <1>1, <1>2, Removed
<1>4. Without(event[w]) = SubSeq(due, 1, i - 1) \o SubSeq(due, i + 1, Len(due))
    BY DEF Without, i
<1> QED BY <1>1, <1>3, <1>4

(* A publisher that leaves releases its own row and nothing else.           *)
LEMMA Left ==
    ASSUME IInv, NEW w \in Publishers, NEW label \in {"ready", "sleep"}, Leave(w, label)
    PROVE  /\ lock' \in [Events -> Publishers \cup {None}]
           /\ pc' \in [Publishers -> PublisherPCs]
           /\ event' \in [Publishers -> Events \cup {None}]
           /\ stopping' \in [Publishers -> BOOLEAN]
           /\ event'[w] = None /\ pc'[w] \in {"down", "ready", "sleep"}
           /\ \A v \in Publishers \ {w} : pc'[v] = pc[v] /\ event'[v] = event[v]
           /\ ClaimsExclusive'
<1>1. /\ lock' \in [Events -> Publishers \cup {None}]
      /\ pc' \in [Publishers -> PublisherPCs]
      /\ event' \in [Publishers -> Events \cup {None}]
      /\ stopping' \in [Publishers -> BOOLEAN]
      /\ event'[w] = None /\ pc'[w] \in {"down", "ready", "sleep"}
      /\ \A v \in Publishers \ {w} : pc'[v] = pc[v] /\ event'[v] = event[v]
      /\ \A e \in Events : lock'[e] = IF lock[e] = w THEN None ELSE lock[e]
    BY DEF IInv, Types, Leave, PublisherPCs
<1>2. ClaimsExclusive'
    BY <1>1, OutboxAssumption DEF IInv, ClaimsExclusive
<1> QED BY <1>1, <1>2

(* Insert makes an absent row due.                                          *)
LEMMA InsertStep == ASSUME IInv, NEW e \in Events, Insert(e) PROVE IInv'
<1> USE DEF IInv, rows, publishers
<1>1. ~InSeq(due, e)
    BY DEF Insert, DueRows
<1>2. /\ due' \in Seq(Events) /\ NoRepeats(due')
      /\ \A f : InSeq(due', f) <=> (InSeq(due, f) \/ f = e)
  <2>1. PICK i \in 0..Len(due) :
            due' = SubSeq(due, 1, i) \o <<e>> \o SubSeq(due, i + 1, Len(due))
      BY DEF Insert
  <2> QED BY <1>1, <2>1, Inserted DEF Types, DueRows
<1>3. Types'
    BY <1>2 DEF Types, Insert
<1>4. DueRows'
    BY <1>2 DEF Types, Insert, DueRows
<1>5. ClaimedDue'
    BY <1>2 DEF Insert, ClaimedDue
<1>6. Acknowledged' /\ ClaimsExclusive'
    BY DEF Insert, Acknowledged, ClaimsExclusive
<1>7. PublishedWasDelivered' /\ OnlyPoisonQuarantined'
    BY DEF Types, Insert, PublishedWasDelivered, OnlyPoisonQuarantined
<1> QED BY <1>3, <1>4, <1>5, <1>6, <1>7

(* Time makes delayed rows due; only pending rows are delayed.              *)
LEMMA TickStep == ASSUME IInv, Tick PROVE IInv'
<1> USE DEF IInv, rows, publishers
<1> DEFINE D == {e \in Events : wait[e] = 1}
<1>1. PICK s \in Orders(D) : due' = due \o s
    BY DEF Tick
<1>2. s \in Seq(D) /\ NoRepeats(s) /\ \A f : InSeq(s, f) => f \in D
  <2>1. Cardinality(D) \in Nat
      BY OutboxAssumption, FS_Subset, FS_CardinalityType
  <2>2. s \in [1..Cardinality(D) -> D] /\ NoRepeats(s)
      BY DEF Orders, NoRepeats
  <2>3. s \in Seq(D) /\ DOMAIN s = 1..Cardinality(D)
      BY <2>1, <2>2, FunctionIsSeq
  <2> QED BY <2>2, <2>3 DEF InSeq
<1>3. s \in Seq(Events)
    BY <1>2
<1>4. \A f : ~(InSeq(due, f) /\ InSeq(s, f))
    BY <1>2 DEF DueRows
<1>5. /\ due' \in Seq(Events) /\ NoRepeats(due')
      /\ \A f : InSeq(due', f) <=> (InSeq(due, f) \/ InSeq(s, f))
    BY <1>1, <1>2, <1>3, <1>4, Appended DEF Types, DueRows
<1>6. \A e \in Events : /\ wait[e] = 0 => wait'[e] = 0
                        /\ wait[e] = 1 => wait'[e] = 0
    BY DEF Tick
<1>7. Types'
    BY <1>5 DEF Types, Tick
<1>8. DueRows'
    BY <1>2, <1>5, <1>6 DEF Tick, DueRows
<1>9. ClaimedDue'
    BY <1>5 DEF Tick, ClaimedDue
<1>10. Acknowledged' /\ ClaimsExclusive' /\ PublishedWasDelivered' /\ OnlyPoisonQuarantined'
    BY DEF Tick, Acknowledged, ClaimsExclusive, PublishedWasDelivered, OnlyPoisonQuarantined
<1> QED BY <1>7, <1>8, <1>9, <1>10

(* A claim takes a due row that nobody has locked.                          *)
LEMMA ClaimStep == ASSUME IInv, NEW w \in Publishers, NEW e \in Events, Claim(w, e) PROVE IInv'
<1> USE DEF IInv, rows
<1>1. InSeq(due, e) /\ lock[e] = None
    BY DEF Claim, FirstUnlocked, InSeq
<1>2. Types'
    BY DEF Types, Claim, PublisherPCs
<1>3. DueRows' /\ PublishedWasDelivered' /\ OnlyPoisonQuarantined'
    BY DEF Claim, DueRows, PublishedWasDelivered, OnlyPoisonQuarantined
<1>4. ClaimedDue' /\ Acknowledged'
    BY <1>1 DEF Types, Claim, ClaimedDue, Acknowledged
<1>5. ClaimsExclusive'
    BY <1>1, OutboxAssumption DEF Types, Claim, ClaimsExclusive
<1> QED BY <1>2, <1>3, <1>4, <1>5

(* FindNone and Wake only move the program counter of an idle worker.       *)
LEMMA IdleStep ==
    ASSUME IInv, NEW w \in Publishers, FindNone(w) \/ Wake(w) \/ Restart(w)
    PROVE  IInv'
<1>1. /\ pc[w] \in {"ready", "sleep", "down"}
      /\ \E label \in {"sleep", "ready"} : pc' = [pc EXCEPT ![w] = label]
      /\ UNCHANGED <<state, attempts, wait, due, lock, topic, event, stopping, faults>>
    BY DEF FindNone, Wake, Restart, rows
<1>2. Types' /\ ClaimsExclusive' /\ Acknowledged'
    BY <1>1 DEF IInv, Types, PublisherPCs, ClaimsExclusive, Acknowledged
<1>3. DueRows' /\ ClaimedDue' /\ PublishedWasDelivered' /\ OnlyPoisonQuarantined'
    BY <1>1 DEF IInv, DueRows, ClaimedDue, PublishedWasDelivered, OnlyPoisonQuarantined
<1> QED BY <1>2, <1>3 DEF IInv

(* Kafka's answer to a publish adds at most the claimed row to the topic,   *)
(* and only when it was not refused.                                        *)
LEMMA PublishStep ==
    ASSUME IInv, NEW w \in Publishers, Acknowledge(w) \/ PublishFails(w)
    PROVE  IInv'
<1> USE DEF IInv, rows
<1>1. event[w] \in Events
    BY DEF Acknowledge, PublishFails, ClaimsExclusive, Types
<1>2. /\ pc[w] = "publish"
      /\ pc' = [pc EXCEPT ![w] = "mark"] \/ pc' = [pc EXCEPT ![w] = "record"]
      /\ topic' = topic \/ (topic' = topic \cup {event[w]} /\ event[w] \notin Poison)
      /\ pc' = [pc EXCEPT ![w] = "mark"] => event[w] \in topic' /\ event[w] \notin Poison
      /\ UNCHANGED <<state, attempts, wait, due, lock, event, stopping, faults>>
  <2>1. CASE Acknowledge(w)
      BY <2>1 DEF Acknowledge, Refused
  <2>2. CASE PublishFails(w)
    <3>1. pc' = [pc EXCEPT ![w] = "record"] /\ pc'[w] = "record"
        BY <2>2 DEF PublishFails, Types
    <3>2. pc' # [pc EXCEPT ![w] = "mark"]
        BY <3>1 DEF Types
    <3> QED BY <2>2, <3>1, <3>2 DEF PublishFails, Refused
  <2> QED BY <2>1, <2>2
<1>3. Types' /\ ClaimsExclusive'
  <2>1. pc' \in [Publishers -> PublisherPCs] /\ topic' \subseteq Events
      BY <1>1, <1>2 DEF Types, PublisherPCs
  <2>2. \A v \in Publishers : pc'[v] \in {"publish", "mark", "record"}
                                 <=> pc[v] \in {"publish", "mark", "record"}
      BY <1>2 DEF Types
  <2>3. Types'
      BY <1>2, <2>1 DEF Types
  <2> QED BY <1>2, <2>2, <2>3 DEF ClaimsExclusive
<1>4. Acknowledged'
  <2> SUFFICES ASSUME NEW v \in Publishers, pc'[v] = "mark"
               PROVE  event'[v] \in topic' /\ event'[v] \notin Poison
      BY DEF Acknowledged
  <2>1. CASE v = w
      BY <2>1, <1>2 DEF Types
  <2>2. CASE v # w
      BY <2>2, <1>2 DEF Types, Acknowledged
  <2> QED BY <2>1, <2>2
<1>5. DueRows' /\ ClaimedDue'
    BY <1>2 DEF DueRows, ClaimedDue
<1>6. PublishedWasDelivered' /\ OnlyPoisonQuarantined'
  <2>1. topic \subseteq topic' /\ \A e \in Poison : e \notin topic => e \notin topic'
      BY <1>2
  <2> QED BY <1>2, <2>1 DEF PublishedWasDelivered, OnlyPoisonQuarantined
<1> QED BY <1>3, <1>4, <1>5, <1>6

(* Two publishers never work on the same row.                               *)
LEMMA OtherClaims ==
    ASSUME IInv, NEW w \in Publishers, NEW v \in Publishers \ {w}, event[w] # None
    PROVE  event[v] # event[w]
BY DEF IInv, Types, ClaimsExclusive

(* A transaction that ends its attempt by committing the claimed row with   *)
(* a new state keeps the invariant as soon as the new state is right.       *)
LEMMA CommitRowStep ==
    ASSUME IInv, NEW w \in Publishers, event[w] # None,
           NEW label \in {"ready", "sleep"}, Leave(w, label),
           NEW s \in {"pending", "published", "dead"},
           state' = [state EXCEPT ![event[w]] = s],
           s = "published" => event[w] \in topic /\ event[w] \notin Poison,
           s = "dead" => event[w] \in Poison,
           attempts' \in [Events -> 0..MaxAttempts],
           \E d : wait' = [wait EXCEPT ![event[w]] = d] /\ (s # "pending" => d = 0),
           due' = Without(event[w]), UNCHANGED topic
    PROVE  IInv'
<1> DEFINE e == event[w]
<1>1. e \in Events /\ InSeq(due, e) /\ state[e] = "pending"
    BY DEF IInv, Types, ClaimedDue, DueRows
<1>2. /\ lock' \in [Events -> Publishers \cup {None}]
      /\ pc' \in [Publishers -> PublisherPCs]
      /\ event' \in [Publishers -> Events \cup {None}]
      /\ stopping' \in [Publishers -> BOOLEAN]
      /\ event'[w] = None /\ pc'[w] \in {"down", "ready", "sleep"}
      /\ \A v \in Publishers \ {w} : pc'[v] = pc[v] /\ event'[v] = event[v]
      /\ ClaimsExclusive'
    BY Left
<1>3. /\ due' \in Seq(Events) /\ NoRepeats(due')
      /\ \A f : InSeq(due', f) <=> (InSeq(due, f) /\ f # e)
    BY WithoutClaimed
<1>4. /\ state' \in [Events -> {"absent", "pending", "published", "dead"}]
      /\ state'[e] = s /\ \A f \in Events \ {e} : state'[f] = state[f]
    BY <1>1 DEF IInv, Types
<1>5. /\ DOMAIN wait' = Events /\ wait' = [f \in Events |-> wait'[f]]
      /\ s # "pending" => wait'[e] = 0
      /\ \A f \in Events \ {e} : wait'[f] = wait[f]
    BY <1>1 DEF IInv, Types
<1>6. \A v \in Publishers \ {w} : event[v] # e
    BY OtherClaims
<1> HIDE DEF e
<1>7. Types'
    BY <1>2, <1>3, <1>4, <1>5 DEF IInv, Types
<1>8. DueRows'
    BY <1>3, <1>4, <1>5 DEF IInv, DueRows
<1>9. ClaimedDue'
    BY <1>2, <1>3, <1>6 DEF IInv, ClaimedDue
<1>10. Acknowledged'
    BY <1>2 DEF IInv, Acknowledged
<1>11. PublishedWasDelivered' /\ OnlyPoisonQuarantined'
    BY <1>1, <1>4 DEF IInv, PublishedWasDelivered, OnlyPoisonQuarantined, e
<1> QED BY <1>2, <1>7, <1>8, <1>9, <1>10, <1>11 DEF IInv

(* Attempts are counted up to the bound.                                    *)
LEMMA Counted ==
    ASSUME Types, NEW e \in Events,
           NEW n, n = IF attempts[e] < MaxAttempts THEN attempts[e] + 1 ELSE attempts[e]
    PROVE  [attempts EXCEPT ![e] = n] \in [Events -> 0..MaxAttempts]
BY OutboxAssumption DEF Types

(* Recording a failure postpones or quarantines the claimed row.            *)
LEMMA RecordFailureStep == ASSUME IInv, NEW w \in Publishers, RecordFailure(w) PROVE IInv'
<1> DEFINE e == event[w]
           s == IF Refused(e) THEN "dead" ELSE "pending"
           n == IF attempts[e] < MaxAttempts THEN attempts[e] + 1 ELSE attempts[e]
           d == IF Refused(e) THEN 0 ELSE deliveryBackoff(n, RetryMin, RetryMax)
<1>1. e # None /\ e \in Events
    BY DEF RecordFailure, IInv, ClaimsExclusive, Types
<1>2. /\ state' = [state EXCEPT ![e] = s] /\ attempts' = [attempts EXCEPT ![e] = n]
      /\ wait' = [wait EXCEPT ![e] = d] /\ due' = Without(e)
      /\ Leave(w, "sleep") /\ UNCHANGED topic
    BY DEF RecordFailure
<1>3. attempts' \in [Events -> 0..MaxAttempts]
    BY <1>1, <1>2, Counted DEF IInv
<1>4. /\ s \in {"pending", "published", "dead"} /\ s # "published"
      /\ s = "dead" => e \in Poison
      /\ s # "pending" => d = 0
    BY DEF Refused
<1> HIDE DEF s, n, d
<1> QED BY <1>1, <1>2, <1>3, <1>4, CommitRowStep

(* Marking the row, answered or not, publishes an acknowledged row.         *)
LEMMA MarkStep ==
    ASSUME IInv, NEW w \in Publishers, MarkPublished(w) \/ MarkAnswerLost(w)
    PROVE  IInv'
<1> DEFINE e == event[w]
           n == IF attempts[e] < MaxAttempts THEN attempts[e] + 1 ELSE attempts[e]
<1>1. e # None /\ e \in Events /\ e \in topic /\ e \notin Poison
    BY DEF MarkPublished, MarkAnswerLost, IInv, ClaimsExclusive, Types, Acknowledged
<1>2. PICK label \in {"ready", "sleep"} :
        /\ state' = [state EXCEPT ![e] = "published"] /\ attempts' = [attempts EXCEPT ![e] = n]
        /\ UNCHANGED wait /\ due' = Without(e)
        /\ Leave(w, label) /\ UNCHANGED topic
    BY DEF MarkPublished, MarkAnswerLost
<1>3. attempts' \in [Events -> 0..MaxAttempts]
    BY <1>1, <1>2, Counted DEF IInv
<1>4. wait[e] = 0
    BY <1>1 DEF IInv, ClaimedDue, DueRows
<1>5. wait' = [wait EXCEPT ![e] = 0]
    BY <1>1, <1>2, <1>4 DEF IInv, Types
<1> HIDE DEF n
<1> QED BY <1>1, <1>2, <1>3, <1>5, CommitRowStep

(* A rolled-back attempt leaves the rows alone.                             *)
LEMMA RollbackStep ==
    ASSUME IInv, NEW w \in Publishers, AttemptFails(w) \/ Crash(w)
    PROVE  IInv'
<1>1. UNCHANGED <<state, attempts, wait, due, topic>>
    BY DEF AttemptFails, Crash, rows
<1>2. /\ lock' \in [Events -> Publishers \cup {None}]
      /\ pc' \in [Publishers -> PublisherPCs]
      /\ event' \in [Publishers -> Events \cup {None}]
      /\ stopping' \in [Publishers -> BOOLEAN]
      /\ event'[w] = None /\ pc'[w] \in {"down", "ready", "sleep"}
      /\ \A v \in Publishers \ {w} : pc'[v] = pc[v] /\ event'[v] = event[v]
      /\ ClaimsExclusive'
  <2>1. CASE AttemptFails(w)
      BY <2>1, Left DEF AttemptFails
  <2>2. CASE Crash(w)
    <3>1. /\ lock' \in [Events -> Publishers \cup {None}]
          /\ pc' \in [Publishers -> PublisherPCs]
          /\ event' \in [Publishers -> Events \cup {None}]
          /\ stopping' \in [Publishers -> BOOLEAN]
          /\ event'[w] = None /\ pc'[w] = "down"
          /\ \A v \in Publishers \ {w} : pc'[v] = pc[v] /\ event'[v] = event[v]
          /\ \A e \in Events : lock'[e] = IF lock[e] = w THEN None ELSE lock[e]
        BY <2>2 DEF IInv, Types, Crash, PublisherPCs
    <3>2. ClaimsExclusive'
        BY <3>1, OutboxAssumption DEF IInv, ClaimsExclusive
    <3> QED BY <3>1, <3>2
  <2> QED BY <2>1, <2>2
<1>3. Types'
    BY <1>1, <1>2 DEF IInv, Types
<1>4. DueRows' /\ PublishedWasDelivered' /\ OnlyPoisonQuarantined'
    BY <1>1 DEF IInv, DueRows, PublishedWasDelivered, OnlyPoisonQuarantined
<1>5. ClaimedDue' /\ Acknowledged'
    BY <1>1, <1>2 DEF IInv, ClaimedDue, Acknowledged
<1> QED BY <1>2, <1>3, <1>4, <1>5 DEF IInv

(* A cancellation stops an idle worker or is remembered by a busy one.      *)
LEMMA CancelStep == ASSUME IInv, NEW w \in Publishers, Cancel(w) PROVE IInv'
<1>1. UNCHANGED <<state, attempts, wait, due, topic, lock, event>>
    BY DEF Cancel, rows
<1>2. Types'
    BY <1>1 DEF Cancel, IInv, Types, PublisherPCs
<1>3. \A v \in Publishers : /\ pc'[v] \in {"publish", "mark", "record"}
                                 <=> pc[v] \in {"publish", "mark", "record"}
                            /\ pc'[v] = "mark" => pc[v] = "mark"
    BY DEF Cancel, IInv, Types
<1>4. ClaimsExclusive' /\ Acknowledged'
    BY <1>1, <1>3 DEF IInv, ClaimsExclusive, Acknowledged
<1>5. DueRows' /\ ClaimedDue' /\ PublishedWasDelivered' /\ OnlyPoisonQuarantined'
    BY <1>1 DEF IInv, DueRows, ClaimedDue, PublishedWasDelivered, OnlyPoisonQuarantined
<1> QED BY <1>2, <1>4, <1>5 DEF IInv

(* Every step keeps the inductive invariant.                                *)
LEMMA NextIInv == IInv /\ [Next]_vars => IInv'
<1> SUFFICES ASSUME IInv, [Next]_vars PROVE IInv'
    OBVIOUS
<1>1. CASE Next
    BY <1>1, InsertStep, TickStep, ClaimStep, IdleStep, PublishStep, RecordFailureStep, MarkStep,
       RollbackStep, CancelStep DEF Next, WorkerStep
<1>2. CASE UNCHANGED vars
    BY <1>2 DEF vars, rows, publishers, IInv, Types, DueRows, ClaimedDue, Acknowledged,
       PublishedWasDelivered, OnlyPoisonQuarantined, ClaimsExclusive
<1> QED BY <1>1, <1>2

(* The inductive invariant holds in every behaviour of the publishers.      *)
THEOREM Invariance == Spec => []IInv
BY InitIInv, NextIInv, PTL DEF Spec

(* A row marked published (markEventPublishedSQL) is in the topic.          *)
THEOREM NothingLost == Spec => []PublishedWasDelivered
<1>1. IInv => PublishedWasDelivered
    BY DEF IInv
<1> QED BY <1>1, Invariance, PTL

(* Quarantine takes refused rows only (recordFailure, isPermanent).         *)
THEOREM QuarantineExact == Spec => []OnlyPoisonQuarantined
<1>1. IInv => OnlyPoisonQuarantined
    BY DEF IInv
<1> QED BY <1>1, Invariance, PTL

(* No row has two publishers and no claim outlives its attempt              *)
(* (selectNextEventSQL with SKIP LOCKED).                                   *)
THEOREM ClaimsAreExclusive == Spec => []ClaimsExclusive
<1>1. IInv => ClaimsExclusive
    BY DEF IInv
<1> QED BY <1>1, Invariance, PTL

(* A claimed row is pending, so no step touches a finished row.             *)
LEMMA FinishedUntouched ==
    ASSUME IInv, Next, NEW e \in Events, state[e] \in {"published", "dead"}
    PROVE  state'[e] = state[e] /\ attempts'[e] = attempts[e]
<1>1. \A w \in Publishers : event[w] # None => event[w] # e
    BY DEF IInv, ClaimedDue, DueRows
<1>2. ASSUME NEW f \in Events, Insert(f) PROVE state'[e] = state[e] /\ attempts'[e] = attempts[e]
    BY <1>2 DEF Insert, IInv, Types
<1>3. ASSUME NEW w \in Publishers, RecordFailure(w)
      PROVE  state'[e] = state[e] /\ attempts'[e] = attempts[e]
    BY <1>1, <1>3 DEF RecordFailure, IInv, Types, ClaimsExclusive
<1>4. ASSUME NEW w \in Publishers, MarkPublished(w) \/ MarkAnswerLost(w)
      PROVE  state'[e] = state[e] /\ attempts'[e] = attempts[e]
    BY <1>1, <1>4 DEF MarkPublished, MarkAnswerLost, IInv, Types, ClaimsExclusive
<1> QED BY <1>2, <1>3, <1>4 DEF Next, WorkerStep, rows, Tick, Claim, FindNone, Acknowledge,
        PublishFails, AttemptFails, Wake, Restart, Cancel, Crash

(* Published and quarantined rows are final (TerminalRowsFinal).            *)
THEOREM FinishedRowsFinal == Spec => TerminalRowsFinal
<1>1. IInv /\ [Next]_vars =>
        [\A e \in Events : state[e] \in {"published", "dead"} =>
            state'[e] = state[e] /\ attempts'[e] = attempts[e]]_vars
    BY FinishedUntouched
<1> QED BY <1>1, Invariance, PTL DEF Spec, TerminalRowsFinal

(* nextBackoff doubles up to the ceiling exactly, although it compares with *)
(* the half of the ceiling, rounded down: no delay passes the ceiling, so   *)
(* none overflows an int64, and none is cut short.                          *)
THEOREM BackoffExact ==
    ASSUME NEW current \in Nat, NEW maximum \in Nat, current <= maximum
    PROVE  nextBackoff(current, maximum) =
               IF 2 * current <= maximum THEN 2 * current ELSE maximum
BY DEF nextBackoff

----------------------------------------------------------------------------
(* The retry delays: induction on the attempt, as least counterexamples.    *)

(* A set of numbers that is not empty has a least element.                  *)
LEMMA LeastNumber ==
    ASSUME NEW T \in SUBSET Nat, T # {}
    PROVE  \E n \in T : \A k \in T : n <= k
<1> DEFINE Below == {p \in Nat \X Nat : p[1] < p[2]}
<1>1. IsWellFoundedOn(Below, Nat)
  <2>1. Below = OpToRel(<, Nat)
      BY Zenon DEF OpToRel
  <2> QED BY <2>1, NatLessThanWellFounded, Zenon
<1>2. PICK n \in T : \A k \in T : <<k, n>> \notin Below
  <2> HIDE DEF Below
  <2> QED BY <1>1, WFMin
<1>3. ASSUME NEW k \in T PROVE n <= k
  <2>1. k \in Nat /\ n \in Nat /\ <<k, n>> \notin Below
      BY <1>2
  <2>2. k < n => <<k, n>> \in Below
      BY <2>1
  <2> QED BY <2>1, <2>2
<1> QED BY <1>3

\* The body of deliveryBackoff's loop: the delay after iteration n, when g
\* holds the delays after the earlier ones; and the delays of N iterations.
DelayAfter(g, n, minimum, maximum) ==
    IF n = 1 THEN minimum
    ELSE IF g[n - 1] < maximum THEN nextBackoff(g[n - 1], maximum) ELSE g[n - 1]
Solves(g, N, minimum, maximum) == g = [n \in 1..N |-> DelayAfter(g, n, minimum, maximum)]

(* The loop has delays for any number of iterations, ...                    *)
LEMMA DelaysExist ==
    ASSUME NEW minimum, NEW maximum
    PROVE  \A N \in Nat : \E g : Solves(g, N, minimum, maximum)
<1> DEFINE T == {N \in Nat : ~\E g : Solves(g, N, minimum, maximum)}
<1> SUFFICES ASSUME T # {} PROVE FALSE
    OBVIOUS
<1>1. PICK N \in T : \A k \in T : N <= k
    BY LeastNumber
<1>2. N # 0
  <2>1. Solves([n \in 1..0 |-> 0], 0, minimum, maximum)
      BY DEF Solves
  <2> QED BY <2>1
<1>3. N \in Nat /\ N - 1 \in Nat /\ N - 1 \notin T
  <2>1. N \in Nat /\ N - 1 \in Nat
      BY <1>2
  <2> HIDE DEF T
  <2> QED BY <1>1, <2>1
<1>4. PICK g : Solves(g, N - 1, minimum, maximum)
    BY <1>3
<1> DEFINE h == [n \in 1..N |-> IF n = N THEN DelayAfter(g, n, minimum, maximum) ELSE g[n]]
<1>5. Solves(h, N, minimum, maximum)
  <2>1. ASSUME NEW n \in 1..N PROVE h[n] = DelayAfter(h, n, minimum, maximum)
    <3>1. n # 1 => n - 1 \in 1..N /\ n - 1 # N /\ h[n - 1] = g[n - 1]
        BY <1>3
    <3>2. DelayAfter(h, n, minimum, maximum) = DelayAfter(g, n, minimum, maximum)
        BY <3>1 DEF DelayAfter
    <3>3. n # N => g[n] = DelayAfter(g, n, minimum, maximum)
        BY <1>3, <1>4 DEF Solves
    <3> QED BY <3>2, <3>3
  <2> QED BY <2>1 DEF Solves
<1> QED BY <1>1, <1>5

(* ... and only one sequence of them, however many follow.                  *)
LEMMA DelaysUnique ==
    ASSUME NEW minimum, NEW maximum, NEW M \in Nat, NEW N \in Nat, M <= N,
           NEW f, Solves(f, M, minimum, maximum), NEW g, Solves(g, N, minimum, maximum)
    PROVE  \A n \in 1..M : f[n] = g[n]
<1> DEFINE T == {n \in 1..M : f[n] # g[n]}
<1> SUFFICES ASSUME T # {} PROVE FALSE
    OBVIOUS
<1>1. PICK n \in T : \A k \in T : n <= k
  <2>1. T \in SUBSET Nat
      OBVIOUS
  <2> HIDE DEF T
  <2> QED BY <2>1, LeastNumber
<1>2. /\ f[n] = DelayAfter(f, n, minimum, maximum)
      /\ g[n] = DelayAfter(g, n, minimum, maximum)
  <2>1. n \in 1..M /\ n \in 1..N
      OBVIOUS
  <2> HIDE DEF T
  <2> QED BY <2>1, Zenon DEF Solves
<1>3. n # 1 => f[n - 1] = g[n - 1]
    BY <1>1
<1> QED BY <1>2, <1>3 DEF DelayAfter

LEMMA BackoffSolves ==
    ASSUME NEW minimum, NEW maximum, NEW attempt \in Nat \ {0}
    PROVE  \E g : /\ Solves(g, attempt, minimum, maximum)
                 /\ deliveryBackoff(attempt, minimum, maximum) = g[attempt]
<1> DEFINE delay == CHOOSE g : Solves(g, attempt, minimum, maximum)
<1>1. deliveryBackoff(attempt, minimum, maximum) = delay[attempt]
    BY DEF deliveryBackoff, Solves, DelayAfter
<1>2. Solves(delay, attempt, minimum, maximum)
    BY DelaysExist
<1> HIDE DEF delay
<1> QED BY <1>1, <1>2

(* The delay of the first failure is the configured minimum; each failure   *)
(* doubles it until the configured maximum, which it keeps (deliveryBackoff *)
(* for every number of attempts); it never leaves the configured range.     *)
THEOREM BackoffDoubles ==
    ASSUME NEW minimum \in Nat, NEW maximum \in Nat, minimum <= maximum, NEW attempt \in Nat \ {0}
    PROVE  LET delay(n) == deliveryBackoff(n, minimum, maximum)
           IN  /\ delay(attempt) \in minimum..maximum
               /\ delay(1) = minimum
               /\ delay(attempt + 1) = IF 2 * delay(attempt) <= maximum THEN 2 * delay(attempt)
                                       ELSE maximum
<1> DEFINE delay(n) == deliveryBackoff(n, minimum, maximum)
<1>1. ASSUME NEW x \in minimum..maximum
      PROVE  /\ nextBackoff(x, maximum) \in minimum..maximum
             /\ (IF x < maximum THEN nextBackoff(x, maximum) ELSE x)
                    = IF 2 * x <= maximum THEN 2 * x ELSE maximum
  <2>1. CASE x < maximum
      BY <2>1, BackoffExact
  <2>2. CASE x = maximum
      BY <2>2, BackoffExact
  <2> QED BY <2>1, <2>2
<1>2. PICK g : Solves(g, attempt, minimum, maximum) /\ delay(attempt) = g[attempt]
    BY BackoffSolves
<1>3. PICK h : Solves(h, attempt + 1, minimum, maximum) /\ delay(attempt + 1) = h[attempt + 1]
    BY BackoffSolves
<1>4. g[attempt] = h[attempt]
    BY <1>2, <1>3, DelaysUnique
<1>5. g[attempt] \in minimum..maximum
  <2> DEFINE T == {n \in 1..attempt : g[n] \notin minimum..maximum}
  <2> SUFFICES ASSUME T # {} PROVE FALSE
      OBVIOUS
  <2>1. PICK n \in T : \A k \in T : n <= k
    <3>1. T \in SUBSET Nat
        OBVIOUS
    <3> HIDE DEF T
    <3> QED BY <3>1, LeastNumber
  <2>2. g[n] = DelayAfter(g, n, minimum, maximum)
      BY <1>2 DEF Solves
  <2>3. n # 1 => g[n - 1] \in minimum..maximum
      BY <2>1
  <2> QED BY <1>1, <2>1, <2>2, <2>3 DEF DelayAfter
<1>6. delay(1) = minimum
  <2>1. PICK f : Solves(f, 1, minimum, maximum) /\ delay(1) = f[1]
      BY BackoffSolves
  <2> QED BY <2>1 DEF Solves, DelayAfter
<1>7. h[attempt + 1] = IF h[attempt] < maximum THEN nextBackoff(h[attempt], maximum) ELSE h[attempt]
    BY <1>3 DEF Solves, DelayAfter
<1> HIDE DEF delay
<1>8. delay(attempt + 1) = IF 2 * delay(attempt) <= maximum THEN 2 * delay(attempt) ELSE maximum
    BY <1>1, <1>2, <1>3, <1>4, <1>5, <1>7
<1>9. delay(attempt) \in minimum..maximum
    BY <1>2, <1>5
<1> QED BY <1>6, <1>8, <1>9 DEF delay

(* So no row waits longer than the configured maximum, and all variables    *)
(* have their types.                                                        *)
Bounded == wait \in [Events -> 0..RetryMax] /\ faults \in 0..MaxFaults

LEMMA BoundedStep == IInv /\ [Next]_vars /\ Bounded => Bounded'
<1> SUFFICES ASSUME IInv, [Next]_vars, Bounded PROVE Bounded'
    OBVIOUS
<1> USE OutboxAssumption DEF Bounded
<1>1. faults' \in 0..MaxFaults
  <2>1. UNCHANGED faults \/ Fault
      BY DEF Next, WorkerStep, vars, Insert, Tick, Claim, FindNone, Acknowledge, PublishFails,
             RecordFailure, MarkPublished, MarkAnswerLost, AttemptFails, Wake, Restart, Cancel, Crash
  <2> QED BY <2>1 DEF Fault
<1>2. ASSUME Tick PROVE wait' \in [Events -> 0..RetryMax]
    BY <1>2 DEF Tick
<1>3. ASSUME NEW w \in Publishers, RecordFailure(w) PROVE wait' \in [Events -> 0..RetryMax]
  <2> DEFINE e == event[w]
             n == IF attempts[e] < MaxAttempts THEN attempts[e] + 1 ELSE attempts[e]
  <2>1. e \in Events
      BY <1>3 DEF RecordFailure, IInv, ClaimsExclusive, Types
  <2>2. n \in Nat
      BY <2>1 DEF IInv, Types
  <2>3. deliveryBackoff(n, RetryMin, RetryMax) \in 0..RetryMax
    <3>1. CASE n = 0
        BY <3>1 DEF deliveryBackoff
    <3> HIDE DEF n
    <3>2. CASE n # 0
        BY <2>2, <3>2, BackoffDoubles
    <3> QED BY <3>1, <3>2
  <2>4. wait' = [wait EXCEPT ![e] = IF Refused(e) THEN 0 ELSE deliveryBackoff(n, RetryMin, RetryMax)]
      BY <1>3 DEF RecordFailure
  <2> HIDE DEF e, n
  <2> QED BY <2>1, <2>3, <2>4
<1> QED BY <1>1, <1>2, <1>3 DEF Next, WorkerStep, vars, rows, Insert, Claim, FindNone, Acknowledge,
        PublishFails, MarkPublished, MarkAnswerLost, AttemptFails, Wake, Restart, Cancel, Crash

(* The types of all variables.                                              *)
THEOREM TypeCorrect == Spec => []TypeOK
<1>1. Init => Bounded
    BY OutboxAssumption DEF Init, Bounded
<1>2. IInv /\ Bounded => TypeOK
    BY DEF IInv, Types, Bounded, TypeOK, PublisherPCs
<1> QED BY <1>1, <1>2, BoundedStep, Invariance, PTL DEF Spec
=============================================================================
