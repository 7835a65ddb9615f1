---------------------------- MODULE MCRiskWorker ----------------------------
(* Instances of RiskWorker for TLC. *)
EXTENDS RiskWorker, TLC

CONSTANTS e1, e2, e3, alice, phone, laptop, home, abroad, p1, p2, v1

Event(device, country, time) ==
    [customer |-> alice, device |-> device, country |-> country, occurredAt |-> time]

\* One customer.  With a window of 2, e1 is at the start of e2's window and
\* before the window of e3.
MCPayload == e1 :> Event(phone, home, 1) @@ e2 :> Event(phone, abroad, 3) @@ e3 :> Event(laptop, home, 4)
OnePayload == e1 :> Event(phone, home, 1)
MCTerms == [e \in Events |-> [amount |-> 1, riskyMerchant |-> e = e2, highRiskCountry |-> FALSE]]
MCAnswers == [v \in Versions |-> {[available |-> TRUE, probability |-> 100, threshold |-> 500]}]

\* Events of one customer on two partitions, a malformed record behind one.
SpreadLogs == {p1 :> <<e1, e2>> @@ p2 :> <<e3, Malformed>>}
\* The outbox has published an event twice.
RepeatLogs == {p1 :> <<e1, e1, Malformed>>}
Symmetry == Permutations(Workers)
=============================================================================
