--------------------------- MODULE RiskEscalation ---------------------------
(***************************************************************************)
(* One payment is scored again and again while what is known of it gets    *)
(* worse: a signal appears, the amount or the velocity grows, the model    *)
(* becomes more certain or fails.  Every pair of a better and a worse case *)
(* is connected by such steps, so an order between cases is an action      *)
(* property.                                                               *)
(***************************************************************************)
EXTENDS RiskScoring

CONSTANTS Amounts, Velocities, Probabilities, Thresholds

ASSUME CasesAssumption ==
    /\ Amounts \subseteq Nat /\ Velocities \subseteq Nat
    /\ Probabilities \subseteq 0..1000 /\ Thresholds \subseteq 1..999

VARIABLES
    signals,   \* what the rules look at
    model      \* what the model answered

vars == <<signals, model>>

TypeOK == signals \in Signals /\ model \in ModelResults

Init ==
    /\ signals \in [amount : Amounts, velocity : Velocities, newDevice : {FALSE}, crossBorder : {FALSE},
                    riskyMerchant : {FALSE}, highRiskCountry : {FALSE}]
    /\ model \in [available : {TRUE}, probability : Probabilities, threshold : Thresholds]

AmountGrows ==
    /\ \E a \in Amounts : a > signals.amount /\ signals' = [signals EXCEPT !.amount = a]
    /\ UNCHANGED model

VelocityGrows ==
    /\ \E v \in Velocities : v > signals.velocity /\ signals' = [signals EXCEPT !.velocity = v]
    /\ UNCHANGED model

SignalAppears ==
    /\ \/ signals' = [signals EXCEPT !.newDevice = TRUE]
       \/ signals' = [signals EXCEPT !.crossBorder = TRUE]
       \/ signals' = [signals EXCEPT !.riskyMerchant = TRUE]
       \/ signals' = [signals EXCEPT !.highRiskCountry = TRUE]
    /\ UNCHANGED model

ProbabilityGrows ==
    /\ model.available
    /\ \E p \in Probabilities : p > model.probability /\ model' = [model EXCEPT !.probability = p]
    /\ UNCHANGED signals

ModelFails == model' = ModelUnavailable /\ UNCHANGED signals

Next == AmountGrows \/ VelocityGrows \/ SignalAppears \/ ProbabilityGrows \/ ModelFails

Spec == Init /\ [][Next]_vars

----------------------------------------------------------------------------
Severity == [v \in Verdicts |-> CASE v = "ALLOW" -> 0 [] v = "REVIEW" -> 1 [] v = "BLOCK" -> 2]

(* More risk never gets a milder verdict, and neither does a model that     *)
(* stops working: an outage sends every payment that is not blocked to      *)
(* review, whatever the model would have said of it.                        *)
NeverMilder == [][Severity[Decide(signals, model)] <= Severity[Decide(signals, model)']]_vars

(* The stored score supports the verdict: BLOCK scores at least the block   *)
(* threshold, and a REVIEW below the review threshold is one the model      *)
(* itself asked for; the score always fits the 0..100 of the event schema.  *)
ScoreSupportsVerdict ==
    /\ RiskScore(signals, model) \in 0..100
    /\ Decide(signals, model) = "BLOCK" => RiskScore(signals, model) >= BlockThreshold
    /\ Decide(signals, model) = "REVIEW" =>
         RiskScore(signals, model) >= ReviewThreshold \/ (model.available /\ ModelRequiresReview(model))
=============================================================================
