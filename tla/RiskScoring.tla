---------------------------- MODULE RiskScoring ----------------------------
(***************************************************************************)
(* The scoring of one payment: the points RuleEngine.evaluate adds up, and *)
(* how DecisionProcessor.process combines rules and model into a verdict   *)
(* and a risk score.                                                       *)
(*                                                                         *)
(* The signals of a payment are the facts the rules look at.  The model    *)
(* is external: a result is any probability, in thousandths, with the      *)
(* review threshold of the artifact, or a failure to score.                *)
(***************************************************************************)
EXTENDS Integers

CONSTANTS
    HighAmount, ExtremeAmount,          \* settings, in minor units
    ReviewThreshold, BlockThreshold     \* settings, in points

\* Settings.validate, _positive_int and _bounded_score.
ValidSettings ==
    /\ {HighAmount, ExtremeAmount, ReviewThreshold, BlockThreshold} \subseteq Nat \ {0}
    /\ HighAmount < ExtremeAmount
    /\ ReviewThreshold < BlockThreshold /\ BlockThreshold <= 100

ASSUME SettingsValid == ValidSettings

Verdicts == {"ALLOW", "REVIEW", "BLOCK"}
Signals == [amount : Nat, velocity : Nat, newDevice : BOOLEAN, crossBorder : BOOLEAN,
            riskyMerchant : BOOLEAN, highRiskCountry : BOOLEAN]
ModelResults == [available : BOOLEAN, probability : 0..1000, threshold : 1..999]

\* A scoring failure, as the processor represents it.
ModelUnavailable == [available |-> FALSE, probability |-> 0, threshold |-> 500]

Larger(a, b) == IF a >= b THEN a ELSE b
Smaller(a, b) == IF a <= b THEN a ELSE b
Points(signal, n) == IF signal THEN n ELSE 0

AmountPoints(amount) ==
    IF amount >= ExtremeAmount THEN 70 ELSE Points(amount >= HighAmount, 40)

RuleScore(s) ==
    Smaller(100, AmountPoints(s.amount)
                 + Points(s.velocity >= 5, 40)
                 + Points(s.newDevice, 15)
                 + Points(s.crossBorder, 25)
                 + Points(s.riskyMerchant, 30)
                 + Points(s.highRiskCountry, 30))

RuleDecision(s) ==
    IF RuleScore(s) >= BlockThreshold THEN "BLOCK"
    ELSE IF RuleScore(s) >= ReviewThreshold THEN "REVIEW"
    ELSE "ALLOW"

\* round(probability * 100), which takes a tie to the even neighbour, kept
\* within 0..100.
ModelRiskScore(m) ==
    LET floor == m.probability \div 10
        rest  == m.probability % 10
        round == floor + Points(rest > 5 \/ (rest = 5 /\ floor % 2 = 1), 1)
    IN  Points(m.available, Smaller(100, Larger(0, round)))

ModelRequiresReview(m) == m.probability >= m.threshold

\* Mutant: a failure to score is not looked at.
Decide_FailOpen(s, m) ==
    IF RuleDecision(s) = "BLOCK" THEN "BLOCK"
    ELSE IF RuleDecision(s) = "REVIEW" \/ ModelRequiresReview(m) THEN "REVIEW"
    ELSE "ALLOW"

Decide(s, m) ==
    IF RuleDecision(s) = "BLOCK" THEN "BLOCK"
    ELSE IF ~m.available \/ RuleDecision(s) = "REVIEW" \/ ModelRequiresReview(m) THEN "REVIEW"
    ELSE "ALLOW"

\* Mutant: the fallback does not raise the score.
RiskScore_NoFallback(s, m) == Larger(RuleScore(s), ModelRiskScore(m))

RiskScore(s, m) ==
    LET scored == Larger(RuleScore(s), ModelRiskScore(m))
    IN  IF m.available THEN scored ELSE Larger(scored, ReviewThreshold)
=============================================================================
