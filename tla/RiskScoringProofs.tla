------------------------- MODULE RiskScoringProofs -------------------------
(***************************************************************************)
(* The order between verdicts and the meaning of the score, for all valid  *)
(* settings and all signals and model results.                             *)
(***************************************************************************)
EXTENDS RiskEscalation, TLAPS

\* t is at least as risky as s, to the rules.
Worse(s, t) ==
    /\ s.amount <= t.amount /\ s.velocity <= t.velocity
    /\ (s.newDevice => t.newDevice) /\ (s.crossBorder => t.crossBorder)
    /\ (s.riskyMerchant => t.riskyMerchant) /\ (s.highRiskCountry => t.highRiskCountry)

(* The rules' score of a payment is a number of the event schema's range.   *)
LEMMA RuleScoreRange == ASSUME NEW s \in Signals PROVE RuleScore(s) \in 0..100
  BY SettingsValid DEF ValidSettings, RuleScore, Smaller, Points, AmountPoints, Signals

(* A payment that is worse in every respect has no smaller rule score.      *)
LEMMA RuleScoreMonotone ==
    ASSUME NEW s \in Signals, NEW t \in Signals, Worse(s, t)
    PROVE  RuleScore(s) <= RuleScore(t)
PROOF
  <1>1. /\ AmountPoints(s.amount) \in Nat /\ AmountPoints(t.amount) \in Nat
        /\ AmountPoints(s.amount) <= AmountPoints(t.amount)
    BY SettingsValid DEF ValidSettings, AmountPoints, Points, Worse, Signals
  <1> QED
    BY <1>1 DEF RuleScore, Smaller, Points, Worse, Signals

(* Quotient and remainder of a probability in thousandths.                  *)
LEMMA Tenths ==
    ASSUME NEW p \in 0..1000
    PROVE  /\ p \div 10 \in 0..100 /\ p % 10 \in 0..9 /\ p = 10 * (p \div 10) + (p % 10)
           /\ p \div 10 = 100 => p % 10 = 0
  OBVIOUS

(* The model's score is a number of the event schema's range.               *)
LEMMA ModelScoreRange == ASSUME NEW m \in ModelResults PROVE ModelRiskScore(m) \in 0..100
PROOF
  <1> DEFINE floor == m.probability \div 10
             rest  == m.probability % 10
             round == floor + Points(rest > 5 \/ (rest = 5 /\ floor % 2 = 1), 1)
  <1>1. m.probability \in 0..1000 /\ m.available \in BOOLEAN
    BY DEF ModelResults
  <1>2. floor \in 0..100 /\ rest \in 0..9 /\ m.probability = 10 * floor + rest
    BY <1>1, Tenths
  <1>3. floor = 100 => rest = 0
    BY <1>1, Tenths
  <1>4. ModelRiskScore(m) = Points(m.available, Smaller(100, Larger(0, round)))
    BY DEF ModelRiskScore
  <1> QED
    BY <1>1, <1>2, <1>3, <1>4 DEF Points, Smaller, Larger

(* The probability and the threshold of a result are integers.              *)
LEMMA ModelNumbers ==
    ASSUME NEW m \in ModelResults PROVE m.probability \in Int /\ m.threshold \in Int
BY DEF ModelResults

(* With one threshold, a higher probability asks for review as well.        *)
LEMMA MoreProbable ==
    ASSUME NEW m \in ModelResults, NEW n \in ModelResults,
           n.probability > m.probability, n.threshold = m.threshold
    PROVE  ModelRequiresReview(m) => ModelRequiresReview(n)
PROOF
  <1>1. /\ m.probability \in Int /\ m.threshold \in Int
        /\ n.probability \in Int /\ n.threshold \in Int
    BY ModelNumbers
  <1>2. \A p, q, t \in Int : q > p /\ p >= t => q >= t
    OBVIOUS
  <1> QED
    BY <1>1, <1>2 DEF ModelRequiresReview

(* A payment the rules see as worse, with a model result that asks for      *)
(* review whenever the first one did or is a failure, gets no milder        *)
(* verdict.                                                                 *)
LEMMA DecideMonotone ==
    ASSUME NEW s \in Signals, NEW t \in Signals, Worse(s, t),
           NEW m \in ModelResults, NEW n \in ModelResults,
           (~m.available \/ ModelRequiresReview(m)) => (~n.available \/ ModelRequiresReview(n))
    PROVE  Severity[Decide(s, m)] <= Severity[Decide(t, n)]
PROOF
  <1>1. RuleScore(s) \in 0..100 /\ RuleScore(t) \in 0..100 /\ RuleScore(s) <= RuleScore(t)
    BY RuleScoreRange, RuleScoreMonotone
  <1>2. /\ RuleDecision(s) = "BLOCK" => RuleDecision(t) = "BLOCK"
        /\ RuleDecision(s) = "REVIEW" => RuleDecision(t) \in {"REVIEW", "BLOCK"}
    BY <1>1, SettingsValid DEF ValidSettings, RuleDecision
  <1>3. /\ Decide(s, m) = "BLOCK" => Decide(t, n) = "BLOCK"
        /\ Decide(s, m) = "REVIEW" => Decide(t, n) \in {"REVIEW", "BLOCK"}
        /\ Decide(s, m) \in Verdicts /\ Decide(t, n) \in Verdicts
    BY <1>2 DEF Decide, Verdicts
  <1>4. Severity["ALLOW"] = 0 /\ Severity["REVIEW"] = 1 /\ Severity["BLOCK"] = 2
    BY DEF Severity, Verdicts
  <1> QED
    BY <1>3, <1>4 DEF Verdicts

(* The cases stay within the schema's types.                                *)
LEMMA TypeStep == TypeOK /\ [Next]_vars => TypeOK'
PROOF
  <1> SUFFICES ASSUME TypeOK, [Next]_vars PROVE TypeOK'
    OBVIOUS
  <1>1. CASE AmountGrows
    BY <1>1, CasesAssumption DEF AmountGrows, TypeOK, Signals
  <1>2. CASE VelocityGrows
    BY <1>2, CasesAssumption DEF VelocityGrows, TypeOK, Signals
  <1>3. CASE SignalAppears
    BY <1>3 DEF SignalAppears, TypeOK, Signals
  <1>4. CASE ProbabilityGrows
    BY <1>4, CasesAssumption DEF ProbabilityGrows, TypeOK, ModelResults
  <1>5. CASE ModelFails
    BY <1>5 DEF ModelFails, ModelUnavailable, TypeOK, ModelResults
  <1>6. CASE UNCHANGED vars
    BY <1>6 DEF vars, TypeOK
  <1> QED
    BY <1>1, <1>2, <1>3, <1>4, <1>5, <1>6 DEF Next

(* Signals and model results keep their types: the placeholder for a        *)
(* failed model is a result the event schema accepts.                       *)
THEOREM TypeCorrect == Spec => []TypeOK
PROOF
  <1>1. Init => TypeOK
    <2> SUFFICES ASSUME Init PROVE TypeOK
      OBVIOUS
    <2>1. signals \in Signals
      <3>1. PICK a \in Amounts, v \in Velocities :
              signals = [amount |-> a, velocity |-> v, newDevice |-> FALSE, crossBorder |-> FALSE,
                         riskyMerchant |-> FALSE, highRiskCountry |-> FALSE]
        BY DEF Init
      <3> QED
        BY <3>1, CasesAssumption DEF Signals
    <2>2. model \in ModelResults
      <3>1. PICK p \in Probabilities, h \in Thresholds :
              model = [available |-> TRUE, probability |-> p, threshold |-> h]
        BY DEF Init
      <3> QED
        BY <3>1, CasesAssumption DEF ModelResults
    <2> QED
      BY <2>1, <2>2 DEF TypeOK
  <1> QED
    BY <1>1, TypeStep, PTL DEF Spec

(* More risk, or a model that stops working, never gets a milder verdict,   *)
(* for all thresholds Settings.validate accepts.                            *)
THEOREM VerdictNeverMilder == Spec => NeverMilder
PROOF
  <1>1. TypeOK /\ [Next]_vars => [Severity[Decide(signals, model)] <= Severity[Decide(signals, model)']]_vars
    <2> SUFFICES ASSUME TypeOK, Next
                 PROVE  Severity[Decide(signals, model)] <= Severity[Decide(signals', model')]
      BY DEF vars
    <2>1. signals' \in Signals /\ model' \in ModelResults /\ signals \in Signals /\ model \in ModelResults
      BY TypeStep DEF TypeOK
    <2>2. Worse(signals, signals')
      BY <2>1 DEF Next, AmountGrows, VelocityGrows, SignalAppears, ProbabilityGrows, ModelFails, Worse, Signals
    <2>3. (~model.available \/ ModelRequiresReview(model)) => (~model'.available \/ ModelRequiresReview(model'))
      <3>1. CASE UNCHANGED model
        BY <3>1 DEF ModelRequiresReview
      <3>2. CASE ModelFails
        BY <3>2 DEF ModelFails, ModelUnavailable
      <3>3. CASE ProbabilityGrows
        <4>1. PICK p \in Probabilities : p > model.probability /\ model' = [model EXCEPT !.probability = p]
          BY <3>3 DEF ProbabilityGrows
        <4>2. /\ model'.probability > model.probability /\ model'.threshold = model.threshold
              /\ model'.available = model.available
          BY <2>1, <4>1 DEF ModelResults
        <4>3. ModelRequiresReview(model) => ModelRequiresReview(model')
          BY <2>1, <4>2, MoreProbable
        <4> QED
          BY <4>2, <4>3, Zenon
      <3> QED
        BY <3>1, <3>2, <3>3 DEF Next, AmountGrows, VelocityGrows, SignalAppears
    <2> QED
      BY <2>1, <2>2, <2>3, DecideMonotone
  <1> QED
    BY <1>1, TypeCorrect, PTL DEF Spec, NeverMilder

(* The stored score fits the event schema and supports the verdict.         *)
THEOREM ScoreSound == Spec => []ScoreSupportsVerdict
PROOF
  <1>1. TypeOK => ScoreSupportsVerdict
    <2> SUFFICES ASSUME TypeOK PROVE ScoreSupportsVerdict
      OBVIOUS
    <2>1. signals \in Signals /\ model \in ModelResults
      BY DEF TypeOK
    <2>2. RuleScore(signals) \in 0..100 /\ ModelRiskScore(model) \in 0..100
      BY <2>1, RuleScoreRange, ModelScoreRange
    <2>3. /\ RiskScore(signals, model) \in 0..100
          /\ RiskScore(signals, model) >= RuleScore(signals)
          /\ ~model.available => RiskScore(signals, model) >= ReviewThreshold
      BY <2>2, SettingsValid DEF ValidSettings, RiskScore, Larger
    <2>4. Decide(signals, model) = "BLOCK" => RuleScore(signals) >= BlockThreshold
      BY DEF Decide, RuleDecision
    <2>5. Decide(signals, model) = "REVIEW" =>
            RuleScore(signals) >= ReviewThreshold \/ ~model.available \/ ModelRequiresReview(model)
      BY DEF Decide, RuleDecision
    <2> QED
      BY <2>2, <2>3, <2>4, <2>5, SettingsValid DEF ValidSettings, ScoreSupportsVerdict
  <1> QED
    BY <1>1, TypeCorrect, PTL
=============================================================================
