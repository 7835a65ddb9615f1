-------------------------- MODULE MCRiskEscalation --------------------------
(* An instance of RiskEscalation for TLC: every amount class, velocities on *)
(* both sides of the rule's limit, probabilities around the threshold and   *)
(* around a rounding tie.                                                   *)
EXTENDS RiskEscalation

MCAmounts == {HighAmount - 1, HighAmount, ExtremeAmount - 1, ExtremeAmount}
MCVelocities == {1, 4, 5, 20}
MCProbabilities == {0, 49, 50, 395, 405, 995, 1000}
MCThresholds == {50, 999}
=============================================================================
