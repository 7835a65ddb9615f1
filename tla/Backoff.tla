------------------------------ MODULE Backoff -------------------------------
(***************************************************************************)
(* The delay arithmetic of the outbox publisher: doubling with a ceiling,  *)
(* on durations that Go keeps in an int64.                                 *)
(***************************************************************************)
EXTENDS Integers

\* Mutant: doubles first and compares afterwards.
nextBackoff_Unchecked(current, maximum) ==
    IF current >= maximum THEN maximum ELSE current * 2

\* The next delay.  The division keeps the doubling from passing the ceiling,
\* and so from overflowing.
nextBackoff(current, maximum) ==
    IF current >= maximum \/ current > maximum \div 2 THEN maximum ELSE current * 2

\* The delay before the retry that follows the attempt-th failure: the loop of
\* deliveryBackoff, as the delay after each of its iterations.
deliveryBackoff(attempt, minimum, maximum) ==
    LET delay[n \in 1..attempt] ==
          IF n = 1 THEN minimum
          ELSE IF delay[n - 1] < maximum THEN nextBackoff(delay[n - 1], maximum) ELSE delay[n - 1]
    IN  IF attempt < 1 THEN minimum ELSE delay[attempt]
=============================================================================
