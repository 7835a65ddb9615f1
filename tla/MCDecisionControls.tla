------------------------- MODULE MCDecisionControls -------------------------
(* Instances of DecisionControls for TLC. *)
EXTENDS DecisionControls, TLC

CONSTANTS pay1, pay2, stranger, m1, m2, r1, r2, Tombstone

Event(id, payment, source, verdict) ==
    [id |-> id, payment |-> payment, source |-> source, verdict |-> verdict]

\* A REVIEW decision; a second decision for the same payment; the first
\* decision's id on another payment; the first decision's source under another
\* id; a decision for a payment that does not exist; a decision whose velocity
\* does not fit its column.
Held        == Event("d1", pay1, "s1", "REVIEW")
Second      == Event("d2", pay1, "s2", "REVIEW")
SameId      == Event("d1", pay2, "s3", "BLOCK")
SameSource  == Event("d3", pay2, "s1", "ALLOW")
Stray       == Event("d4", stranger, "s4", "BLOCK")
Overflow    == Event("d5", pay1, "s5", "ALLOW")

AllEvents      == {Held, Second, SameId, SameSource, Stray, Overflow}
ConflictEvents == {Held, Second, SameId, SameSource}
StrayEvents    == {Held, Stray}
ReviewEvents   == {Held, Second}
OneEvent       == {Held}

Refusable      == {Overflow, Tombstone}

Symmetry == Permutations(Members) \cup Permutations(Requests)
=============================================================================
