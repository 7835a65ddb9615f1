---------------------------- MODULE MCDashboard -----------------------------
(* Instance of Dashboard for TLC. *)
EXTENDS Dashboard, MCDecisionControls

\* Newest first: the second decision for pay1 is newer than the first.
NewestEvents == <<Second, SameSource, SameId, Held>>
=============================================================================
