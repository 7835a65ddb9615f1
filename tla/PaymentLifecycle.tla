-------------------------- MODULE PaymentLifecycle --------------------------
(***************************************************************************)
(* What the decision consumer and the review API together promise about    *)
(* every payment: it is decided by at most one automated verdict, a REVIEW *)
(* verdict is resolved by at most one reviewer, and its status is at all   *)
(* times the one that the verdict and the resolution imply.  Nothing is    *)
(* ever taken back.                                                        *)
(***************************************************************************)
CONSTANTS
    Payments,    \* accepted payments
    Reviewers    \* those who may resolve a review

VARIABLES
    status,      \* per payment, its status
    verdicts,    \* per payment, the set of automated verdicts recorded for it
    resolutions  \* per payment, the set of <<reviewer, outcome>> recorded for it

Init ==
    /\ status = [p \in Payments |-> "PENDING_RISK"]
    /\ verdicts = [p \in Payments |-> {}]
    /\ resolutions = [p \in Payments |-> {}]

\* The automated decision: final unless it asks for a review.
Decide(p) ==
    /\ status[p] = "PENDING_RISK" /\ verdicts[p] = {} /\ resolutions[p] = {}
    /\ \E d \in {<<"ALLOW", "ALLOWED">>, <<"REVIEW", "REVIEW">>, <<"BLOCK", "BLOCKED">>} :
          /\ verdicts' = [verdicts EXCEPT ![p] = {d[1]}]
          /\ status' = [status EXCEPT ![p] = d[2]]
    /\ UNCHANGED resolutions

\* The reviewer's resolution of a payment in review.
Resolve(p) ==
    /\ status[p] = "REVIEW" /\ verdicts[p] = {"REVIEW"} /\ resolutions[p] = {}
    /\ \E r \in Reviewers, o \in {"ALLOWED", "BLOCKED"} :
          /\ resolutions' = [resolutions EXCEPT ![p] = {<<r, o>>}]
          /\ status' = [status EXCEPT ![p] = o]
    /\ UNCHANGED verdicts

Next == \E p \in Payments : Decide(p) \/ Resolve(p)

Spec == Init /\ [][Next]_<<status, verdicts, resolutions>>
=============================================================================
