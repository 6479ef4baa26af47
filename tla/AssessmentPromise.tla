------------------------- MODULE AssessmentPromise -------------------------
(***************************************************************************)
(* What one assessment promises its requester, whatever the graph inside:  *)
(* a request is answered at most once, a held answer waits for a person,   *)
(* only a held answer can be changed, and only a person may put another    *)
(* outcome under it.  The states are the ones a caller sees in             *)
(* AssessmentRun: blocked, result with a band, interrupt, reviewed.        *)
(***************************************************************************)
VARIABLES
    answer,   \* "open", "refused", "failed", "released", "held", "decided"
    label     \* who chose the outcome shown: "none", "system", "reviewer"

avars == <<answer, label>>

Init == answer = "open" /\ label = "none"

Refuse  == answer = "open" /\ answer' = "refused" /\ label' = "none"
Fail    == answer = "open" /\ answer' = "failed" /\ label' = "none"
Release == /\ answer = "open"
           /\ answer' = "released"
           /\ label' \in {"none", "system"}
Hold    == /\ answer = "open"
           /\ answer' = "held"
           /\ label' \in {"none", "system"}

\* A person keeps the label, withdraws it, or replaces one the system gave.
Decide  == /\ answer = "held"
           /\ answer' = "decided"
           /\ \/ label' \in {label, "none"}
              \/ label = "system" /\ label' = "reviewer"

Next == Refuse \/ Fail \/ Release \/ Hold \/ Decide

Spec == Init /\ [][Next]_avars /\ WF_avars(Refuse \/ Fail \/ Release \/ Hold)
=============================================================================
