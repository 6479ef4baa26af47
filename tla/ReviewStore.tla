---------------------------- MODULE ReviewStore ----------------------------
(***************************************************************************)
(* Application memory (memory/store.py) and the two ways a reviewer        *)
(* reaches a case: the review API and the resume of a paused run.          *)
(*                                                                         *)
(* Every store method is one BEGIN IMMEDIATE transaction, so it is one     *)
(* atomic action; a run's persist node and its resumed await_review node   *)
(* are several transactions, between which other runs, API calls and a     *)
(* crash of the process may come.  A paused run lives in its checkpoint.   *)
(***************************************************************************)
EXTENDS Integers, Sequences, FiniteSets

CONSTANTS
    Runs,            \* assessment runs; each records one assessment
    Pausing,         \* the runs started with pause_on_red
    Urgency,         \* _priority's account terms: a smaller value comes first
    MAX_QUEUE_LIMIT, \* candidates list_cases fetches
    LastId           \* the last regression number of full width: 99999

ASSUME PausingAssumption == Pausing \subseteq Runs
ASSUME UrgencyAssumption == Urgency \in [Runs -> Nat]
ASSUME LimitsAssumption  == MAX_QUEUE_LIMIT \in Nat \ {0} /\ LastId \in Nat \ {0}

Actions == {"approve", "override", "request_data", "escalate"}
Origins == {"reviewer_override", "reviewer_data_request", "reviewer_escalation",
            "run_failure", "guardrail_false_pass"}
Stages  == {"deciding", "recorded", "opened", "paused", "resolving",
            "reviewed", "completed", "lost"}

VARIABLES
    stage,        \* where each run is
    case,         \* its review case: status and, once resolved, the decision
    opened,       \* runs in the order their cases were opened
    regressions,  \* regression rows: number, origin, the run they belong to
    applied       \* the decision the run's final checkpoint holds

vars == <<stage, case, opened, regressions, applied>>

NoCase == [status |-> "none", action |-> "none"]

Init ==
    /\ stage = [r \in Runs |-> "deciding"]
    /\ case = [r \in Runs |-> NoCase]
    /\ opened = <<>>
    /\ regressions = {}
    /\ applied = [r \in Runs |-> "none"]

----------------------------------------------------------------------------
\* _insert_regression: the number after the greatest identifier.  Identifiers
\* are compared as text, and REG-100000 sorts below REG-99999.
Numbers  == {row.number : row \in regressions}
Greatest == IF LastId \in Numbers THEN LastId
            ELSE IF Numbers = {} THEN 0
            ELSE CHOOSE n \in Numbers : \A m \in Numbers : m <= n

\* The primary key refuses a number that is taken, and with it the transaction.
CanInsert == Greatest + 1 \notin Numbers

Row(origin, r) == [number |-> Greatest + 1, origin |-> origin, run |-> r]

Origin(action) ==
    CASE action = "override"     -> "reviewer_override"
      [] action = "request_data" -> "reviewer_data_request"
      [] action = "escalate"     -> "reviewer_escalation"

\* A decision other than an approval files a regression (creates_regression_case).
Files(action) == action # "approve"

----------------------------------------------------------------------------
\* The persist node, one transaction after the other.

RecordAssessment(r) ==
    /\ stage[r] = "deciding"
    /\ stage' = [stage EXCEPT ![r] = "recorded"]
    /\ UNCHANGED <<case, opened, regressions, applied>>

OpenReviewCase(r) ==
    /\ stage[r] = "recorded"
    /\ stage' = [stage EXCEPT ![r] = "opened"]
    /\ case' = [case EXCEPT ![r] = [status |-> "open", action |-> "none"]]
    /\ opened' = Append(opened, r)
    /\ UNCHANGED <<regressions, applied>>

\* A run that ends green or amber opens no case; a failed one is filed.
Finish(r) ==
    /\ \/ stage[r] = "recorded" /\ stage' = [stage EXCEPT ![r] = "completed"]
       \/ stage[r] = "opened" /\ stage' = [stage EXCEPT ![r] =
              IF r \in Pausing THEN "paused" ELSE "completed"]
    /\ \/ UNCHANGED regressions
       \/ CanInsert /\ regressions' = regressions \cup {Row("run_failure", r)}
    /\ UNCHANGED <<case, opened, applied>>

\* The row cannot be inserted: persist raises and the run ends without a result.
FinishRaises(r) ==
    /\ stage[r] \in {"recorded", "opened"}
    /\ ~CanInsert
    /\ stage' = [stage EXCEPT ![r] = "lost"]
    /\ UNCHANGED <<case, opened, regressions, applied>>

\* The offline safety evaluation files rows of its own.
RecordFalsePass(r) ==
    /\ CanInsert
    /\ regressions' = regressions \cup {Row("guardrail_false_pass", r)}
    /\ UNCHANGED <<stage, case, opened, applied>>

----------------------------------------------------------------------------
\* The one place a case is closed.

\* Mutant: the status of the case is not looked at.
resolve_review_case_reopened(r, action) ==
    /\ case[r].status # "none"
    /\ Files(action) => CanInsert
    /\ case' = [case EXCEPT ![r] = [status |-> "resolved", action |-> action]]
    /\ regressions' = IF Files(action)
                      THEN regressions \cup {Row(Origin(action), r)} ELSE regressions

\* Mutant: only an override is remembered.
resolve_review_case_forgets(r, action) ==
    /\ case[r].status = "open"
    /\ Files(action) => CanInsert
    /\ case' = [case EXCEPT ![r] = [status |-> "resolved", action |-> action]]
    /\ regressions' = IF action = "override"
                      THEN regressions \cup {Row(Origin(action), r)} ELSE regressions

resolve_review_case(r, action) ==
    /\ case[r].status = "open"
    /\ Files(action) => CanInsert
    /\ case' = [case EXCEPT ![r] = [status |-> "resolved", action |-> action]]
    /\ regressions' = IF Files(action)
                      THEN regressions \cup {Row(Origin(action), r)} ELSE regressions

\* POST /review-cases/{case_id}/decision; a refusal (404, 409) changes nothing.
Decide(r, action) ==
    /\ resolve_review_case(r, action)
    /\ UNCHANGED <<stage, opened, applied>>

\* Mutant: an already resolved case is taken for this resume's own work.
Resume_tolerant(r, action) ==
    /\ stage[r] = "paused"
    /\ stage' = [stage EXCEPT ![r] = "resolving"]
    /\ applied' = [applied EXCEPT ![r] = action]
    /\ IF case[r].status = "open" THEN resolve_review_case(r, action)
       ELSE UNCHANGED <<case, regressions>>
    /\ UNCHANGED opened

\* await_review after the interrupt: the store commits before the node's
\* update reaches a checkpoint.  A refused decision raises and the run stays
\* paused.
Resume(r, action) ==
    /\ stage[r] = "paused"
    /\ resolve_review_case(r, action)
    /\ stage' = [stage EXCEPT ![r] = "resolving"]
    /\ applied' = [applied EXCEPT ![r] = action]
    /\ UNCHANGED opened

Checkpoint(r) ==
    /\ stage[r] = "resolving"
    /\ stage' = [stage EXCEPT ![r] = "reviewed"]
    /\ UNCHANGED <<case, opened, regressions, applied>>

\* The process dies: a run inside persist is lost, one whose resume had not
\* been checkpointed is paused again, and the store keeps what it committed.
Crash ==
    /\ \E r \in Runs : stage[r] \in {"deciding", "recorded", "opened", "resolving"}
    /\ stage' = [r \in Runs |->
          IF stage[r] \in {"deciding", "recorded", "opened"} THEN "lost"
          ELSE IF stage[r] = "resolving" THEN "paused" ELSE stage[r]]
    /\ applied' = [r \in Runs |-> IF stage[r] = "resolving" THEN "none" ELSE applied[r]]
    /\ UNCHANGED <<case, opened, regressions>>

Next ==
    \/ \E r \in Runs :
          \/ RecordAssessment(r) \/ OpenReviewCase(r) \/ Finish(r) \/ FinishRaises(r)
          \/ RecordFalsePass(r) \/ Checkpoint(r)
          \/ \E action \in Actions : Decide(r, action) \/ Resume(r, action)
    \/ Crash

Spec == Init /\ [][Next]_vars
----------------------------------------------------------------------------
\* The review queue (list_cases over review_queue).

OpenAt(i) == case[opened[i]].status = "open"

NewerThan(i) == {j \in DOMAIN opened : j > i /\ OpenAt(j)}

\* The newest candidates, as positions in the order of opening.
Candidates ==
    {i \in DOMAIN opened : OpenAt(i) /\ Cardinality(NewerThan(i)) < MAX_QUEUE_LIMIT}

\* Route is red throughout; then account terms, then age.
Before(i, j) ==
    \/ Urgency[opened[i]] < Urgency[opened[j]]
    \/ Urgency[opened[i]] = Urgency[opened[j]] /\ i < j

\* Mutant: the limit is applied before the order.
Page_newest(limit) ==
    {i \in Candidates : Cardinality({j \in Candidates : j > i}) < limit}

\* The first page: the limit is applied after the order.
Page(limit) ==
    {i \in Candidates : Cardinality({j \in Candidates : Before(j, i)}) < limit}
----------------------------------------------------------------------------
ReviewerOrigins == {Origin(action) : action \in Actions \ {"approve"}}
ReviewerRows(r) == {row \in regressions : row.run = r /\ row.origin \in ReviewerOrigins}

\* Every row has one of REGRESSION_ORIGINS and belongs to a run; a case is opened
\* for a run.
TypeOK ==
    /\ stage \in [Runs -> Stages]
    /\ case \in [Runs -> [status: {"none", "open", "resolved"},
                          action: Actions \cup {"none"}]]
    /\ applied \in [Runs -> Actions \cup {"none"}]
    /\ opened \in Seq(Runs)
    /\ \A row \in regressions : row.origin \in Origins /\ row.run \in Runs

\* An override, a data request and an escalation each leave exactly one row,
\* of their own origin; an approval leaves none (resolve_review_case: one
\* transaction, whichever path the reviewer arrived by).
RegressionTraceable ==
    \A r \in Runs :
        IF case[r].status = "resolved" /\ Files(case[r].action)
        THEN \E row \in ReviewerRows(r) : /\ ReviewerRows(r) = {row}
                                          /\ row.origin = Origin(case[r].action)
        ELSE ReviewerRows(r) = {}

\* A reviewed run shows the decision the store holds, not one that lost the
\* race against the API (a resume and a review converge on one stored state).
RunShowsStoredDecision ==
    \A r \in Runs : stage[r] = "reviewed" =>
        case[r].status = "resolved" /\ applied[r] = case[r].action

\* Nobody rewrites a decision once it is committed, and no case is withdrawn.
DecisionsAreFinal ==
    [][\A r \in Runs : /\ case[r].status = "resolved" => case'[r] = case[r]
                       /\ case[r].status = "open" => case'[r].status # "none"]_vars

\* Of two cases waiting, the more urgent one is on the first page, whatever its
\* length, whenever the other is: the oldest red case of the largest account
\* surfaces (list_cases), unless a full fetch of newer cases waits behind it.
FirstPageIsMostUrgent ==
    \A limit \in 1..MAX_QUEUE_LIMIT : \A i, j \in DOMAIN opened :
        OpenAt(i) /\ Before(i, j) /\ j \in Page(limit) =>
            i \in Page(limit) \/ Cardinality(NewerThan(i)) >= MAX_QUEUE_LIMIT

=============================================================================
