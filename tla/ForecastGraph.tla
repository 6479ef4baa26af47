--------------------------- MODULE ForecastGraph ---------------------------
(***************************************************************************)
(* One assessment run of the LangGraph workflow in                         *)
(* backend/src/meridian/graph: builder.py wires the nodes, nodes.py        *)
(* implements them, routing.py decides every conditional edge.             *)
(*                                                                         *)
(* An action is one node: it reads the checkpointed state, applies the     *)
(* node's whole update and schedules the successors the edges name.  The   *)
(* two evidence lanes share a superstep, so they complete in either order. *)
(* What tools, retrieval and the language model return is chosen from the  *)
(* constant sets QuantResults, Observations and Bills.                     *)
(***************************************************************************)
EXTENDS Integers, Sequences, FiniteSets

CONSTANTS
    None,          \* a state key no node has written
    SubGoals,      \* the account sub-goals of the plan
    Requests,      \* the requests under study
    QuantResults,  \* what the telemetry tools and the forecaster may yield
    Observations,  \* what one sub-goal's search may yield
    Bills,         \* what one structured generation may cost
    MaxTokens,     \* MAX_RUN_TOKENS
    HasModel,      \* is a language-model provider configured?
    Adjudication   \* build_graph's adjudication argument

MAX_EVIDENCE_ROUNDS == 2
MAX_OUTPUT_REGENERATIONS == 1
MAX_MODEL_CALLS == 8

\* Days, as far as the cutoffs are compared.
Effective == 2                  \* the account's effective cutoff
Horizon   == 3                  \* DATASET_AS_OF_DATE
Days      == 1..Horizon

\* A citation is "sound", or "foreign" when citation_violation names a rule.
Citations == {"sound", "foreign"}
Levels    == 0..2               \* below amber, amber band, green band
Stages    == {"intake", "execution", "evidence", "output", "routing"}
Outcomes  == {"pass", "block", "review", "clarify"}
Routes    == {"green", "amber", "red", "blocked"}
Origins   == {"retrieval_exhausted", "verification_failure", "model_error",
              "reviewer_override"}
Lanes     == {"quantitative_lane", "retrieval_lane"}
Nodes     == Lanes \cup
    {"validate_request", "safe_refusal", "load_context", "plan_sub_goals",
     "merge_evidence", "targeted_retry", "degraded_result", "conflict_gate",
     "fast_adjudication", "tot_adjudication", "verify_output",
     "safe_fallback", "assign_route", "persist", "await_review"}

RequestType == [asOf: Days \cup {None}, pauseOnRed: BOOLEAN, highValue: BOOLEAN,
                stored: BOOLEAN]
ObservationType == [cites: SUBSET Citations, thin: BOOLEAN]
QuantResultType == [available: BOOLEAN, provenance: BOOLEAN,
                    adverse: BOOLEAN, tie: BOOLEAN, stale: BOOLEAN]
BillType == [attempts: 1..2, tokens: Nat, ok: BOOLEAN]

ASSUME RequestsAssumption     == Requests \subseteq RequestType
ASSUME QuantResultsAssumption == QuantResults \subseteq QuantResultType
ASSUME ObservationsAssumption == Observations \subseteq ObservationType
ASSUME BillsAssumption        == Bills \subseteq BillType
ASSUME SwitchesAssumption     == /\ HasModel \in BOOLEAN
                                 /\ Adjudication \in {"conflict_gated", "linear"}
ASSUME MaxTokensAssumption    == MaxTokens \in Nat \ {0}
VARIABLES
    request,       \* the AssessmentRequest, with the account's value band and
                   \* whether the runtime has application memory (stored)
    pending,       \* nodes of the current superstep that have not completed
    status,        \* "running", "paused", "done" or "raised"
    intake, quantitative, retrieval, round, bundle, conflict,
    draft, verification, final, route, reviewState,
    guardrails,    \* the accumulating list of stage verdicts
    modelCalls, tokens, late,   \* the budget counters; late: clock ran out
    errors,        \* FailureCategory of every NodeError so far
    recorded,      \* the run's assessment is in application memory
    case,          \* its review case is open or resolved there
    regressions    \* origins of the regressions it filed

evidence == <<quantitative, retrieval, round, bundle>>
decision == <<conflict, draft, verification>>
released == <<final, route, reviewState>>
budget   == <<modelCalls, tokens>>
memory   == <<recorded, case, regressions>>
vars == <<request, pending, status, intake, evidence, decision,
          released, guardrails, budget, late, errors, memory>>

----------------------------------------------------------------------------
\* Pure helpers.

Min2(a, b) == IF a < b THEN a ELSE b

HasStore == request.stored

\* The cutoff the fan-in expects both envelopes to carry.
ExpectedCutoff == IF request.asOf = None THEN Effective
                  ELSE Min2(Effective, request.asOf)

Cites(r)     == UNION {r.obs[g].cites : g \in SubGoals}
Covered(o)   == o.cites # {} /\ ~o.thin
Uncovered(r) == {g \in SubGoals : ~Covered(r.obs[g])}
Exhausted(r) == Cites(r) = {}

Unavailable == [available |-> FALSE, cutoff |-> Effective,
                obs |-> [g \in SubGoals |-> [cites |-> {}, thin |-> TRUE]]]

Verdict(stage, outcome) == [stage |-> stage, outcome |-> outcome]

\* _strict_verdict: did the stage ever fail in this run?
EverFailed(stage) ==
    \E i \in DOMAIN guardrails : /\ guardrails[i].stage = stage
                                 /\ guardrails[i].outcome # "pass"

\* _verdict: did the stage's latest verdict fail?
LatestFailed(stage) ==
    \E i \in DOMAIN guardrails :
        /\ guardrails[i].stage = stage
        /\ guardrails[i].outcome # "pass"
        /\ \A j \in DOMAIN guardrails : guardrails[j].stage = stage => j <= i

\* RunBudget.exceeded over what has been spent so far and the clock.
Exceeded(calls, toks, clock) ==
    calls >= MAX_MODEL_CALLS \/ toks >= MaxTokens \/ clock

route_intake(outcome) ==
    IF outcome \in {"block", "clarify"} THEN "safe_refusal" ELSE "load_context"

\* Mutant: an exhausted retrieval is treated as one more uncovered sub-goal.
coverage_verdict_blind(q, r, n) ==
    IF ~q.available \/ ~r.available THEN "critical"
    ELSE IF n < MAX_EVIDENCE_ROUNDS /\ Uncovered(r) # {} THEN "recoverable"
    ELSE "sufficient"

coverage_verdict(q, r, n) ==
    IF ~q.available \/ ~r.available THEN "critical"
    ELSE IF Exhausted(r)
         THEN IF n < MAX_EVIDENCE_ROUNDS THEN "recoverable" ELSE "critical"
    ELSE IF Uncovered(r) # {} /\ n < MAX_EVIDENCE_ROUNDS THEN "recoverable"
    ELSE "sufficient"

route_coverage(q, r, n) ==
    CASE coverage_verdict(q, r, n) = "recoverable" -> "targeted_retry"
      [] coverage_verdict(q, r, n) = "critical"    -> "degraded_result"
      [] OTHER                                     -> "conflict_gate"

route_conflict(c) ==
    IF c.severity # "none" /\ Adjudication = "conflict_gated"
    THEN "tot_adjudication" ELSE "fast_adjudication"

\* Mutant: the regeneration bound is off by one.
route_verification_twice(v, d) ==
    IF v.passed THEN "assign_route"
    ELSE IF d.selectedBy = "tree_of_thought" THEN "safe_fallback"
    ELSE IF v.attempts <= MAX_OUTPUT_REGENERATIONS + 1 THEN "fast_adjudication"
    ELSE "safe_fallback"

\* Mutant: a second failure goes straight to routing.
route_verification_unreplaced(v, d) ==
    IF v.passed \/ v.attempts > MAX_OUTPUT_REGENERATIONS THEN "assign_route"
    ELSE IF d.selectedBy = "tree_of_thought" THEN "safe_fallback"
    ELSE "fast_adjudication"

route_verification(v, d) ==
    IF v.passed THEN "assign_route"
    ELSE IF d.selectedBy = "tree_of_thought" THEN "safe_fallback"
    ELSE IF v.attempts <= MAX_OUTPUT_REGENERATIONS THEN "fast_adjudication"
    ELSE "safe_fallback"

route_human_review(r, opened) ==
    IF request.pauseOnRed /\ r = "red" /\ opened THEN "await_review" ELSE "end"

\* Mutant: the conflict cap is lifted.
compute_confidence_uncapped(raw, b, c) ==
    IF b.critical \/ b.tie THEN 0 ELSE IF b.gap THEN Min2(raw, 1) ELSE raw

\* Caps sit strictly below the band they hold a run under (thresholds.py).
compute_confidence(raw, b, c) ==
    IF b.critical \/ c.severity = "severe" \/ b.tie THEN 0
    ELSE IF b.gap THEN Min2(raw, 1) ELSE raw

apply_verification_cap(level, v) ==
    IF v.attempts > 1 THEN Min2(level, 1) ELSE level

\* Mutant: only the last round's evidence screen counts.
red_rules_forgetful(level, d) ==
    \/ level < 1 \/ bundle.tie \/ bundle.critical
    \/ conflict.severity = "severe" /\ ~conflict.resolved
    \/ ~verification.passed
    \/ request.highValue /\ d.adverse
    \/ intake = "review"
    \/ LatestFailed("evidence")

red_rules(level, d) ==
    \/ level < 1
    \/ bundle.tie
    \/ bundle.critical
    \/ conflict.severity = "severe" /\ ~conflict.resolved
    \/ ~verification.passed
    \/ request.highValue /\ d.adverse
    \/ intake = "review"            \* the escalate_to_human rule
    \/ EverFailed("evidence")

amber_rules(level) ==
    \/ level < 2
    \/ bundle.gap
    \/ verification.attempts > 1
    \/ bundle.stale
    \/ LatestFailed("execution")

human_route(level, d) ==
    IF red_rules(level, d) THEN "red"
    ELSE IF amber_rules(level) THEN "amber" ELSE "green"

abstention_route(critical, unresolved) ==
    IF unresolved \/ critical \/ request.highValue THEN "red" ELSE "amber"

----------------------------------------------------------------------------
\* The scheduler: a superstep ends when its last node has completed.

Goto(n, next) ==
    /\ status = "running"
    /\ n \in pending
    /\ pending' = (pending \ {n}) \cup next

Join(lane) == IF pending = {lane} THEN {"merge_evidence"} ELSE {}

Judge(stage, outcome) == Append(guardrails, Verdict(stage, outcome))

\* A node raised: LangGraph propagates it and the invocation is over.
Raise(n) ==
    /\ status = "running"
    /\ n \in pending
    /\ pending' = {}
    /\ status' = "raised"
    /\ UNCHANGED <<request, intake, evidence, decision, released,
                   guardrails, budget, late, errors>>

Init ==
    /\ request \in Requests
    /\ pending = {"validate_request"}
    /\ status = "running"
    /\ intake = None /\ quantitative = None /\ retrieval = None
    /\ bundle = None /\ conflict = None /\ draft = None
    /\ verification = None /\ final = None /\ route = None
    /\ round = 0
    /\ reviewState = "not_required"
    /\ guardrails = <<>>
    /\ modelCalls = 0 /\ tokens = 0 /\ late = FALSE
    /\ errors = {}
    /\ recorded = FALSE /\ case = "none" /\ regressions = {}

----------------------------------------------------------------------------
\* Intake, context and plan.

Intake ==
    \E outcome \in Outcomes :
        /\ intake' = outcome
        /\ guardrails' = Judge("intake", outcome)
        /\ Goto("validate_request", {route_intake(outcome)})
        /\ UNCHANGED <<request, status, evidence, decision, released, budget,
                       late, errors, memory>>

Blocked ==
    /\ Goto("safe_refusal", {})
    /\ route' = "blocked"
    /\ status' = "done"
    /\ UNCHANGED <<request, intake, evidence, decision, final, reviewState,
                   guardrails, budget, late, errors, memory>>

LoadContext ==
    /\ Goto("load_context", {"plan_sub_goals"})
    /\ UNCHANGED <<request, status, intake, evidence, decision, released,
                   guardrails, budget, late, errors, memory>>

\* get_account_profile is called outside any handler.
LoadContextRaises == Raise("load_context") /\ UNCHANGED memory

\* A provider that was asked and failed is an error of the run; one that is not
\* configured, or that the budget forbids, is not.
_generation_errors(asked, bill) == IF asked /\ ~bill.ok THEN {"model"} ELSE {}

\* One structured generation, if the budget read at the node's start allows it.
\* usable: its output was accepted; otherwise the deterministic floor is used.
\* The wall clock may run out while the node works.
Generate(usable) ==
    LET allowed == HasModel /\ ~Exceeded(modelCalls, tokens, late)
    IN \E bill \in (IF allowed THEN Bills
                    ELSE {[attempts |-> 0, tokens |-> 0, ok |-> FALSE]}) :
        /\ usable = bill.ok
        /\ modelCalls' = modelCalls + bill.attempts
        /\ tokens' = tokens + bill.tokens
        /\ errors' = errors \cup _generation_errors(allowed, bill)
        /\ late' \in {late, TRUE}

\* RunBudget.verdict of _budget_after, whose own reading of the clock counts.
BudgetVerdict ==
    IF Exceeded(modelCalls', tokens', late') THEN "review" ELSE "pass"

Plan ==
    /\ Goto("plan_sub_goals", Lanes)
    /\ \E usable \in BOOLEAN : Generate(usable)
    /\ guardrails' = Judge("execution", BudgetVerdict)
    /\ round' = 0
    /\ UNCHANGED <<request, status, intake, quantitative, retrieval, bundle,
                   decision, released, memory>>

----------------------------------------------------------------------------
\* The two lanes, their fan-in and the one targeted retry.

FailedLane(cutoff) ==
    [cutoff |-> cutoff, available |-> FALSE, provenance |-> TRUE,
     adverse |-> FALSE, tie |-> FALSE, stale |-> FALSE]

Quantitative ==
    /\ Goto("quantitative_lane", Join("quantitative_lane"))
    /\ \/ /\ \E q \in QuantResults :
                quantitative' = [cutoff |-> ExpectedCutoff,
                                 available |-> q.available,
                                 provenance |-> q.provenance,
                                 adverse |-> q.available /\ q.adverse,
                                 tie |-> q.available /\ q.tie,
                                 stale |-> q.stale]
          /\ UNCHANGED errors
       \/ /\ quantitative' = FailedLane(IF request.asOf = None THEN Horizon
                                        ELSE request.asOf)
          /\ UNCHANGED errors
       \/ /\ quantitative' = FailedLane(Effective)
          /\ errors' = errors \cup {"permanent_tool"}
    /\ UNCHANGED <<request, status, intake, retrieval, round, bundle, decision,
                   released, guardrails, budget, late, memory>>

\* The envelope is stamped with the account's cutoff, not the request's.
Retrieval ==
    /\ Goto("retrieval_lane", Join("retrieval_lane"))
    /\ \/ /\ \E found \in [SubGoals -> Observations] :
                retrieval' = [available |-> TRUE, cutoff |-> Effective, obs |-> found]
          /\ UNCHANGED errors
       \/ retrieval' = Unavailable /\ UNCHANGED errors
       \/ retrieval' = Unavailable /\ errors' = errors \cup {"permanent_tool"}
    /\ UNCHANGED <<request, status, intake, quantitative, round, bundle,
                   decision, released, guardrails, budget, late, memory>>

\* screen_evidence: what survives, and whether anything was withheld.
QuantitativeValid(q) == q.cutoff = ExpectedCutoff /\ q.provenance
Kept(r) == IF r.cutoff = ExpectedCutoff THEN Cites(r) \cap {"sound"} ELSE {}
Clean(q, r) == /\ QuantitativeValid(q)
               /\ r.cutoff = ExpectedCutoff
               /\ "foreign" \notin Cites(r)

ScreenedQuantitative(q) ==
    IF QuantitativeValid(q) THEN q
    ELSE [q EXCEPT !.available = FALSE, !.adverse = FALSE, !.tie = FALSE]

\* Mutant: the lane keeps what the screen withheld.
ScreenedRetrieval_unscreened(q, r) == r

ScreenedRetrieval(q, r) ==
    IF Clean(q, r) THEN r
    ELSE [r EXCEPT !.obs = [g \in SubGoals |->
            [cites |-> r.obs[g].cites \cap Kept(r), thin |-> r.obs[g].thin]]]

Merge ==
    LET q == ScreenedQuantitative(quantitative)
        r == ScreenedRetrieval(quantitative, retrieval)
    IN /\ Goto("merge_evidence", {route_coverage(q, r, round + 1)})
       /\ quantitative' = q
       /\ retrieval' = r
       /\ round' = round + 1
       /\ \E old \in BOOLEAN :   \* a retrieved family's newest date is stale
            bundle' = [cites |-> Kept(retrieval),
                       critical |-> ~q.available \/ ~r.available,
                       gap |-> Uncovered(r) # {},
                       stale |-> q.stale \/ (old /\ Kept(retrieval) # {}),
                       adverse |-> q.adverse, tie |-> q.tie]
       /\ guardrails' = Judge("evidence",
               IF Clean(quantitative, retrieval) THEN "pass" ELSE "review")
       /\ UNCHANGED <<request, status, intake, decision, released, budget,
                      late, errors, memory>>

\* merge_evidence(previous, retry): a retried sub-goal replaces its observation.
TargetedRetry ==
    LET targets == Uncovered(retrieval)
    IN /\ Goto("targeted_retry", {"merge_evidence"})
       /\ \/ \E found \in [targets -> Observations] :
                retrieval' = [retrieval EXCEPT !.obs =
                    [g \in SubGoals |-> IF g \in targets THEN found[g]
                                        ELSE retrieval.obs[g]]]
          \/ UNCHANGED retrieval      \* the retry was unavailable
       /\ UNCHANGED <<request, status, intake, quantitative, round, bundle,
                      decision, released, guardrails, budget, late, errors,
                      memory>>

\* gather handles ToolUnavailableError only and no caller catches the rest.
TargetedRetryRaises == Raise("targeted_retry") /\ UNCHANGED memory

----------------------------------------------------------------------------
\* Adjudication and verification.

\* CONFLICT-NEAR-TIE: a tied distribution always fires at least one trigger.
Severities(b) == IF b.tie THEN {"low", "severe"} ELSE {"none", "low", "severe"}

ConflictGate ==
    \E severity \in {"none", "low", "severe"} :
        LET c == [severity |-> severity, resolved |-> FALSE]
        IN /\ Goto("conflict_gate", {route_conflict(c)})
           /\ severity \in Severities(bundle)
           /\ conflict' = c
           /\ UNCHANGED <<request, status, intake, evidence, draft, verification,
                          released, guardrails, budget, late, errors, memory>>

\* A usable generation may argue the draft; the floor is always deterministic.
Narratives(usable) ==
    IF usable THEN {"model", "deterministic"} ELSE {"deterministic"}

FinalResult(kind, exhausted, level, adverse, cites) ==
    [kind |-> kind, exhausted |-> exhausted, level |-> level,
     adverse |-> adverse, cites |-> cites, author |-> "system"]

TotSelects ==
    /\ Goto("tot_adjudication", {"verify_output"})
    /\ \E usable \in BOOLEAN, raw \in Levels, adverse \in BOOLEAN :
          /\ Generate(usable)
          /\ \E source \in Narratives(usable) :
               draft' = [selectedBy |-> "tree_of_thought", narrative |-> source,
                         raw |-> raw,
                         level |-> compute_confidence(raw, bundle, conflict),
                         adverse |-> adverse]
    /\ conflict' = [conflict EXCEPT !.resolved = TRUE]
    /\ guardrails' = Judge("execution", BudgetVerdict)
    /\ UNCHANGED <<request, status, intake, evidence, verification, released,
                   memory>>

\* The abstention's guardrails entry replaces the one of the spend.
TotAbstains ==
    /\ Goto("tot_adjudication", {"persist"})
    /\ \E usable \in BOOLEAN : Generate(usable)
    /\ conflict' = [conflict EXCEPT !.resolved = FALSE]
    /\ final' = FinalResult("insufficient", FALSE, 0, FALSE, bundle.cites)
    /\ route' = abstention_route(bundle.critical, TRUE)
    /\ guardrails' = guardrails \o <<Verdict("output", "pass"),
                                     Verdict("routing", "review")>>
    /\ UNCHANGED <<request, status, intake, evidence, draft, verification,
                   reviewState, memory>>

FastAdjudication ==
    /\ Goto("fast_adjudication", {"verify_output"})
    /\ \E usable \in BOOLEAN, raw \in Levels :
          /\ Generate(usable)
          /\ draft' = [selectedBy |-> "linear",
                       narrative |-> IF usable THEN "model" ELSE "deterministic",
                       raw |-> raw,
                       level |-> compute_confidence(raw, bundle, conflict),
                       adverse |-> bundle.adverse]
    /\ guardrails' = Judge("execution", BudgetVerdict)
    /\ UNCHANGED <<request, status, intake, evidence, conflict, verification,
                   released, memory>>

VerifyOutput ==
    \E passed \in BOOLEAN :
        LET v == [passed |-> passed,
                  attempts |-> IF verification = None THEN 1
                               ELSE verification.attempts + 1]
        IN /\ Goto("verify_output", {route_verification(v, draft)})
           /\ verification' = v
           /\ guardrails' = Judge("output", IF passed THEN "pass" ELSE "review")
           /\ UNCHANGED <<request, status, intake, evidence, conflict, draft,
                          released, budget, late, errors, memory>>

SafeFallback ==
    /\ Goto("safe_fallback", {"assign_route"})
    /\ draft' = [draft EXCEPT !.narrative = "deterministic"]
    /\ UNCHANGED <<request, status, intake, evidence, conflict, verification,
                   released, guardrails, budget, late, errors, memory>>

----------------------------------------------------------------------------
\* Degraded results, routing, persistence and review.

Degraded ==
    /\ Goto("degraded_result", {"persist"})
    /\ final' = FinalResult("insufficient",
                            retrieval.available /\ Exhausted(retrieval),
                            0, FALSE, Cites(retrieval))
    /\ route' = abstention_route(bundle.critical, FALSE)
    /\ guardrails' = guardrails \o <<Verdict("output", "pass"),
                                     Verdict("routing", "review")>>
    /\ UNCHANGED <<request, status, intake, evidence, decision, reviewState,
                   budget, late, errors, memory>>

AssignRoute ==
    LET level == apply_verification_cap(draft.level, verification)
        band  == human_route(level, draft)
    IN /\ Goto("assign_route", {"persist"})
       /\ final' = FinalResult("forecast", FALSE, level, draft.adverse, bundle.cites)
       /\ route' = band
       /\ guardrails' = Judge("routing",
                              IF band = "green" THEN "pass" ELSE "review")
       /\ UNCHANGED <<request, status, intake, evidence, decision, reviewState,
                      budget, late, errors, memory>>

RegressionOrigins ==
    {o \in Origins :
        \/ o = "retrieval_exhausted" /\ final.kind = "insufficient" /\ final.exhausted
        \/ o = "verification_failure" /\ verification # None /\ ~verification.passed
        \/ o = "model_error" /\ "model" \in errors}

\* Mutant: an abstention opens no case.
OpensCase_forecasts == HasStore /\ route = "red" /\ final.kind = "forecast"

OpensCase == HasStore /\ route = "red"

Persist ==
    LET opened == OpensCase
        pause  == route_human_review(route, opened) = "await_review"
    IN /\ Goto("persist", IF pause THEN {"await_review"} ELSE {})
       /\ recorded' = HasStore
       /\ case' = IF opened THEN "open" ELSE "none"
       /\ regressions' = IF HasStore THEN RegressionOrigins ELSE {}
       /\ status' = IF pause THEN "paused" ELSE "done"
       /\ reviewState' = IF pause THEN "awaiting_review" ELSE reviewState
       /\ UNCHANGED <<request, intake, evidence, decision, final, route,
                      guardrails, budget, late, errors>>

\* Each store write commits alone; the one that raises ends the run.
PersistRaises ==
    /\ HasStore
    /\ Raise("persist")
    /\ \/ UNCHANGED memory
       \/ recorded' = TRUE /\ UNCHANGED <<case, regressions>>
       \/ /\ recorded' = TRUE
          /\ case' = IF OpensCase THEN "open" ELSE "none"
          /\ \E filed \in SUBSET RegressionOrigins :
                filed # RegressionOrigins /\ regressions' = filed

\* _apply_review: the result as the reviewer left it.
apply_review(action, corrected) ==
    IF action \in {"approve", "escalate"} THEN final
    ELSE IF action = "request_data" \/ corrected = "insufficient"
    THEN [final EXCEPT !.kind = "insufficient", !.author = "reviewer"]
    ELSE IF final.kind = "insufficient" THEN final
    ELSE [final EXCEPT !.adverse = (corrected = "adverse"), !.author = "reviewer"]

\* resume_assessment: the paused node applies the reviewer's decision.
AwaitReview(action, corrected) ==
    /\ status = "paused"
    /\ pending = {"await_review"}
    /\ pending' = {} /\ status' = "done"
    /\ case' = "resolved"
    /\ regressions' = IF action = "approve" THEN regressions
                      ELSE regressions \cup {"reviewer_override"}
    /\ final' = apply_review(action, corrected)
    /\ reviewState' = "reviewed"
    /\ UNCHANGED <<request, intake, evidence, decision, route, guardrails,
                   budget, late, errors, recorded>>

\* The wall clock passes MAX_RUN_SECONDS; started_at is written by intake.
ClockExpires ==
    /\ status = "running"
    /\ intake # None
    /\ ~late
    /\ late' = TRUE
    /\ UNCHANGED <<request, pending, status, intake, evidence, decision,
                   released, guardrails, budget, errors, memory>>

----------------------------------------------------------------------------
\* LangGraph drives every scheduled node; the reviewer and the clock are free.

NodeStep ==
    \/ Intake \/ Blocked \/ LoadContext \/ LoadContextRaises \/ Plan
    \/ Quantitative \/ Retrieval \/ Merge \/ TargetedRetry \/ TargetedRetryRaises
    \/ ConflictGate \/ TotSelects \/ TotAbstains \/ FastAdjudication
    \/ VerifyOutput \/ SafeFallback \/ Degraded \/ AssignRoute
    \/ Persist \/ PersistRaises

Reviews ==
    \E action \in {"approve", "escalate", "request_data", "override"},
       corrected \in {"adverse", "favorable", "insufficient"} :
        AwaitReview(action, corrected)

Next == NodeStep \/ Reviews \/ ClockExpires

Spec == Init /\ [][Next]_vars /\ WF_vars(NodeStep)
----------------------------------------------------------------------------
\* Types.

QuantitativeType == [cutoff: Days, available: BOOLEAN, provenance: BOOLEAN,
                     adverse: BOOLEAN, tie: BOOLEAN, stale: BOOLEAN]
RetrievalType == [available: BOOLEAN, cutoff: Days,
                  obs: [SubGoals -> ObservationType]]
BundleType == [cites: SUBSET Citations, critical: BOOLEAN, gap: BOOLEAN,
               stale: BOOLEAN, adverse: BOOLEAN, tie: BOOLEAN]
ConflictType == [severity: {"none", "low", "severe"}, resolved: BOOLEAN]
DraftType == [selectedBy: {"linear", "tree_of_thought"},
              narrative: {"model", "deterministic"},
              raw: Levels, level: Levels, adverse: BOOLEAN]
VerificationType == [passed: BOOLEAN, attempts: 1..(MAX_OUTPUT_REGENERATIONS + 1)]
FinalType == [kind: {"forecast", "insufficient"}, exhausted: BOOLEAN,
              level: Levels, adverse: BOOLEAN, cites: SUBSET Citations,
              author: {"system", "reviewer"}]

ASSUME NoneAssumption == None \notin FinalType \cup VerificationType \cup Routes

\* Every state key holds what its annotation in ForecasterState says, no more
\* than MAX_EVIDENCE_ROUNDS rounds are ever counted, and no draft is verified
\* more often than the one regeneration allows (state.py, the budgets).
TypeOK ==
    /\ request \in RequestType
    /\ pending \subseteq Nodes
    /\ status \in {"running", "paused", "done", "raised"}
    /\ intake \in Outcomes \cup {None}
    /\ quantitative \in QuantitativeType \cup {None}
    /\ retrieval \in RetrievalType \cup {None}
    /\ round \in 0..MAX_EVIDENCE_ROUNDS
    /\ bundle \in BundleType \cup {None}
    /\ conflict \in ConflictType \cup {None}
    /\ draft \in DraftType \cup {None}
    /\ verification \in VerificationType \cup {None}
    /\ final \in FinalType \cup {None}
    /\ route \in Routes \cup {None}
    /\ reviewState \in {"not_required", "awaiting_review", "reviewed"}
    /\ guardrails \in Seq([stage: Stages, outcome: Outcomes])
    /\ modelCalls \in Nat /\ tokens \in Nat /\ late \in BOOLEAN
    /\ errors \subseteq {"model", "permanent_tool"}
    /\ recorded \in BOOLEAN
    /\ case \in {"none", "open", "resolved"}
    /\ regressions \subseteq Origins

----------------------------------------------------------------------------
\* Safety.

\* A categorical outcome the system itself stands behind.
Forecast == final # None /\ final.kind = "forecast" /\ final.author = "system"

Quarantined == Verdict("evidence", "review") \in
                  {guardrails[i] : i \in DOMAIN guardrails}

\* Evidence withheld in any round keeps a forecast red, even if the retry that
\* followed came back clean (_strict_verdict; decision D-035).
QuarantinedForecastIsRed ==
    Forecast /\ Quarantined => route = "red"

\* No citation the screen withheld reaches a reader: not through the bundle,
\* and not through the lane result the degraded answer quotes (merge).
NoWithheldCitationReleased ==
    final # None => "foreign" \notin final.cites

\* The system never forecasts blind: both lanes answered and at least one
\* screened account citation stands under the outcome (coverage_verdict).
ForecastRestsOnEvidence ==
    Forecast => /\ quantitative.available
                /\ retrieval.available
                /\ bundle.cites # {}

\* A narrative that never passed verification is released only as the
\* deterministic rewrite, and only in the red band (fallback, human_route).
UnverifiedNarrativeIsReplaced ==
    Forecast /\ ~verification.passed =>
        route = "red" /\ draft.narrative = "deterministic"

\* An answer released with no person in the loop passed verification first
\* time, filled every sub-goal, met no severe conflict, was asked for no
\* action, and stayed inside its token budget (human_route, the caps).
GreenIsEarned ==
    route = "green" => /\ verification.passed /\ verification.attempts = 1
                       /\ Uncovered(retrieval) = {}
                       /\ conflict.severity # "severe"
                       /\ intake = "pass"
                       /\ tokens < MaxTokens

\* The longest path stays under the provider-attempt ceiling, so the ceiling
\* never decides a run (guardrails/runtime.py, MAX_MODEL_CALLS).
SpendUnderCeiling == modelCalls < MAX_MODEL_CALLS

----------------------------------------------------------------------------
\* What the documents say and the code does not do.

\* docs/DECISIONS.md D-035: after a quarantine "the final route is therefore
\* red"; docs/PHASE_7_STATUS.md: "evidence quarantine always forces red".
QuarantineAlwaysForcesRed == status = "done" /\ Quarantined => route = "red"

----------------------------------------------------------------------------
\* The promise the graph keeps, its ending included.

\* A red answer is held for a person when, memory being there, it has a case
\* that person can see; without one it would be stranded.
Stranded == HasStore /\ \/ case = "none"
                        \/ status = "paused" /\ ~(recorded /\ case = "open")

Answer ==
    IF status = "running" THEN "open"
    ELSE IF status = "raised" THEN "failed"
    ELSE IF route = "blocked" THEN "refused"
    ELSE IF reviewState = "reviewed" THEN "decided"
    ELSE IF route # "red" THEN "released"
    ELSE IF Stranded THEN "stranded" ELSE "held"

Label ==
    IF status \in {"running", "raised"} \/ route = "blocked" THEN "none"
    ELSE IF final.kind = "forecast" THEN final.author ELSE "none"

\* The graph implements AssessmentPromise: a band is decided once, only a red
\* answer is ever handed to a person, who can find it, and only that person
\* relabels it.
Promise == INSTANCE AssessmentPromise WITH answer <- Answer, label <- Label
KeepsPromise == Promise!Spec
=============================================================================
