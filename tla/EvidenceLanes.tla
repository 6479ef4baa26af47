--------------------------- MODULE EvidenceLanes ---------------------------
(***************************************************************************)
(* How one run gathers its evidence, tool call by tool call: the intake    *)
(* guardrail, the orchestrator's context and plan (agents/orchestrator.py),*)
(* the telemetry lane (agents/quantitative_analyst.py) and the retrieval   *)
(* lane (agents/evidence_retriever.py) side by side, the screen and the    *)
(* verdict at their fan-in, and the one targeted retry (graph/nodes.py).   *)
(* ForecastGraph takes what the lanes return from constant sets; here it   *)
(* is computed from the rows of the account, and any call may fail.        *)
(***************************************************************************)
EXTENDS Intake, FiniteSets, Functions

CONSTANTS
    Datasets,     \* the account: [forecast, families -> dates, sponsorLive, csat]
    Assessments,  \* the requests under study: [account, asOf, question]
    Drafts,       \* the sub-goals a planner model may draft; <<>>: none usable
    HasArtifact,  \* is there a calibrated forecaster?
    WINDOW,       \* USAGE_, SUPPORT_ and EVENT_WINDOW_WEEKS, in days
    ADOPTION_WINDOW_WEEKS,  \* observed weeks the adoption metrics are fit to
    STALE_USAGE_DAYS,
    MaxCitations  \* bound: documents one search returns

FactFamilies == {"usage_weekly", "support_ticket", "csm_note", "external_event"}

ASSUME DatasetsAssumption ==
    \A d \in Datasets : /\ d.forecast \in Int
                        /\ \A f \in FactFamilies : /\ d.rows[f] \in SUBSET Int
                                                    /\ IsFiniteSet(d.rows[f])
ASSUME AsOfAssumption == \A q \in Assessments : q.asOf \in Int \cup {None}
ASSUME WindowsAssumption == /\ WINDOW \in Nat /\ STALE_USAGE_DAYS \in Nat
                            /\ ADOPTION_WINDOW_WEEKS \in Nat \ {0}

MAX_EVIDENCE_ROUNDS == 2
MAX_SUB_GOALS == 4
GUIDANCE_SUB_GOAL == "playbook_guidance"

TelemetryTools == <<"compute_account_metrics", "get_usage_series",
                    "get_support_summary", "get_external_events">>

SUB_GOAL_SOURCES ==
    [adoption          |-> {"csm_note", "support_ticket"},
     support           |-> {"support_ticket", "csm_note"},
     relationship      |-> {"csm_note"},
     external_context  |-> {"external_event", "csm_note"},
     renewal_history   |-> {"csm_note", "support_ticket"},
     playbook_guidance |-> {}]

SubGoals == DOMAIN SUB_GOAL_SOURCES

ASSUME DraftsAssumption == Drafts \subseteq Seq(SubGoals)

\* contracts.py: what each lane returns.
Metrics == [name: {"adoption_level_last_q", "ticket_count_26w", "avg_note_sentiment_26w",
                   "avg_closed_csat_26w", "adverse_events_2q", "product_breadth"},
            coverage: Nat, nonzero: BOOLEAN]
CoverageReports ==
    [weeks: Nat, missing: SUBSET FactFamilies, stale: SUBSET FactFamilies,
     critical: SUBSET {"no usage telemetry", "no artifact",
                       "telemetry could not be computed", "failed its screen"}]
QuantitativeEvidence == [cutoff: Int, available: BOOLEAN, metrics: SUBSET Metrics,
                         coverage: CoverageReports]
Observations == [subGoal: SubGoals, insufficient: BOOLEAN,
                 citations: SUBSET [family: FactFamilies, date: Int]]
RetrievalEvidence == [cutoff: Int, available: BOOLEAN,
                      observations: Seq(Observations), guidance: BOOLEAN]

ASSUME NoneAssumption == /\ None \notin Seq(SubGoals)
                         /\ None \notin QuantitativeEvidence
                         /\ None \notin RetrievalEvidence

\* The members of a sequence at the positions I, in their order.
Nth(I, k) == CHOOSE i \in I : Cardinality({j \in I : j <= i}) = k
Picked(s, I) == [k \in 1..Cardinality(I) |-> s[Nth(I, k)]]

\* How a call ends: ToolUnavailableError, TimeoutError or any other exception.
Outcomes == {"answer", "unavailable", "timeout", "error"}

VARIABLES
    data,      \* the account's rows, from the read-only repository
    assessment, \* the AssessmentRequest
    stage,     \* the node the run is at
    plan,      \* the sub-goals, guidance last
    answers,   \* the telemetry tools' responses so far
    quant,     \* the QuantitativeEvidence, or None
    left,      \* the sub-goals a search is still to be made for, or None
    found,     \* [observations, guidance] of the searches made so far
    retrieval, \* the RetrievalEvidence, or None
    round,     \* evidence_round
    bundle,    \* the coverage report of the last merge, or None
    withheld,  \* rules the evidence screen has recorded
    failed     \* the lanes a tool has failed in (history)

lanes_vars == <<data, assessment, stage, plan, answers, quant, left, found,
                retrieval, round, bundle, withheld, failed>>

----------------------------------------------------------------------------
\* data/ and tools/services.py: what a tool may see.

Earlier(a, b) == IF a < b THEN a ELSE b

effective_cutoff == Earlier(data.forecast, DATASET_AS_OF_DATE)

\* RuntimeRepository.usage, tickets, notes and events.
_account_facts(family) == {d \in data.rows[family] : d <= effective_cutoff}

\* Mutant: the caller's date is not applied.
_cutoff_for_canonical(asOf) == effective_cutoff

_cutoff_for(asOf) ==
    IF asOf = None THEN effective_cutoff ELSE Earlier(effective_cutoff, asOf)

\* A request model refuses a date past the dataset.
Valid(asOf) == asOf # None => asOf <= DATASET_AS_OF_DATE

_within(dates, cutoff) == {d \in dates : d > cutoff - WINDOW /\ d <= cutoff}

Newest(dates, n) == {d \in dates : Cardinality({e \in dates : e > d}) < n}

\* A response: when it was cut, and the dated rows it was computed from.
\* features/builder.py clamps again, and its windows are closed.
build_features(asOf) ==
    LET cutoff  == Earlier(asOf, effective_cutoff)
        upTo(f) == {d \in _account_facts(f) : d <= cutoff}
    IN  [cutoff |-> cutoff,
         rows   |-> [f \in FactFamilies |->
                       IF f = "usage_weekly" THEN Newest(upTo(f), ADOPTION_WINDOW_WEEKS)
                       ELSE {d \in upTo(f) : d >= cutoff - WINDOW}]]

compute_account_metrics(asOf) == build_features(_cutoff_for(asOf))

Windowed(family, asOf) ==
    [cutoff |-> _cutoff_for(asOf),
     rows   |-> [f \in {family} |-> _within(_account_facts(f), _cutoff_for(asOf))]]

Response(tool, asOf) ==
    CASE tool = "compute_account_metrics" -> compute_account_metrics(asOf)
      [] tool = "get_usage_series"        -> Windowed("usage_weekly", asOf)
      [] tool = "get_support_summary"     -> Windowed("support_ticket", asOf)
      [] tool = "get_external_events"     -> Windowed("external_event", asOf)

----------------------------------------------------------------------------
\* agents/quantitative_analyst.py

\* Rows behind the metrics of a family.
_coverage_for(rows) ==
    [adoption |-> Cardinality(rows.usage_weekly),
     support  |-> Cardinality(rows.support_ticket) + Cardinality(rows.csm_note),
     external |-> Cardinality(rows.external_event),
     account  |-> 1]

\* One metric of each kind that rows, or their absence, can leave at zero or
\* not: with no closed ticket the CSAT is DEFAULT_CSAT, which is not zero.
_observations(rows) ==
    LET Metric(name, family, nonzero) ==
            [name |-> name, coverage |-> _coverage_for(rows)[family], nonzero |-> nonzero]
    IN  {Metric("adoption_level_last_q", "adoption", rows.usage_weekly # {}),
         Metric("ticket_count_26w", "support", rows.support_ticket # {}),
         Metric("avg_note_sentiment_26w", "support", rows.csm_note # {}),
         Metric("avg_closed_csat_26w", "support", TRUE),
         Metric("adverse_events_2q", "external", rows.external_event # {}),
         Metric("product_breadth", "account", TRUE)}

thin_families(rows) ==
    {f \in {"usage_weekly", "support_ticket", "external_event"} : rows[f] = {}}

\* Stale is what the newest point of the usage series says.
_coverage_report(metrics, usage) ==
    [weeks    |-> Cardinality(metrics.rows.usage_weekly),
     missing  |-> thin_families(metrics.rows),
     stale    |-> {f \in DOMAIN usage.rows : \E d \in Newest(usage.rows[f], 1) :
                                                metrics.cutoff - d > STALE_USAGE_DAYS},
     critical |-> {gap \in {"no usage telemetry", "no artifact"} :
                     IF gap = "no artifact" THEN ~HasArtifact
                     ELSE metrics.rows.usage_weekly = {}}]

\* No lane, for want of an answer: so says analyse, or the node around it.
NoTelemetry(cutoff) ==
    [cutoff |-> cutoff, available |-> FALSE, metrics |-> {},
     coverage |-> [weeks |-> 0, missing |-> {}, stale |-> {},
                   critical |-> {"telemetry could not be computed"}]]

analyse(responses) ==
    LET metrics == responses[1]
        report  == _coverage_report(metrics, responses[2])
    IN  [cutoff |-> metrics.cutoff, available |-> report.critical = {},
         metrics |-> _observations(metrics.rows), coverage |-> report]

----------------------------------------------------------------------------
\* agents/evidence_retriever.py

Covered(observation) == observation.citations # {} /\ ~observation.insufficient

citations(evidence) == UNION {evidence.observations[i].citations :
                                i \in DOMAIN evidence.observations}

covered_sub_goals(evidence) ==
    {evidence.observations[i].subGoal :
       i \in {j \in DOMAIN evidence.observations : Covered(evidence.observations[j])}}

uncovered_sub_goals(evidence) ==
    Picked([i \in DOMAIN evidence.observations |-> evidence.observations[i].subGoal],
           {i \in DOMAIN evidence.observations : ~Covered(evidence.observations[i])})

NoRetrieval == [cutoff |-> effective_cutoff, available |-> FALSE,
                observations |-> <<>>, guidance |-> FALSE]

\* A ToolUnavailableError discards what the searches before it found.
GaveUp(sofar) == NoRetrieval

\* Mutant: the second round's evidence takes the place of the first's.
merge_evidence_replaces(previous, retry) == IF retry.available THEN retry ELSE previous

\* A retried sub-goal replaces its observation where it stood; others stand.
merge_evidence(previous, retry) ==
    LET old        == previous.observations
        new        == retry.observations
        Again(k)   == {i \in DOMAIN new : new[i].subGoal = k}
        Latest(k)  == CHOOSE i \in Again(k) : \A j \in Again(k) : j <= i
        Updated(o) == IF Again(o.subGoal) = {} THEN o ELSE new[Latest(o.subGoal)]
        added      == {j \in DOMAIN new : \A i \in DOMAIN old :
                                              old[i].subGoal # new[j].subGoal}
    IN  IF ~retry.available THEN previous
        ELSE [previous EXCEPT
                !.observations = [i \in DOMAIN old |-> Updated(old[i])] \o Picked(new, added),
                !.guidance = retry.guidance \/ @]

\* What an account search may return: up to MaxCitations documents of the
\* sub-goal's families, no later than the date it is asked for, graded.
Documents(kind, asOf) ==
    UNION {{[family |-> f, date |-> d] :
              d \in {e \in _account_facts(f) : e <= _cutoff_for(asOf)}} :
           f \in SUB_GOAL_SOURCES[kind]}

_account_search(kind, asOf) ==
    LET picks == {c \in SUBSET Documents(kind, asOf) : Cardinality(c) <= MaxCitations}
    IN  {o \in [subGoal: {kind}, citations: picks, insufficient: BOOLEAN] :
           o.citations = {} => o.insufficient}

----------------------------------------------------------------------------
\* agents/orchestrator.py

deterministic_plan ==
    <<"adoption", "support",
      IF data.sponsorLive THEN "relationship" ELSE "external_context", GUIDANCE_SUB_GOAL>>

\* The drafted kinds without repetitions, always with guidance, or the default.
PlanOf(draft) ==
    LET first  == {i \in DOMAIN draft : /\ draft[i] # GUIDANCE_SUB_GOAL
                                        /\ \A j \in 1..i - 1 : draft[j] # draft[i]}
        chosen == Picked(draft, first)
    IN  IF first = {} THEN deterministic_plan
        ELSE Append(SubSeq(chosen, 1, Earlier(Len(chosen), MAX_SUB_GOALS - 1)),
                    GUIDANCE_SUB_GOAL)

----------------------------------------------------------------------------
\* guardrails/evidence.py and graph/routing.py

\* merge makes the cut again, from the request and the profile.
ExpectedCutoff == IF assessment.asOf = None THEN effective_cutoff
                  ELSE Earlier(effective_cutoff, assessment.asOf)

metric_violation(metric) == metric.coverage = 0 /\ metric.nonzero

\* Each rule the screen records, of the envelopes, the metrics, the citations.
screen_evidence(q, r) ==
    LET quantScoped == q.cutoff = ExpectedCutoff
        scoped      == r.cutoff = ExpectedCutoff
        unsound     == quantScoped /\ \E m \in q.metrics : metric_violation(m)
        late        == scoped /\ \E c \in citations(r) : c.date > ExpectedCutoff
    IN  [quantitative_valid |-> quantScoped /\ ~unsound,
         kept  |-> IF scoped THEN {c \in citations(r) : c.date <= ExpectedCutoff} ELSE {},
         guidance |-> scoped /\ r.guidance,
         rules |-> {rule \in {"EVID-ENVELOPE", "EVID-PROVENANCE", "EVID-CUTOFF"} :
                      \/ rule = "EVID-ENVELOPE" /\ ~(quantScoped /\ scoped)
                      \/ rule = "EVID-PROVENANCE" /\ unsound
                      \/ rule = "EVID-CUTOFF" /\ late}]

coverage_verdict(q, r, rounds) ==
    CASE ~q.available \/ ~r.available -> "critical"
      [] q.available /\ r.available /\ citations(r) = {} ->
           IF rounds < MAX_EVIDENCE_ROUNDS THEN "recoverable" ELSE "critical"
      [] OTHER ->
           IF uncovered_sub_goals(r) # <<>> /\ rounds < MAX_EVIDENCE_ROUNDS
           THEN "recoverable" ELSE "sufficient"

route_coverage(verdict) ==
    CASE verdict = "recoverable" -> "targeted_retry"
      [] verdict = "critical"    -> "degraded_result"
      [] verdict = "sufficient"  -> "conflict_gate"

_expected_families(p) == UNION {SUB_GOAL_SOURCES[p[i]] : i \in DOMAIN p}

combined_coverage(q, r) ==
    [q.coverage EXCEPT
        !.missing  = @ \cup {<<"evidence", f>> : f \in
                       _expected_families(plan) \ {c.family : c \in citations(r)}},
        !.critical = @ \cup (IF r.available THEN {} ELSE {"retrieval unavailable"})]

----------------------------------------------------------------------------
\* The run.

LanesInit ==
    /\ data \in Datasets
    /\ assessment \in Assessments
    /\ stage = "validate_request"
    /\ plan = <<>> /\ answers = <<>> /\ quant = None
    /\ left = None /\ found = NoRetrieval /\ retrieval = None
    /\ round = 0 /\ bundle = None /\ withheld = {} /\ failed = {}

\* nodes.py intake, then route_intake.
ValidateRequest ==
    /\ stage = "validate_request"
    /\ stage' = IF evaluate_intake(assessment).outcome \in {"block", "clarify"}
                THEN "safe_refusal" ELSE "load_context"
    /\ UNCHANGED <<data, assessment, plan, answers, quant, left, found, retrieval,
                   round, bundle, withheld, failed>>

\* The profile is needed; application memory is not, if it says so itself.
LoadContext ==
    /\ stage = "load_context"
    /\ \E profile, memory \in Outcomes :
          stage' = IF profile = "answer" /\ memory \in {"answer", "unavailable"}
                   THEN "plan_sub_goals" ELSE "raised"
    /\ UNCHANGED <<data, assessment, plan, answers, quant, left, found, retrieval,
                   round, bundle, withheld, failed>>

\* The edges of plan_sub_goals start both lanes.
PlanSubGoals ==
    /\ stage = "plan_sub_goals"
    /\ \E draft \in Drafts : plan' = PlanOf(draft)
    /\ stage' = "lanes"
    /\ left' = plan'
    /\ found' = [NoRetrieval EXCEPT !.available = TRUE]
    /\ UNCHANGED <<data, assessment, answers, quant, retrieval, round, bundle,
                   withheld, failed>>

\* A tool refuses a request it cannot validate, and may fail otherwise.
Ends(outcome, asOf) == outcome = "error" \/ Valid(asOf)

\* analyse, one tool at a time; what it does not catch, its node does.
AskTelemetry(outcome) ==
    /\ stage = "lanes" /\ quant = None /\ Len(answers) < Len(TelemetryTools)
    /\ Ends(outcome, assessment.asOf)
    /\ answers' = IF outcome = "answer"
                  THEN Append(answers, Response(TelemetryTools[Len(answers) + 1],
                                                assessment.asOf))
                  ELSE answers
    /\ quant' = CASE outcome = "answer" -> None
                  [] outcome \in {"unavailable", "timeout"} ->
                       NoTelemetry(IF assessment.asOf = None THEN DATASET_AS_OF_DATE
                                   ELSE assessment.asOf)
                  [] outcome = "error" -> NoTelemetry(effective_cutoff)
    /\ failed' = IF outcome # "answer" /\ Valid(assessment.asOf)
                 THEN failed \cup {"quantitative"} ELSE failed
    /\ UNCHANGED <<data, assessment, stage, plan, left, found, retrieval, round,
                   bundle, withheld>>

Analyse ==
    /\ stage = "lanes" /\ quant = None /\ Len(answers) = Len(TelemetryTools)
    /\ quant' = analyse(answers)
    /\ UNCHANGED <<data, assessment, stage, plan, answers, left, found, retrieval,
                   round, bundle, withheld, failed>>

\* gather, one search at a time, for the lane or for the retry.
Searching == left # None /\ left # <<>>

\* What becomes of what gather returns: the lane's result, or the retry's.
Gives(evidence) ==
    /\ left' = None
    /\ retrieval' = IF stage = "lanes" THEN evidence ELSE merge_evidence(retrieval, evidence)
    /\ stage' = IF stage = "lanes" THEN stage ELSE "merge_evidence"

SearchAnswers ==
    /\ Searching /\ Valid(assessment.asOf)
    /\ left' = Tail(left)
    /\ IF Head(left) = GUIDANCE_SUB_GOAL
       THEN \E some \in BOOLEAN : found' = [found EXCEPT !.guidance = some]
       ELSE \E o \in _account_search(Head(left), assessment.asOf) :
               found' = [found EXCEPT !.observations = Append(@, o)]
    /\ UNCHANGED <<data, assessment, stage, plan, answers, quant, retrieval, round,
                   bundle, withheld, failed>>

SearchUnavailable ==
    /\ Searching /\ Valid(assessment.asOf)
    /\ Gives(GaveUp(found))
    /\ failed' = failed \cup {"retrieval"}
    /\ UNCHANGED <<data, assessment, plan, answers, quant, found, round, bundle, withheld>>

\* Any other error: the lane's node catches it, the retry's does not.
SearchRaises ==
    /\ Searching
    /\ IF stage = "lanes" THEN Gives(NoRetrieval)
       ELSE stage' = "raised" /\ left' = None /\ UNCHANGED retrieval
    /\ failed' = IF Valid(assessment.asOf) THEN failed \cup {"retrieval"} ELSE failed
    /\ UNCHANGED <<data, assessment, plan, answers, quant, found, round, bundle, withheld>>

Gathered ==
    /\ left = <<>>
    /\ Gives(found)
    /\ UNCHANGED <<data, assessment, plan, answers, quant, found, round, bundle,
                   withheld, failed>>

\* The fan-in: screen, withhold, report and give the verdict.
Merge ==
    /\ \/ stage = "lanes" /\ quant # None /\ retrieval # None
       \/ stage = "merge_evidence"
    /\ LET s   == screen_evidence(quant, retrieval)
           old == retrieval.observations
           Keep(o) == [o EXCEPT !.citations = @ \cap s.kept]
       IN  /\ quant' = IF s.quantitative_valid THEN quant
                       ELSE [quant EXCEPT !.available = FALSE,
                                          !.coverage.critical = @ \cup {"failed its screen"}]
           /\ retrieval' = IF s.rules = {} THEN retrieval
                           ELSE [retrieval EXCEPT
                                   !.observations = [i \in DOMAIN old |-> Keep(old[i])],
                                   !.guidance = s.guidance]
           /\ withheld' = withheld \cup s.rules
    /\ bundle' = combined_coverage(quant', retrieval')
    /\ round' = round + 1
    /\ stage' = route_coverage(coverage_verdict(quant', retrieval', round'))
    /\ UNCHANGED <<data, assessment, plan, answers, left, found, failed>>

\* One more search for each sub-goal left uncovered, or for all of them.
TargetedRetry ==
    /\ stage = "targeted_retry" /\ left = None
    /\ LET open    == ToSet(uncovered_sub_goals(retrieval))
           targets == IF open # {} THEN open ELSE ToSet(plan) \ {GUIDANCE_SUB_GOAL}
       IN  left' = Picked(plan, {i \in DOMAIN plan : plan[i] \in targets})
    /\ found' = [NoRetrieval EXCEPT !.available = TRUE]
    /\ UNCHANGED <<data, assessment, stage, plan, answers, quant, retrieval, round,
                   bundle, withheld, failed>>

LanesNext == \/ ValidateRequest \/ LoadContext \/ PlanSubGoals
             \/ (\E outcome \in Outcomes : AskTelemetry(outcome)) \/ Analyse
             \/ SearchAnswers \/ SearchUnavailable \/ SearchRaises \/ Gathered
             \/ Merge \/ TargetedRetry

LanesSpec == LanesInit /\ [][LanesNext]_lanes_vars

----------------------------------------------------------------------------
\* Properties.

\* The cut is the tool layer's alone, made anew by every call of two lanes and
\* of the retry: whatever was read, even by a lane that failed half-way or for
\* a search later discarded, is dated within the account's cutoff and within
\* the earlier date asked for (services.py:131-140).
LanesSeeNoFuture ==
    LET Sound(evidence) == \A c \in citations(evidence) : c.date <= ExpectedCutoff
    IN  /\ \A i \in DOMAIN answers : \A f \in DOMAIN answers[i].rows :
              \A d \in answers[i].rows[f] : d <= ExpectedCutoff
        /\ Sound(found)
        /\ retrieval # None => Sound(retrieval)

\* A lane hands over everything it was planned to fetch or nothing: it is
\* available only if each of its calls answered, for one cutoff and with one
\* observation per planned sub-goal; and it is unavailable only for a failed
\* tool, telemetry without a week, or a missing artifact.  That no request is
\* refused by the tools is what the intake guardrail is relied on for.
LanesAreWholeOrExcused ==
    stage = "lanes" =>
        /\ quant # None =>
              IF quant.available
              THEN /\ "quantitative" \notin failed
                   /\ Len(answers) = Len(TelemetryTools)
                   /\ \A i \in DOMAIN answers : answers[i].cutoff = quant.cutoff
              ELSE \/ "quantitative" \in failed \/ ~HasArtifact
                   \/ \A d \in data.rows.usage_weekly : d > ExpectedCutoff
        /\ retrieval # None =>
              IF retrieval.available
              THEN /\ "retrieval" \notin failed
                   /\ [i \in DOMAIN retrieval.observations |->
                         retrieval.observations[i].subGoal] = Front(plan)
              ELSE "retrieval" \in failed

\* The second round only adds: a sub-goal the first round covered keeps its
\* evidence, none is dropped or held twice, and guidance once found is kept,
\* whatever the retry's searches return or fail with (evidence_retriever.py:195).
RetryKeepsCoverage ==
    [][stage = "targeted_retry" =>
          /\ covered_sub_goals(retrieval) \subseteq covered_sub_goals(retrieval')
          /\ retrieval.guidance => retrieval'.guidance
          /\ [i \in DOMAIN retrieval'.observations |->
                retrieval'.observations[i].subGoal] = Front(plan)]_lanes_vars
=============================================================================
