------------------------ MODULE ForecastGraphProofs ------------------------
(***************************************************************************)
(* Theorems about every instance of ForecastGraph: any set of sub-goals,   *)
(* any results of tools, retrieval and model, any token budget.            *)
(*                                                                         *)
(* TypeOK is not inductive: that a node finds the state keys it reads      *)
(* depends on which node is scheduled.  Phases says it, node by node;      *)
(* TypeOK /\ Phases is inductive and the safety properties follow from it. *)
(*                                                                         *)
(* assign_route reads keys that six other nodes wrote, some of them        *)
(* supersteps earlier.  Earning says, for the nodes scheduled in between,  *)
(* what those keys still guarantee when the band is chosen; Held says what *)
(* a run that is being stored has to show.                                 *)
(***************************************************************************)
EXTENDS ForecastGraph, TLAPS

\* The nodes before the fan-out, those of a run with sufficient evidence, and
\* those of a run with a result.
Opening  == {"validate_request", "safe_refusal", "load_context", "plan_sub_goals"}
Gathering == Lanes \cup {"merge_evidence", "targeted_retry", "degraded_result"}
Judging  == {"conflict_gate", "fast_adjudication", "tot_adjudication",
             "verify_output", "safe_fallback", "assign_route"}
Closing  == {"persist", "await_review"}

Scheduled(group) == \E n \in group : n \in pending

\* Only the two lanes ever share a superstep.
Shape == pending \subseteq Lanes \/ \E n \in Nodes : pending = {n}

LanesReady ==
    /\ Scheduled(Lanes) => round = 0
    /\ pending = {"retrieval_lane"} => quantitative \in QuantitativeType
    /\ pending = {"quantitative_lane"} => retrieval \in RetrievalType

EvidenceReady ==
    /\ Scheduled({"merge_evidence", "targeted_retry"}) =>
          /\ quantitative \in QuantitativeType
          /\ retrieval \in RetrievalType
          /\ round < MAX_EVIDENCE_ROUNDS
    /\ "degraded_result" \in pending =>
          /\ retrieval \in RetrievalType
          /\ bundle \in BundleType
          /\ "foreign" \notin Cites(retrieval)

DecisionReady ==
    /\ Scheduled(Judging) =>
          /\ bundle \in BundleType
          /\ quantitative.available
          /\ retrieval.available
          /\ bundle.cites # {} /\ "foreign" \notin bundle.cites
    /\ Scheduled(Judging \ {"conflict_gate"}) => conflict \in ConflictType
    /\ Scheduled({"verify_output", "safe_fallback", "assign_route"}) =>
          draft \in DraftType
    /\ Scheduled({"safe_fallback", "assign_route"}) =>
          verification \in VerificationType
    /\ Scheduled({"fast_adjudication", "verify_output"}) =>
          \/ verification = None
          \/ verification.attempts <= MAX_OUTPUT_REGENERATIONS
    /\ Scheduled(Opening \cup Gathering \cup {"conflict_gate", "tot_adjudication"}) =>
          verification = None

ReleaseReady ==
    /\ final # None => pending \subseteq Closing
    /\ Scheduled(Closing) => final \in FinalType

Phases == Shape /\ LanesReady /\ EvidenceReady /\ DecisionReady /\ ReleaseReady

\* The generations behind a scheduled node bound what it may have spent.
SpendByPhase ==
    /\ modelCalls <= 6
    /\ Scheduled(Opening) => modelCalls = 0
    /\ Scheduled(Gathering \cup {"conflict_gate", "tot_adjudication"}) =>
          modelCalls <= 2
    /\ "fast_adjudication" \in pending =>
          modelCalls <= (IF verification = None THEN 2 ELSE 4)
    /\ "verify_output" \in pending =>
          modelCalls <= (IF verification = None THEN 4 ELSE 6)

IInv == TypeOK /\ Phases

AllInv == IInv /\ SpendByPhase
----------------------------------------------------------------------------
\* Lemmas about the scheduler and the helpers.

\* A node that is not a lane is alone in its superstep, and its successors
\* replace it (the edges of build_graph).
LEMMA GotoAlone ==
    ASSUME Shape, NEW n \in Nodes \ Lanes, NEW next, Goto(n, next)
    PROVE  pending = {n} /\ pending' = next
  BY DEF Shape, Goto

\* A lane that completes leaves the other one scheduled, or the fan-in.
LEMMA GotoLane ==
    ASSUME Shape, NEW n \in Lanes, Goto(n, Join(n))
    PROVE  \/ pending = {n} /\ pending' = {"merge_evidence"}
           \/ pending = Lanes /\ pending' = Lanes \ {n}
  <1>1. n \in pending /\ pending' = (pending \ {n}) \cup Join(n)
    BY DEF Goto
  <1>2. pending = {n} \/ pending = Lanes
    BY <1>1 DEF Shape, Lanes
  <1>3. Lanes # {n}
    BY DEF Lanes
  <1> QED
    BY <1>1, <1>2, <1>3 DEF Join

\* Whatever a generation costs, the counters and error list keep their types
\* and no generation bills more than its two attempts (generate_structured).
LEMMA GenerateBounds ==
    ASSUME TypeOK, NEW usable \in BOOLEAN, Generate(usable)
    PROVE  /\ modelCalls' \in Nat /\ modelCalls' <= modelCalls + 2
           /\ tokens' \in Nat /\ late' \in BOOLEAN
           /\ errors' \subseteq {"model", "permanent_tool"}
  <1>1. PICK bill \in Bills \cup {[attempts |-> 0, tokens |-> 0, ok |-> FALSE]} :
            /\ modelCalls' = modelCalls + bill.attempts
            /\ tokens' = tokens + bill.tokens
            /\ errors' \in {errors, errors \cup {"model"}}
            /\ late' \in {late, TRUE}
    BY DEF Generate, _generation_errors
  <1>2. bill.attempts \in 0..2 /\ bill.tokens \in Nat
    BY BillsAssumption DEF BillType
  <1>3. modelCalls \in Nat /\ tokens \in Nat
    BY DEF TypeOK
  <1>4. modelCalls' \in Nat /\ modelCalls' <= modelCalls + 2 /\ tokens' \in Nat
    BY <1>1, <1>2, <1>3
  <1>5. late' \in BOOLEAN
    BY <1>1, Zenon DEF TypeOK
  <1>6. errors' \subseteq {"model", "permanent_tool"}
    BY <1>1 DEF TypeOK
  <1> QED
    BY <1>4, <1>5, <1>6

\* A stage verdict is appended; the list stays a list of verdicts.
LEMMA JudgeType ==
    ASSUME TypeOK, NEW stage \in Stages, NEW outcome \in Outcomes
    PROVE  Judge(stage, outcome) \in Seq([stage: Stages, outcome: Outcomes])
  BY DEF TypeOK, Judge, Verdict

\* So it does under the two verdicts of an abstention.
LEMMA AbstentionType ==
    ASSUME TypeOK
    PROVE  guardrails \o <<Verdict("output", "pass"), Verdict("routing", "review")>>
              \in Seq([stage: Stages, outcome: Outcomes])
  <1>1. /\ Verdict("output", "pass") \in [stage: Stages, outcome: Outcomes]
        /\ Verdict("routing", "review") \in [stage: Stages, outcome: Outcomes]
    BY DEF Verdict, Stages, Outcomes
  <1> QED
    BY <1>1 DEF TypeOK

\* A retry is scheduled only below the round limit, and the conflict gate only
\* on two answered lanes with a citation left (coverage_verdict).
LEMMA CoverageRoutes ==
    ASSUME NEW q, NEW r, NEW n
    PROVE  \/ route_coverage(q, r, n) = "targeted_retry" /\ n < MAX_EVIDENCE_ROUNDS
           \/ route_coverage(q, r, n) = "degraded_result"
           \/ /\ route_coverage(q, r, n) = "conflict_gate"
              /\ q.available /\ r.available /\ Cites(r) # {}
  BY DEF route_coverage, coverage_verdict, Exhausted

\* What the fan-in keeps of the two lanes has the lanes' types, and holds no
\* citation the screen withheld (screen_evidence, merge).
LEMMA ScreenSound ==
    ASSUME NEW q \in QuantitativeType, NEW r \in RetrievalType
    PROVE  /\ ScreenedQuantitative(q) \in QuantitativeType
           /\ ScreenedRetrieval(q, r) \in RetrievalType
           /\ Kept(r) \subseteq {"sound"}
           /\ "foreign" \notin Cites(ScreenedRetrieval(q, r))
           /\ Cites(ScreenedRetrieval(q, r)) \subseteq Kept(r)
  <1>1. ScreenedQuantitative(q) \in QuantitativeType
    BY DEF ScreenedQuantitative, QuantitativeType
  <1>2. Kept(r) \subseteq {"sound"}
    BY DEF Kept
  <1>3. ScreenedRetrieval(q, r) \in RetrievalType
    <2>1. CASE Clean(q, r)
      BY <2>1 DEF ScreenedRetrieval
    <2>2. CASE ~Clean(q, r)
      <3>1. \A g \in SubGoals :
              [cites |-> r.obs[g].cites \cap Kept(r), thin |-> r.obs[g].thin]
                 \in ObservationType
        BY DEF RetrievalType, ObservationType
      <3> QED
        BY <2>2, <3>1 DEF ScreenedRetrieval, RetrievalType
    <2> QED BY <2>1, <2>2
  <1>4. Cites(ScreenedRetrieval(q, r)) \subseteq Kept(r)
    <2>1. CASE Clean(q, r)
      <3>1. Cites(r) \subseteq Citations
        BY DEF Cites, RetrievalType, ObservationType
      <3> QED
        BY <2>1, <3>1 DEF ScreenedRetrieval, Clean, Kept, Citations
    <2>2. CASE ~Clean(q, r)
      BY <2>2 DEF ScreenedRetrieval, Cites, RetrievalType
    <2> QED BY <2>1, <2>2
  <1> QED
    BY <1>1, <1>2, <1>3, <1>4

----------------------------------------------------------------------------
\* Type correctness.

LEMMA InitInv == Init => AllInv
  <1> SUFFICES ASSUME Init PROVE AllInv
    OBVIOUS
  <1>1. TypeOK
    <2>1. guardrails \in Seq([stage: Stages, outcome: Outcomes])
      BY DEF Init
    <2>2. request \in RequestType
      BY RequestsAssumption DEF Init
    <2>3. round \in 0..MAX_EVIDENCE_ROUNDS /\ modelCalls \in Nat /\ tokens \in Nat
      BY DEF Init, MAX_EVIDENCE_ROUNDS
    <2>4. pending \subseteq Nodes
      BY DEF Init, Nodes
    <2> QED
      BY <2>1, <2>2, <2>3, <2>4, Zenon DEF Init, TypeOK
  <1>2. Shape /\ LanesReady /\ ReleaseReady
    BY DEF Init, Scheduled, Shape, LanesReady, ReleaseReady, Nodes, Lanes, Closing
  <1>3. EvidenceReady
    BY DEF Init, Scheduled, EvidenceReady
  <1>4. DecisionReady
    BY DEF Init, Scheduled, DecisionReady, Judging
  <1>5. SpendByPhase
    BY DEF Init, Scheduled, SpendByPhase, Gathering, Lanes
  <1> QED
    BY <1>1, <1>2, <1>3, <1>4, <1>5 DEF AllInv, IInv, Phases

\* The successors of a node are nodes, so scheduling keeps its types.
LEMMA GotoType ==
    ASSUME TypeOK, NEW n \in Nodes, NEW next \in SUBSET Nodes, Goto(n, next)
    PROVE  pending' \subseteq Nodes
  BY DEF TypeOK, Goto

\* A node that raises leaves nothing scheduled and every key as it was.
LEMMA RaisePhases ==
    ASSUME Phases, NEW n \in Nodes, Raise(n)
    PROVE  Phases'
  <1>1. /\ pending' = {}
        /\ UNCHANGED <<round, quantitative, retrieval, bundle, conflict, draft,
                       verification, final>>
    BY DEF Raise, evidence, decision, released
  <1> QED
    BY <1>1 DEF Phases, Shape, LanesReady, EvidenceReady, DecisionReady,
                ReleaseReady, Scheduled, Cites

LEMMA InductiveStep ==
    ASSUME TypeOK, Phases, [Next]_vars
    PROVE  TypeOK' /\ Phases'
  <1> USE DEF evidence, decision, released, budget, memory
  <1>1. ASSUME Intake PROVE TypeOK' /\ Phases'
    <2>1. PICK outcome \in Outcomes :
            /\ intake' = outcome
            /\ guardrails' = Judge("intake", outcome)
            /\ Goto("validate_request",
                    IF outcome \in {"block", "clarify"} THEN {"safe_refusal"}
                    ELSE {"load_context"})
      BY <1>1 DEF Intake, route_intake
    <2>2. pending' \subseteq Nodes
      BY <2>1, GotoType DEF Nodes
    <2>3. guardrails' \in Seq([stage: Stages, outcome: Outcomes])
      BY <2>1, JudgeType DEF Stages
    <2>4. TypeOK'
      BY <1>1, <2>1, <2>2, <2>3 DEF Intake, route_intake, TypeOK
    <2>5. /\ pending = {"validate_request"}
          /\ pending' = (IF intake' \in {"block", "clarify"} THEN {"safe_refusal"}
                       ELSE {"load_context"})
      BY <1>1, GotoAlone DEF Intake, route_intake, Phases, Nodes, Lanes
    <2>6. Shape'
      BY <1>1, <2>5
         DEF Intake, route_intake, Phases, Shape, Nodes, Lanes
    <2>7. LanesReady'
      BY <1>1, <2>5
         DEF Intake, route_intake, Phases, Scheduled, LanesReady, Lanes
    <2>8. EvidenceReady'
      BY <1>1, <2>5
         DEF Intake, route_intake, Phases, Scheduled, EvidenceReady, Lanes
    <2>9. DecisionReady'
      BY <1>1, <2>5
         DEF Intake, route_intake, Phases, Scheduled, DecisionReady, Opening, Gathering, Judging, Lanes
    <2>10. ReleaseReady'
      BY <1>1, <2>5
         DEF Intake, route_intake, Phases, Scheduled, ReleaseReady, Closing, Lanes
    <2> QED
      BY <2>4, <2>6, <2>7, <2>8, <2>9, <2>10 DEF Phases
  <1>2. ASSUME Blocked PROVE TypeOK' /\ Phases'
    <2>1. pending' \subseteq Nodes
      BY <1>2, GotoType DEF Blocked, Nodes
    <2>2. TypeOK'
      BY <1>2, <2>1 DEF Blocked, TypeOK, Routes
    <2>3. /\ pending = {"safe_refusal"}
          /\ pending' = {}
      BY <1>2, GotoAlone DEF Blocked, Phases, Nodes, Lanes
    <2>4. Shape'
      BY <1>2, <2>3
         DEF Blocked, Phases, Shape, Nodes, Lanes
    <2>5. LanesReady'
      BY <1>2, <2>3
         DEF Blocked, Phases, Scheduled, LanesReady, Lanes
    <2>6. EvidenceReady'
      BY <1>2, <2>3
         DEF Blocked, Phases, Scheduled, EvidenceReady, Lanes
    <2>7. DecisionReady'
      BY <1>2, <2>3
         DEF Blocked, Phases, Scheduled, DecisionReady, Opening, Gathering, Judging, Lanes
    <2>8. ReleaseReady'
      BY <1>2, <2>3
         DEF Blocked, Phases, Scheduled, ReleaseReady, Closing, Lanes
    <2> QED
      BY <2>2, <2>4, <2>5, <2>6, <2>7, <2>8 DEF Phases
  <1>3. ASSUME LoadContext PROVE TypeOK' /\ Phases'
    <2>1. pending' \subseteq Nodes
      BY <1>3, GotoType DEF LoadContext, Nodes
    <2>2. TypeOK'
      BY <1>3, <2>1 DEF LoadContext, TypeOK
    <2>3. /\ pending = {"load_context"}
          /\ pending' = {"plan_sub_goals"}
      BY <1>3, GotoAlone DEF LoadContext, Phases, Nodes, Lanes
    <2>4. Shape'
      BY <1>3, <2>3
         DEF LoadContext, Phases, Shape, Nodes, Lanes
    <2>5. LanesReady'
      BY <1>3, <2>3
         DEF LoadContext, Phases, Scheduled, LanesReady, Lanes
    <2>6. EvidenceReady'
      BY <1>3, <2>3
         DEF LoadContext, Phases, Scheduled, EvidenceReady, Lanes
    <2>7. DecisionReady'
      BY <1>3, <2>3
         DEF LoadContext, Phases, Scheduled, DecisionReady, Opening, Gathering, Judging, Lanes
    <2>8. ReleaseReady'
      BY <1>3, <2>3
         DEF LoadContext, Phases, Scheduled, ReleaseReady, Closing, Lanes
    <2> QED
      BY <2>2, <2>4, <2>5, <2>6, <2>7, <2>8 DEF Phases
  <1>4. ASSUME LoadContextRaises PROVE TypeOK' /\ Phases'
    <2>1. Raise("load_context") /\ UNCHANGED memory
      BY <1>4 DEF LoadContextRaises
    <2>2. TypeOK'
      BY <2>1 DEF Raise, TypeOK
    <2>3. Phases'
      BY <2>1, RaisePhases DEF Nodes
    <2> QED
      BY <2>2, <2>3
  <1>5. ASSUME Plan PROVE TypeOK' /\ Phases'
    <2>1. pending' \subseteq Nodes
      BY <1>5, GotoType DEF Plan, Nodes, Lanes
    <2>2. /\ modelCalls' \in Nat /\ tokens' \in Nat /\ late' \in BOOLEAN
          /\ errors' \subseteq {"model", "permanent_tool"}
      BY <1>5, GenerateBounds DEF Plan
    <2>3. guardrails' \in Seq([stage: Stages, outcome: Outcomes])
      BY <1>5, JudgeType DEF Plan, BudgetVerdict, Stages, Outcomes
    <2>4. TypeOK'
      BY <1>5, <2>1, <2>2, <2>3 DEF Plan, TypeOK, MAX_EVIDENCE_ROUNDS
    <2>5. /\ pending = {"plan_sub_goals"}
          /\ pending' = Lanes
      BY <1>5, GotoAlone DEF Plan, Phases, Nodes, Lanes
    <2>6. Shape'
      BY <1>5, <2>5
         DEF Plan, Phases, Shape, Nodes, Lanes
    <2>7. LanesReady'
      BY <1>5, <2>5
         DEF Plan, Phases, Scheduled, LanesReady, Lanes
    <2>8. EvidenceReady'
      BY <1>5, <2>5
         DEF Plan, Phases, Scheduled, EvidenceReady, Lanes
    <2>9. DecisionReady'
      BY <1>5, <2>5
         DEF Plan, Phases, Scheduled, DecisionReady, Opening, Gathering, Judging, Lanes
    <2>10. ReleaseReady'
      BY <1>5, <2>5
         DEF Plan, Phases, Scheduled, ReleaseReady, Closing, Lanes
    <2> QED
      BY <2>4, <2>6, <2>7, <2>8, <2>9, <2>10 DEF Phases
  <1>6. ASSUME Quantitative PROVE TypeOK' /\ Phases'
    <2>1. pending' \subseteq Nodes
      BY <1>6, GotoType DEF Quantitative, Join, Nodes, Lanes
    <2>2. quantitative' \in QuantitativeType
      <3>1. request \in RequestType
        BY DEF TypeOK
      <3>2. ExpectedCutoff \in Days
        BY <3>1 DEF ExpectedCutoff, RequestType, Min2, Days, Effective, Horizon
      <3>3. (IF request.asOf = None THEN Horizon ELSE request.asOf) \in Days
        BY <3>1 DEF RequestType, Days, Horizon
      <3>4. Effective \in Days
        BY DEF Days, Effective, Horizon
      <3>5. \A day \in Days : FailedLane(day) \in QuantitativeType
        BY DEF FailedLane, QuantitativeType
      <3>6. ASSUME NEW q \in QuantResults
            PROVE  [cutoff |-> ExpectedCutoff, available |-> q.available,
                    provenance |-> q.provenance,
                    adverse |-> q.available /\ q.adverse,
                    tie |-> q.available /\ q.tie, stale |-> q.stale]
                       \in QuantitativeType
        <4>1. q \in QuantResultType
          BY QuantResultsAssumption
        <4> QED
          BY <3>2, <4>1 DEF QuantitativeType, QuantResultType
      <3> QED
        BY <1>6, <3>3, <3>4, <3>5, <3>6 DEF Quantitative
    <2>3. errors' \subseteq {"model", "permanent_tool"}
      BY <1>6 DEF Quantitative, TypeOK
    <2>4. TypeOK'
      BY <1>6, <2>1, <2>2, <2>3 DEF Quantitative, TypeOK
    <2>5. \/ pending = {"quantitative_lane"} /\ pending' = {"merge_evidence"}
          \/ pending = Lanes /\ pending' = {"retrieval_lane"}
      BY <1>6, GotoLane DEF Quantitative, Phases, Lanes
    <2>6. Shape'
      BY <1>6, <2>5
         DEF Quantitative, Phases, Shape, Nodes, Lanes
    <2>7. LanesReady'
      BY <1>6, <2>2, <2>5
         DEF Quantitative, Phases, Scheduled, LanesReady, Lanes
    <2>8. EvidenceReady'
      BY <1>6, <2>2, <2>5
         DEF Quantitative, Phases, LanesReady, MAX_EVIDENCE_ROUNDS, Scheduled, EvidenceReady, Lanes
    <2>9. DecisionReady'
      BY <1>6, <2>5
         DEF Quantitative, Phases, Scheduled, DecisionReady, Opening, Gathering, Judging, Lanes
    <2>10. ReleaseReady'
      BY <1>6, <2>5
         DEF Quantitative, Phases, Scheduled, ReleaseReady, Closing, Lanes
    <2> QED
      BY <2>4, <2>6, <2>7, <2>8, <2>9, <2>10 DEF Phases
  <1>7. ASSUME Retrieval PROVE TypeOK' /\ Phases'
    <2>1. pending' \subseteq Nodes
      BY <1>7, GotoType DEF Retrieval, Join, Nodes, Lanes
    <2>2. retrieval' \in RetrievalType
      <3>1. Effective \in Days
        BY DEF Days, Effective, Horizon
      <3>2. Unavailable \in RetrievalType
        BY <3>1 DEF Unavailable, RetrievalType, ObservationType
      <3>3. ASSUME NEW found \in [SubGoals -> Observations]
            PROVE  [available |-> TRUE, cutoff |-> Effective, obs |-> found]
                       \in RetrievalType
        <4>1. found \in [SubGoals -> ObservationType]
          BY ObservationsAssumption
        <4> QED
          BY <3>1, <4>1 DEF RetrievalType
      <3> QED
        BY <1>7, <3>2, <3>3 DEF Retrieval
    <2>3. errors' \subseteq {"model", "permanent_tool"}
      BY <1>7 DEF Retrieval, TypeOK
    <2>4. TypeOK'
      BY <1>7, <2>1, <2>2, <2>3 DEF Retrieval, TypeOK
    <2>5. \/ pending = {"retrieval_lane"} /\ pending' = {"merge_evidence"}
          \/ pending = Lanes /\ pending' = {"quantitative_lane"}
      BY <1>7, GotoLane DEF Retrieval, Phases, Lanes
    <2>6. Shape'
      BY <1>7, <2>5
         DEF Retrieval, Phases, Shape, Nodes, Lanes
    <2>7. LanesReady'
      BY <1>7, <2>2, <2>5
         DEF Retrieval, Phases, Scheduled, LanesReady, Lanes
    <2>8. EvidenceReady'
      BY <1>7, <2>2, <2>5
         DEF Retrieval, Phases, LanesReady, MAX_EVIDENCE_ROUNDS, Scheduled, EvidenceReady, Lanes
    <2>9. DecisionReady'
      BY <1>7, <2>5
         DEF Retrieval, Phases, Scheduled, DecisionReady, Opening, Gathering, Judging, Lanes
    <2>10. ReleaseReady'
      BY <1>7, <2>5
         DEF Retrieval, Phases, Scheduled, ReleaseReady, Closing, Lanes
    <2> QED
      BY <2>4, <2>6, <2>7, <2>8, <2>9, <2>10 DEF Phases
  <1>8. ASSUME Merge PROVE TypeOK' /\ Phases'
    <2>1. /\ quantitative \in QuantitativeType
          /\ retrieval \in RetrievalType
          /\ round < MAX_EVIDENCE_ROUNDS
      BY <1>8 DEF Merge, Goto, Phases, Scheduled, EvidenceReady
    <2> DEFINE q == ScreenedQuantitative(quantitative)
               r == ScreenedRetrieval(quantitative, retrieval)
    <2>2. q \in QuantitativeType /\ r \in RetrievalType /\ Kept(retrieval) \subseteq {"sound"}
      BY <2>1, ScreenSound
    <2>3. route_coverage(q, r, round + 1) \in Nodes
      BY DEF route_coverage, Nodes
    <2>4. pending' \subseteq Nodes
      BY <1>8, <2>3, GotoType DEF Merge, Nodes
    <2>5. round' \in 0..MAX_EVIDENCE_ROUNDS
      BY <1>8, <2>1 DEF Merge, TypeOK, MAX_EVIDENCE_ROUNDS
    <2>6. bundle' \in BundleType
      <3>1. PICK old \in BOOLEAN :
              bundle' = [cites |-> Kept(retrieval),
                         critical |-> ~q.available \/ ~r.available,
                         gap |-> Uncovered(r) # {},
                         stale |-> q.stale \/ (old /\ Kept(retrieval) # {}),
                         adverse |-> q.adverse, tie |-> q.tie]
        BY <1>8 DEF Merge
      <3>2. q.adverse \in BOOLEAN /\ q.tie \in BOOLEAN /\ q.stale \in BOOLEAN
        BY <2>2 DEF QuantitativeType
      <3>3. Kept(retrieval) \subseteq Citations
        BY <2>2 DEF Citations
      <3> HIDE DEF q, r
      <3> QED
        BY <3>1, <3>2, <3>3, Zenon DEF BundleType
    <2>7. guardrails' \in Seq([stage: Stages, outcome: Outcomes])
      BY <1>8, JudgeType DEF Merge, Stages, Outcomes
    <2>8. quantitative' \in QuantitativeType /\ retrieval' \in RetrievalType
      BY <1>8, <2>2 DEF Merge
    <2>9. UNCHANGED <<request, status, intake, decision, released, budget, late,
                      errors, memory>>
      BY <1>8 DEF Merge
    <2>10. /\ bundle'.cites = Kept(retrieval) /\ Kept(retrieval) \subseteq {"sound"}
           /\ "foreign" \notin Cites(retrieval')
           /\ Cites(retrieval') \subseteq Kept(retrieval)
      BY <1>8, <2>1, ScreenSound DEF Merge
    <2>11. /\ pending = {"merge_evidence"}
           /\ pending' = {route_coverage(quantitative', retrieval', round')}
      BY <1>8, GotoAlone DEF Merge, Phases, Nodes, Lanes
    <2>12. \/ pending' = {"targeted_retry"} /\ round' < MAX_EVIDENCE_ROUNDS
           \/ pending' = {"degraded_result"}
           \/ /\ pending' = {"conflict_gate"}
              /\ quantitative'.available /\ retrieval'.available
              /\ bundle'.cites # {}
      BY <2>10, <2>11, CoverageRoutes
    <2>13. TypeOK'
      BY <2>4, <2>5, <2>6, <2>7, <2>8, <2>9 DEF TypeOK
    <2>14. Shape'
      BY <1>8, <2>11, <2>12
         DEF Merge, Phases, Shape, Nodes, Lanes
    <2>15. LanesReady'
      BY <1>8, <2>11, <2>12
         DEF Merge, Phases, Scheduled, LanesReady, Lanes
    <2>16. EvidenceReady'
      BY <1>8, <2>2, <2>6, <2>8, <2>10, <2>11, <2>12
         DEF Merge, Phases, Scheduled, EvidenceReady, Lanes
    <2>17. DecisionReady'
      BY <1>8, <2>6, <2>10, <2>11, <2>12
         DEF Merge, Phases, Scheduled, DecisionReady, Opening, Gathering, Judging, Lanes
    <2>18. ReleaseReady'
      BY <1>8, <2>11, <2>12
         DEF Merge, Phases, Scheduled, ReleaseReady, Closing, Lanes
    <2> QED
      BY <2>13, <2>14, <2>15, <2>16, <2>17, <2>18 DEF Phases
  <1>9. ASSUME TargetedRetry PROVE TypeOK' /\ Phases'
    <2>1. retrieval \in RetrievalType
      BY <1>9 DEF TargetedRetry, Goto, Phases, Scheduled, EvidenceReady
    <2>2. pending' \subseteq Nodes
      BY <1>9, GotoType DEF TargetedRetry, Nodes
    <2>3. retrieval' \in RetrievalType
      <3>1. ASSUME NEW targets \in SUBSET SubGoals,
                   NEW found \in [targets -> Observations]
            PROVE  [retrieval EXCEPT !.obs =
                      [g \in SubGoals |-> IF g \in targets THEN found[g]
                                          ELSE retrieval.obs[g]]] \in RetrievalType
        BY <2>1, ObservationsAssumption DEF RetrievalType
      <3>2. Uncovered(retrieval) \in SUBSET SubGoals
        BY DEF Uncovered
      <3> QED
        BY <1>9, <2>1, <3>1, <3>2 DEF TargetedRetry
    <2>4. TypeOK'
      BY <1>9, <2>2, <2>3 DEF TargetedRetry, TypeOK
    <2>5. /\ pending = {"targeted_retry"}
          /\ pending' = {"merge_evidence"}
      BY <1>9, GotoAlone DEF TargetedRetry, Phases, Nodes, Lanes
    <2>6. Shape'
      BY <1>9, <2>5
         DEF TargetedRetry, Phases, Shape, Nodes, Lanes
    <2>7. LanesReady'
      BY <1>9, <2>5
         DEF TargetedRetry, Phases, Scheduled, LanesReady, Lanes
    <2>8. EvidenceReady'
      BY <1>9, <2>3, <2>5
         DEF TargetedRetry, Phases, Scheduled, EvidenceReady, Lanes
    <2>9. DecisionReady'
      BY <1>9, <2>5
         DEF TargetedRetry, Phases, Scheduled, DecisionReady, Opening, Gathering, Judging, Lanes
    <2>10. ReleaseReady'
      BY <1>9, <2>5
         DEF TargetedRetry, Phases, Scheduled, ReleaseReady, Closing, Lanes
    <2> QED
      BY <2>4, <2>6, <2>7, <2>8, <2>9, <2>10 DEF Phases
  <1>10. ASSUME TargetedRetryRaises PROVE TypeOK' /\ Phases'
    <2>1. Raise("targeted_retry") /\ UNCHANGED memory
      BY <1>10 DEF TargetedRetryRaises
    <2>2. TypeOK'
      BY <2>1 DEF Raise, TypeOK
    <2>3. Phases'
      BY <2>1, RaisePhases DEF Nodes
    <2> QED
      BY <2>2, <2>3
  <1>11. ASSUME ConflictGate PROVE TypeOK' /\ Phases'
    <2>1. \A c : route_conflict(c) \in Nodes
      BY DEF route_conflict, Nodes
    <2>2. pending' \subseteq Nodes
      BY <1>11, <2>1, GotoType DEF ConflictGate, Nodes
    <2>3. conflict' \in ConflictType
      BY <1>11 DEF ConflictGate, ConflictType
    <2>4. TypeOK'
      BY <1>11, <2>2, <2>3 DEF ConflictGate, TypeOK
    <2>5. /\ pending = {"conflict_gate"}
          /\ pending' = {route_conflict(conflict')}
      BY <1>11, GotoAlone DEF ConflictGate, Phases, Nodes, Lanes
    <2>6. Shape'
      BY <1>11, <2>5
         DEF ConflictGate, Phases, route_conflict, Shape, Nodes, Lanes
    <2>7. LanesReady'
      BY <1>11, <2>5
         DEF ConflictGate, Phases, route_conflict, Scheduled, LanesReady, Lanes
    <2>8. EvidenceReady'
      BY <1>11, <2>5
         DEF ConflictGate, Phases, route_conflict, Scheduled, EvidenceReady, Lanes
    <2>9. DecisionReady'
      BY <1>11, <2>3, <2>5
         DEF ConflictGate, Phases, route_conflict, Scheduled, DecisionReady, Opening, Gathering, Judging, Lanes
    <2>10. ReleaseReady'
      BY <1>11, <2>5
         DEF ConflictGate, Phases, route_conflict, Scheduled, ReleaseReady, Closing, Lanes
    <2> QED
      BY <2>4, <2>6, <2>7, <2>8, <2>9, <2>10 DEF Phases
  <1>12. ASSUME TotSelects PROVE TypeOK' /\ Phases'
    <2>1. bundle \in BundleType /\ conflict \in ConflictType
      BY <1>12 DEF TotSelects, Goto, Phases, Scheduled, DecisionReady, Judging
    <2>2. pending' \subseteq Nodes
      BY <1>12, GotoType DEF TotSelects, Nodes
    <2>3. PICK usable \in BOOLEAN, raw \in Levels, adverse \in BOOLEAN :
            /\ Generate(usable)
            /\ \E source \in Narratives(usable) :
                 draft' = [selectedBy |-> "tree_of_thought", narrative |-> source,
                           raw |-> raw,
                           level |-> compute_confidence(raw, bundle, conflict),
                           adverse |-> adverse]
      BY <1>12 DEF TotSelects
    <2>4. compute_confidence(raw, bundle, conflict) \in Levels
      BY DEF compute_confidence, Min2, Levels
    <2>5. draft' \in DraftType
      BY <2>3, <2>4 DEF DraftType, Narratives
    <2>6. conflict' \in ConflictType
      BY <1>12, <2>1 DEF TotSelects, ConflictType
    <2>7. guardrails' \in Seq([stage: Stages, outcome: Outcomes])
      BY <1>12, JudgeType DEF TotSelects, BudgetVerdict, Stages, Outcomes
    <2>8. /\ modelCalls' \in Nat /\ tokens' \in Nat /\ late' \in BOOLEAN
          /\ errors' \subseteq {"model", "permanent_tool"}
      BY <2>3, GenerateBounds
    <2>9. TypeOK'
      BY <1>12, <2>2, <2>5, <2>6, <2>7, <2>8 DEF TotSelects, TypeOK
    <2>10. /\ pending = {"tot_adjudication"}
          /\ pending' = {"verify_output"}
      BY <1>12, GotoAlone DEF TotSelects, Phases, Nodes, Lanes
    <2>11. Shape'
      BY <1>12, <2>10
         DEF TotSelects, Phases, Shape, Nodes, Lanes
    <2>12. LanesReady'
      BY <1>12, <2>10
         DEF TotSelects, Phases, Scheduled, LanesReady, Lanes
    <2>13. EvidenceReady'
      BY <1>12, <2>10
         DEF TotSelects, Phases, Scheduled, EvidenceReady, Lanes
    <2>14. DecisionReady'
      BY <1>12, <2>5, <2>6, <2>10
         DEF TotSelects, Phases, Scheduled, DecisionReady, Opening, Gathering, Judging, Lanes
    <2>15. ReleaseReady'
      BY <1>12, <2>10
         DEF TotSelects, Phases, Scheduled, ReleaseReady, Closing, Lanes
    <2> QED
      BY <2>9, <2>11, <2>12, <2>13, <2>14, <2>15 DEF Phases
  <1>13. ASSUME TotAbstains PROVE TypeOK' /\ Phases'
    <2>1. bundle \in BundleType /\ conflict \in ConflictType
      BY <1>13 DEF TotAbstains, Goto, Phases, Scheduled, DecisionReady, Judging
    <2>2. pending' \subseteq Nodes
      BY <1>13, GotoType DEF TotAbstains, Nodes
    <2>3. final' \in FinalType /\ route' \in Routes /\ conflict' \in ConflictType
      <3>1. final' \in FinalType
        BY <1>13, <2>1 DEF TotAbstains, FinalResult, FinalType, BundleType, Levels
      <3>2. route' \in Routes
        BY <1>13 DEF TotAbstains, abstention_route, Routes
      <3>3. conflict' \in ConflictType
        BY <1>13, <2>1 DEF TotAbstains, ConflictType
      <3> QED
        BY <3>1, <3>2, <3>3
    <2>4. guardrails' \in Seq([stage: Stages, outcome: Outcomes])
      BY <1>13, AbstentionType DEF TotAbstains
    <2>5. /\ modelCalls' \in Nat /\ tokens' \in Nat /\ late' \in BOOLEAN
          /\ errors' \subseteq {"model", "permanent_tool"}
      BY <1>13, GenerateBounds DEF TotAbstains
    <2>6. UNCHANGED <<request, status, intake, evidence, draft, verification,
                      reviewState, memory>>
      BY <1>13 DEF TotAbstains
    <2>7. TypeOK'
      BY <2>2, <2>3, <2>4, <2>5, <2>6 DEF TypeOK
    <2>8. /\ pending = {"tot_adjudication"}
          /\ pending' = {"persist"}
      BY <1>13, GotoAlone DEF TotAbstains, Phases, Nodes, Lanes
    <2>9. Shape'
      BY <1>13, <2>8
         DEF TotAbstains, Phases, Shape, Nodes, Lanes
    <2>10. LanesReady'
      BY <1>13, <2>8
         DEF TotAbstains, Phases, Scheduled, LanesReady, Lanes
    <2>11. EvidenceReady'
      BY <1>13, <2>8
         DEF TotAbstains, Phases, Scheduled, EvidenceReady, Lanes
    <2>12. DecisionReady'
      BY <1>13, <2>8
         DEF TotAbstains, Phases, Scheduled, DecisionReady, Opening, Gathering, Judging, Lanes
    <2>13. ReleaseReady'
      BY <1>13, <2>3, <2>8
         DEF TotAbstains, Phases, Scheduled, ReleaseReady, Closing, Lanes
    <2> QED
      BY <2>7, <2>9, <2>10, <2>11, <2>12, <2>13 DEF Phases
  <1>14. ASSUME FastAdjudication PROVE TypeOK' /\ Phases'
    <2>1. bundle \in BundleType /\ conflict \in ConflictType
      BY <1>14 DEF FastAdjudication, Goto, Phases, Scheduled, DecisionReady, Judging
    <2>2. pending' \subseteq Nodes
      BY <1>14, GotoType DEF FastAdjudication, Nodes
    <2>3. PICK usable \in BOOLEAN, raw \in Levels :
            /\ Generate(usable)
            /\ draft' = [selectedBy |-> "linear",
                         narrative |-> IF usable THEN "model" ELSE "deterministic",
                         raw |-> raw,
                         level |-> compute_confidence(raw, bundle, conflict),
                         adverse |-> bundle.adverse]
      BY <1>14 DEF FastAdjudication
    <2>4. compute_confidence(raw, bundle, conflict) \in Levels
      BY DEF compute_confidence, Min2, Levels
    <2>5. draft' \in DraftType
      BY <2>1, <2>3, <2>4 DEF DraftType, BundleType
    <2>6. guardrails' \in Seq([stage: Stages, outcome: Outcomes])
      BY <1>14, JudgeType DEF FastAdjudication, BudgetVerdict, Stages, Outcomes
    <2>7. /\ modelCalls' \in Nat /\ tokens' \in Nat /\ late' \in BOOLEAN
          /\ errors' \subseteq {"model", "permanent_tool"}
      BY <2>3, GenerateBounds
    <2>8. TypeOK'
      BY <1>14, <2>2, <2>5, <2>6, <2>7 DEF FastAdjudication, TypeOK
    <2>9. /\ pending = {"fast_adjudication"}
          /\ pending' = {"verify_output"}
      BY <1>14, GotoAlone DEF FastAdjudication, Phases, Nodes, Lanes
    <2>10. Shape'
      BY <1>14, <2>9
         DEF FastAdjudication, Phases, Shape, Nodes, Lanes
    <2>11. LanesReady'
      BY <1>14, <2>9
         DEF FastAdjudication, Phases, Scheduled, LanesReady, Lanes
    <2>12. EvidenceReady'
      BY <1>14, <2>9
         DEF FastAdjudication, Phases, Scheduled, EvidenceReady, Lanes
    <2>13. DecisionReady'
      BY <1>14, <2>5, <2>9
         DEF FastAdjudication, Phases, Scheduled, DecisionReady, Opening, Gathering, Judging, Lanes
    <2>14. ReleaseReady'
      BY <1>14, <2>9
         DEF FastAdjudication, Phases, Scheduled, ReleaseReady, Closing, Lanes
    <2> QED
      BY <2>8, <2>10, <2>11, <2>12, <2>13, <2>14 DEF Phases
  <1>15. ASSUME VerifyOutput PROVE TypeOK' /\ Phases'
    <2>1. PICK passed \in BOOLEAN :
            LET v == [passed |-> passed,
                      attempts |-> IF verification = None THEN 1
                                   ELSE verification.attempts + 1]
            IN /\ Goto("verify_output", {route_verification(v, draft)})
               /\ verification' = v
               /\ guardrails' = Judge("output", IF passed THEN "pass" ELSE "review")
      BY <1>15 DEF VerifyOutput
    <2>2. \A v, d : route_verification(v, d) \in Nodes
      BY DEF route_verification, Nodes
    <2>3. pending' \subseteq Nodes
      BY <2>1, <2>2, GotoType DEF Nodes
    <2>4. verification' \in VerificationType
      <3>1. \/ verification = None
            \/ verification \in VerificationType /\ verification.attempts <= 1
        BY <2>1 DEF Goto, Phases, Scheduled, DecisionReady, TypeOK, MAX_OUTPUT_REGENERATIONS
      <3>2. (IF verification = None THEN 1 ELSE verification.attempts + 1) \in 1..2
        BY <3>1 DEF VerificationType, MAX_OUTPUT_REGENERATIONS
      <3> QED
        BY <2>1, <3>2 DEF VerificationType, MAX_OUTPUT_REGENERATIONS
    <2>5. guardrails' \in Seq([stage: Stages, outcome: Outcomes])
      BY <2>1, JudgeType DEF Stages, Outcomes
    <2>6. TypeOK'
      BY <1>15, <2>3, <2>4, <2>5 DEF VerifyOutput, TypeOK
    <2>7. /\ pending = {"verify_output"}
          /\ pending' = {route_verification(verification', draft)}
      BY <1>15, GotoAlone DEF VerifyOutput, Phases, Nodes, Lanes
    <2>8. Shape'
      BY <1>15, <2>7
         DEF VerifyOutput, Phases, route_verification, Shape, Nodes, Lanes
    <2>9. LanesReady'
      BY <1>15, <2>7
         DEF VerifyOutput, Phases, route_verification, Scheduled, LanesReady, Lanes
    <2>10. EvidenceReady'
      BY <1>15, <2>7
         DEF VerifyOutput, Phases, route_verification, Scheduled, EvidenceReady, Lanes
    <2>11. DecisionReady'
      BY <1>15, <2>4, <2>7
         DEF VerifyOutput, Phases, route_verification, Scheduled, DecisionReady, Opening, Gathering, Judging, Lanes
    <2>12. ReleaseReady'
      BY <1>15, <2>7
         DEF VerifyOutput, Phases, route_verification, Scheduled, ReleaseReady, Closing, Lanes
    <2> QED
      BY <2>6, <2>8, <2>9, <2>10, <2>11, <2>12 DEF Phases
  <1>16. ASSUME SafeFallback PROVE TypeOK' /\ Phases'
    <2>1. draft \in DraftType
      BY <1>16 DEF SafeFallback, Goto, Phases, Scheduled, DecisionReady
    <2>2. draft' \in DraftType
      BY <1>16, <2>1 DEF SafeFallback, DraftType
    <2>3. pending' \subseteq Nodes
      BY <1>16, GotoType DEF SafeFallback, Nodes
    <2>4. TypeOK'
      BY <1>16, <2>2, <2>3 DEF SafeFallback, TypeOK
    <2>5. /\ pending = {"safe_fallback"}
          /\ pending' = {"assign_route"}
      BY <1>16, GotoAlone DEF SafeFallback, Phases, Nodes, Lanes
    <2>6. Shape'
      BY <1>16, <2>5
         DEF SafeFallback, Phases, Shape, Nodes, Lanes
    <2>7. LanesReady'
      BY <1>16, <2>5
         DEF SafeFallback, Phases, Scheduled, LanesReady, Lanes
    <2>8. EvidenceReady'
      BY <1>16, <2>5
         DEF SafeFallback, Phases, Scheduled, EvidenceReady, Lanes
    <2>9. DecisionReady'
      BY <1>16, <2>2, <2>5
         DEF SafeFallback, Phases, Scheduled, DecisionReady, Opening, Gathering, Judging, Lanes
    <2>10. ReleaseReady'
      BY <1>16, <2>5
         DEF SafeFallback, Phases, Scheduled, ReleaseReady, Closing, Lanes
    <2> QED
      BY <2>4, <2>6, <2>7, <2>8, <2>9, <2>10 DEF Phases
  <1>17. ASSUME Degraded PROVE TypeOK' /\ Phases'
    <2>1. retrieval \in RetrievalType
      BY <1>17 DEF Degraded, Goto, Phases, Scheduled, EvidenceReady
    <2>2. Cites(retrieval) \subseteq Citations
      BY <2>1 DEF Cites, RetrievalType, ObservationType
    <2>3. (retrieval.available /\ Exhausted(retrieval)) \in BOOLEAN
      BY Zenon DEF Exhausted
    <2>4. final' \in FinalType /\ route' \in Routes
      BY <1>17, <2>2, <2>3 DEF Degraded, FinalResult, FinalType, Levels,
                               abstention_route, Routes
    <2>5. pending' \subseteq Nodes
      BY <1>17, GotoType DEF Degraded, Nodes
    <2>6. guardrails' \in Seq([stage: Stages, outcome: Outcomes])
      BY <1>17, AbstentionType DEF Degraded
    <2>7. UNCHANGED <<request, status, intake, evidence, decision, reviewState,
                      budget, late, errors, memory>>
      BY <1>17 DEF Degraded
    <2>8. TypeOK'
      BY <2>4, <2>5, <2>6, <2>7 DEF TypeOK
    <2>9. /\ pending = {"degraded_result"}
          /\ pending' = {"persist"}
      BY <1>17, GotoAlone DEF Degraded, Phases, Nodes, Lanes
    <2>10. Shape'
      BY <1>17, <2>9
         DEF Degraded, Phases, Shape, Nodes, Lanes
    <2>11. LanesReady'
      BY <1>17, <2>9
         DEF Degraded, Phases, Scheduled, LanesReady, Lanes
    <2>12. EvidenceReady'
      BY <1>17, <2>9
         DEF Degraded, Phases, Scheduled, EvidenceReady, Lanes
    <2>13. DecisionReady'
      BY <1>17, <2>9
         DEF Degraded, Phases, Scheduled, DecisionReady, Opening, Gathering, Judging, Lanes
    <2>14. ReleaseReady'
      BY <1>17, <2>4, <2>9
         DEF Degraded, Phases, Scheduled, ReleaseReady, Closing, Lanes
    <2> QED
      BY <2>8, <2>10, <2>11, <2>12, <2>13, <2>14 DEF Phases
  <1>18. ASSUME AssignRoute PROVE TypeOK' /\ Phases'
    <2>1. /\ bundle \in BundleType /\ draft \in DraftType
          /\ verification \in VerificationType
      BY <1>18 DEF AssignRoute, Goto, Phases, Scheduled, DecisionReady, Judging
    <2>2. apply_verification_cap(draft.level, verification) \in Levels
      BY <2>1 DEF apply_verification_cap, Min2, Levels, DraftType
    <2>3. \A level, d : human_route(level, d) \in Routes
      BY DEF human_route, Routes
    <2>4. final' \in FinalType /\ route' \in Routes
      BY <1>18, <2>1, <2>2, <2>3 DEF AssignRoute, FinalResult, FinalType,
                                     BundleType, DraftType
    <2>5. pending' \subseteq Nodes
      BY <1>18, GotoType DEF AssignRoute, Nodes
    <2>6. guardrails' \in Seq([stage: Stages, outcome: Outcomes])
      BY <1>18, JudgeType DEF AssignRoute, Stages, Outcomes
    <2>7. UNCHANGED <<request, status, intake, evidence, decision, reviewState,
                      budget, late, errors, memory>>
      BY <1>18 DEF AssignRoute
    <2>8. TypeOK'
      BY <2>4, <2>5, <2>6, <2>7 DEF TypeOK
    <2>9. /\ pending = {"assign_route"}
          /\ pending' = {"persist"}
      BY <1>18, GotoAlone DEF AssignRoute, Phases, Nodes, Lanes
    <2>10. Shape'
      BY <1>18, <2>9
         DEF AssignRoute, Phases, Shape, Nodes, Lanes
    <2>11. LanesReady'
      BY <1>18, <2>9
         DEF AssignRoute, Phases, Scheduled, LanesReady, Lanes
    <2>12. EvidenceReady'
      BY <1>18, <2>9
         DEF AssignRoute, Phases, Scheduled, EvidenceReady, Lanes
    <2>13. DecisionReady'
      BY <1>18, <2>9
         DEF AssignRoute, Phases, Scheduled, DecisionReady, Opening, Gathering, Judging, Lanes
    <2>14. ReleaseReady'
      BY <1>18, <2>4, <2>9
         DEF AssignRoute, Phases, Scheduled, ReleaseReady, Closing, Lanes
    <2> QED
      BY <2>8, <2>10, <2>11, <2>12, <2>13, <2>14 DEF Phases
  <1>19. ASSUME Persist PROVE TypeOK' /\ Phases'
    <2>1. pending' \subseteq Nodes
      BY <1>19, GotoType DEF Persist, Nodes
    <2>2. regressions' \subseteq Origins
      BY <1>19 DEF Persist, RegressionOrigins
    <2>3. recorded' \in BOOLEAN
      BY <1>19 DEF Persist, HasStore, TypeOK, RequestType
    <2>10. TypeOK'
      BY <1>19, <2>1, <2>2, <2>3 DEF Persist, TypeOK
    <2>4. /\ pending = {"persist"}
          /\ pending' = (IF route_human_review(route, OpensCase) = "await_review"
                       THEN {"await_review"} ELSE {})
      BY <1>19, GotoAlone DEF Persist, Phases, Nodes, Lanes
    <2>5. Shape'
      BY <1>19, <2>4
         DEF Persist, Phases, Shape, Nodes, Lanes
    <2>6. LanesReady'
      BY <1>19, <2>4
         DEF Persist, Phases, Scheduled, LanesReady, Lanes
    <2>7. EvidenceReady'
      BY <1>19, <2>4
         DEF Persist, Phases, Scheduled, EvidenceReady, Lanes
    <2>8. DecisionReady'
      BY <1>19, <2>4
         DEF Persist, Phases, Scheduled, DecisionReady, Opening, Gathering, Judging, Lanes
    <2>9. ReleaseReady'
      BY <1>19, <2>4
         DEF Persist, Phases, Scheduled, ReleaseReady, Closing, Lanes
    <2> QED
      BY <2>10, <2>5, <2>6, <2>7, <2>8, <2>9 DEF Phases
  <1>20. ASSUME PersistRaises PROVE TypeOK' /\ Phases'
    <2>1. regressions' \subseteq Origins
      BY <1>20 DEF PersistRaises, RegressionOrigins, TypeOK
    <2>2. recorded' \in BOOLEAN /\ case' \in {"none", "open", "resolved"}
      BY <1>20 DEF PersistRaises, TypeOK
    <2>3. TypeOK'
      BY <1>20, <2>1, <2>2 DEF PersistRaises, Raise, TypeOK
    <2>4. Phases'
      BY <1>20, RaisePhases DEF PersistRaises, Nodes
    <2> QED
      BY <2>3, <2>4
  <1>21. ASSUME NEW action \in {"approve", "escalate", "request_data", "override"},
                NEW corrected \in {"adverse", "favorable", "insufficient"},
                AwaitReview(action, corrected)
         PROVE TypeOK' /\ Phases'
    <2>1. final \in FinalType
      BY <1>21 DEF AwaitReview, Phases, Scheduled, ReleaseReady, Closing
    <2>2. final' \in FinalType
      BY <1>21, <2>1 DEF AwaitReview, apply_review, FinalType
    <2>3. regressions' \subseteq Origins
      BY <1>21 DEF AwaitReview, Origins, TypeOK
    <2>4. TypeOK'
      BY <1>21, <2>2, <2>3 DEF AwaitReview, TypeOK
    <2>5. Shape'
      BY <1>21
         DEF AwaitReview, Phases, Shape, Nodes, Lanes
    <2>6. LanesReady'
      BY <1>21
         DEF AwaitReview, Phases, Scheduled, LanesReady, Lanes
    <2>7. EvidenceReady'
      BY <1>21
         DEF AwaitReview, Phases, Scheduled, EvidenceReady, Lanes
    <2>8. DecisionReady'
      BY <1>21
         DEF AwaitReview, Phases, Scheduled, DecisionReady, Opening, Gathering, Judging, Lanes
    <2>9. ReleaseReady'
      BY <1>21
         DEF AwaitReview, Phases, Scheduled, ReleaseReady, Closing, Lanes
    <2> QED
      BY <2>4, <2>5, <2>6, <2>7, <2>8, <2>9 DEF Phases
  <1>22. ASSUME ClockExpires PROVE TypeOK' /\ Phases'
    <2>1. TypeOK'
      BY <1>22 DEF ClockExpires, TypeOK
    <2>2. Phases'
      BY <1>22 DEF ClockExpires, Phases, Shape, LanesReady, EvidenceReady,
                   DecisionReady, ReleaseReady, Scheduled, Cites
    <2> QED
      BY <2>1, <2>2
  <1>23. CASE UNCHANGED vars
    <2>1. TypeOK'
      BY <1>23 DEF vars, TypeOK
    <2>2. Phases'
      BY <1>23 DEF vars, Phases, Shape, LanesReady, EvidenceReady,
                   DecisionReady, ReleaseReady, Scheduled, Cites
    <2> QED
      BY <2>1, <2>2
  <1> QED
    BY <1>1, <1>2, <1>3, <1>4, <1>5, <1>6, <1>7, <1>8, <1>9, <1>10, <1>11, <1>12,
       <1>13, <1>14, <1>15, <1>16, <1>17, <1>18, <1>19, <1>20, <1>21, <1>22, <1>23
       DEF Next, NodeStep, Reviews

\* Every reachable state is well typed and every scheduled node finds the
\* state keys it reads (ForecasterState, build_graph).
THEOREM Inductive == Spec => []IInv
  <1>1. Init => IInv
    BY InitInv DEF AllInv
  <1>2. IInv /\ [Next]_vars => IInv'
    BY InductiveStep DEF IInv
  <1> QED
    BY <1>1, <1>2, PTL DEF Spec

\* Type correctness of the graph's state, the bounds on rounds and on
\* verification attempts included (state.py, route_coverage, route_verification).
THEOREM TypeCorrect == Spec => []TypeOK
  <1>1. IInv => TypeOK
    BY DEF IInv
  <1> QED
    BY <1>1, Inductive, PTL

----------------------------------------------------------------------------
\* Safety of the released result.

\* Until a closing node is scheduled there is no result.
LEMMA Unreleased ==
    ASSUME IInv, NEW n \in Nodes \ Closing, n \in pending
    PROVE  final = None
  BY DEF IInv, Phases, ReleaseReady

\* What the releasing nodes put in the result.
LEMMA AbstentionKind ==
    ASSUME Degraded \/ TotAbstains
    PROVE  final'.kind = "insufficient"
  <1>1. PICK exhausted, cites :
            final' = FinalResult("insufficient", exhausted, 0, FALSE, cites)
    BY DEF Degraded, TotAbstains
  <1> QED
    BY <1>1 DEF FinalResult

LEMMA ReleasedCites ==
    ASSUME AssignRoute \/ TotAbstains
    PROVE  final'.cites = bundle.cites
  <1>1. PICK kind, level, adverse :
            final' = FinalResult(kind, FALSE, level, adverse, bundle.cites)
    BY DEF AssignRoute, TotAbstains
  <1> QED
    BY <1>1 DEF FinalResult

\* Every step but the three that release a result leaves the result's band,
\* citations and evidence alone; only the reviewer's decision rewrites it, and
\* what that leaves is no longer the system's (apply_review).
LEMMA ResultFrame ==
    ASSUME IInv, [Next]_vars, ~AssignRoute, ~Degraded, ~TotAbstains
    PROVE  \/ final' = None
           \/ /\ final # None
              /\ UNCHANGED <<route, guardrails, quantitative, retrieval, bundle>>
              /\ final'.cites = final.cites
              /\ Forecast' => final' = final
  <1> USE DEF evidence, decision, released, budget, memory
  <1>1. CASE Intake \/ Blocked \/ LoadContext \/ LoadContextRaises \/ Plan
    <2>1. final' = final
      BY <1>1 DEF Intake, route_intake, Blocked, LoadContext, LoadContextRaises, Raise, Plan
    <2>2. \E n \in Opening : n \in pending
      BY <1>1 DEF Intake, route_intake, Blocked, LoadContext, LoadContextRaises, Raise, Plan,
                  Goto, Opening
    <2> QED
      BY <2>1, <2>2, Unreleased DEF Opening, Closing, Nodes
  <1>2. CASE Quantitative \/ Retrieval \/ Merge \/ TargetedRetry \/ TargetedRetryRaises
    <2>1. final' = final
      BY <1>2 DEF Quantitative, Retrieval, Merge, TargetedRetry,
                  TargetedRetryRaises, Raise
    <2>2. \E n \in Gathering : n \in pending
      BY <1>2 DEF Quantitative, Retrieval, Merge, TargetedRetry,
                  TargetedRetryRaises, Raise, Goto, Gathering, Lanes
    <2> QED
      BY <2>1, <2>2, Unreleased DEF Gathering, Lanes, Closing, Nodes
  <1>3. CASE ConflictGate \/ TotSelects \/ FastAdjudication \/ VerifyOutput \/ SafeFallback
    <2>1. final' = final
      BY <1>3 DEF ConflictGate, TotSelects, FastAdjudication, VerifyOutput,
                  SafeFallback
    <2>2. \E n \in Judging : n \in pending
      BY <1>3 DEF ConflictGate, TotSelects, FastAdjudication, VerifyOutput,
                  SafeFallback, Goto, Judging
    <2> QED
      BY <2>1, <2>2, Unreleased DEF Judging, Closing, Nodes
  <1>4. CASE Persist \/ PersistRaises \/ ClockExpires \/ UNCHANGED vars
    <2>1. UNCHANGED <<final, route, guardrails, quantitative, retrieval, bundle>>
      BY <1>4 DEF Persist, PersistRaises, Raise, ClockExpires, vars
    <2> QED
      BY <2>1
  <1>5. CASE Reviews
    <2>1. PICK action \in {"approve", "escalate", "request_data", "override"},
               corrected \in {"adverse", "favorable", "insufficient"} :
            AwaitReview(action, corrected)
      BY <1>5 DEF Reviews
    <2>2. final \in FinalType /\ final' = apply_review(action, corrected)
      BY <2>1 DEF AwaitReview, IInv, Phases, Scheduled, ReleaseReady, Closing
    <2>3. final'.cites = final.cites /\ (final' = final \/ final'.author = "reviewer")
      BY <2>2 DEF apply_review, FinalType
    <2>4. UNCHANGED <<route, guardrails, quantitative, retrieval, bundle>>
      BY <2>1 DEF AwaitReview
    <2>5. final # None
      BY <2>2, NoneAssumption
    <2> QED
      BY <2>3, <2>4, <2>5 DEF Forecast
  <1> QED
    BY <1>1, <1>2, <1>3, <1>4, <1>5 DEF Next, NodeStep

\* A quarantine found anywhere in the verdict list is seen by _strict_verdict,
\* and the verdict the router appends is not one.
LEMMA QuarantineSeen ==
    ASSUME TypeOK, NEW outcome, guardrails' = Judge("routing", outcome), Quarantined'
    PROVE  EverFailed("evidence")
  <1>1. guardrails \in Seq([stage: Stages, outcome: Outcomes])
    BY DEF TypeOK
  <1>2. guardrails' = Append(guardrails, Verdict("routing", outcome))
    BY DEF Judge
  <1>3. PICK i \in DOMAIN guardrails' : guardrails'[i] = Verdict("evidence", "review")
    BY DEF Quarantined
  <1>4. Verdict("evidence", "review") # Verdict("routing", outcome)
    BY DEF Verdict
  <1>5. i \in DOMAIN guardrails /\ guardrails[i] = Verdict("evidence", "review")
    BY <1>1, <1>2, <1>3, <1>4
  <1> QED
    BY <1>5 DEF EverFailed, Verdict

\* A forecast over quarantined evidence is red, for every mix of lane results,
\* retries and bands (D-035, _strict_verdict, human_route).
THEOREM QuarantineSafety == Spec => []QuarantinedForecastIsRed
  <1>1. Init => QuarantinedForecastIsRed
    BY DEF Init, QuarantinedForecastIsRed, Forecast
  <1>2. ASSUME IInv, QuarantinedForecastIsRed, [Next]_vars
        PROVE  QuarantinedForecastIsRed'
    <2>1. CASE AssignRoute
      <3> SUFFICES ASSUME Quarantined' PROVE route' = "red"
        BY DEF QuarantinedForecastIsRed
      <3>1. PICK outcome : guardrails' = Judge("routing", outcome)
        BY <2>1 DEF AssignRoute
      <3>2. EverFailed("evidence")
        BY <1>2, <3>1, QuarantineSeen DEF IInv
      <3> QED
        BY <2>1, <3>2 DEF AssignRoute, human_route, red_rules
    <2>2. CASE Degraded \/ TotAbstains
      <3>1. final'.kind = "insufficient"
        BY <2>2, AbstentionKind
      <3> QED
        BY <3>1 DEF QuarantinedForecastIsRed, Forecast
    <2>3. CASE ~AssignRoute /\ ~Degraded /\ ~TotAbstains
      BY <1>2, <2>3, ResultFrame DEF QuarantinedForecastIsRed, Forecast, Quarantined
    <2> QED
      BY <2>1, <2>2, <2>3
  <1> QED
    BY <1>1, <1>2, Inductive, PTL DEF Spec

\* No citation the evidence screen withheld is in a result, whichever of the
\* three releasing nodes wrote it (merge, degraded, assign_route).
THEOREM CitationSafety == Spec => []NoWithheldCitationReleased
  <1>1. Init => NoWithheldCitationReleased
    BY DEF Init, NoWithheldCitationReleased
  <1>2. ASSUME IInv, NoWithheldCitationReleased, [Next]_vars
        PROVE  NoWithheldCitationReleased'
    <2>1. CASE AssignRoute \/ TotAbstains
      <3>1. "foreign" \notin bundle.cites
        BY <1>2, <2>1 DEF AssignRoute, TotAbstains, Goto, IInv, Phases, Scheduled,
                          DecisionReady, Judging
      <3>2. final'.cites = bundle.cites
        BY <2>1, ReleasedCites
      <3> QED
        BY <3>1, <3>2 DEF NoWithheldCitationReleased
    <2>2. CASE Degraded
      <3>1. "foreign" \notin Cites(retrieval)
        BY <1>2, <2>2 DEF Degraded, Goto, IInv, Phases, EvidenceReady
      <3> QED
        BY <2>2, <3>1 DEF Degraded, FinalResult, NoWithheldCitationReleased
    <2>3. CASE ~AssignRoute /\ ~Degraded /\ ~TotAbstains
      BY <1>2, <2>3, ResultFrame DEF NoWithheldCitationReleased
    <2> QED
      BY <2>1, <2>2, <2>3
  <1> QED
    BY <1>1, <1>2, Inductive, PTL DEF Spec

\* A forecast stands on two answered lanes and a screened account citation
\* (coverage_verdict, route_coverage).
THEOREM EvidenceSafety == Spec => []ForecastRestsOnEvidence
  <1>1. Init => ForecastRestsOnEvidence
    BY DEF Init, ForecastRestsOnEvidence, Forecast
  <1>2. ASSUME IInv, ForecastRestsOnEvidence, [Next]_vars
        PROVE  ForecastRestsOnEvidence'
    <2>1. CASE AssignRoute
      <3>1. quantitative.available /\ retrieval.available /\ bundle.cites # {}
        BY <1>2, <2>1 DEF AssignRoute, Goto, IInv, Phases, Scheduled,
                          DecisionReady, Judging
      <3> QED
        BY <2>1, <3>1 DEF AssignRoute, evidence, ForecastRestsOnEvidence
    <2>2. CASE Degraded \/ TotAbstains
      <3>1. final'.kind = "insufficient"
        BY <2>2, AbstentionKind
      <3> QED
        BY <3>1 DEF ForecastRestsOnEvidence, Forecast
    <2>3. CASE ~AssignRoute /\ ~Degraded /\ ~TotAbstains
      BY <1>2, <2>3, ResultFrame DEF ForecastRestsOnEvidence, Forecast
    <2> QED
      BY <2>1, <2>2, <2>3
  <1> QED
    BY <1>1, <1>2, Inductive, PTL DEF Spec

----------------------------------------------------------------------------
\* The provider-attempt ceiling.

\* Each generation bills at most two attempts and each path holds at most
\* three; SpendByPhase says how many lie behind every scheduled node.
LEMMA SpendStep ==
    ASSUME IInv, SpendByPhase, [Next]_vars
    PROVE  SpendByPhase'
  <1> USE DEF evidence, decision, released, budget, memory
  <1>0. TypeOK /\ Shape /\ modelCalls \in Nat
    BY DEF IInv, Phases, TypeOK
  <1>1. CASE Intake
    <2>1. pending = {"validate_request"} /\ \E n \in Opening : pending' = {n}
      BY <1>0, <1>1, GotoAlone DEF Intake, route_intake, Nodes, Lanes, Opening
    <2>2. UNCHANGED modelCalls /\ UNCHANGED verification
      BY <1>1 DEF Intake, route_intake
    <2> QED
      BY <1>0, <2>1, <2>2 DEF SpendByPhase, Scheduled, Opening, Gathering, Lanes
  <1>2. CASE Blocked
    <2>1. pending = {"safe_refusal"} /\ pending' = {}
      BY <1>0, <1>2, GotoAlone DEF Blocked, Nodes, Lanes
    <2>2. UNCHANGED modelCalls /\ UNCHANGED verification
      BY <1>2 DEF Blocked
    <2> QED
      BY <1>0, <2>1, <2>2 DEF SpendByPhase, Scheduled, Opening, Gathering, Lanes
  <1>3. CASE LoadContext
    <2>1. pending = {"load_context"} /\ pending' = {"plan_sub_goals"}
      BY <1>0, <1>3, GotoAlone DEF LoadContext, Nodes, Lanes
    <2>2. UNCHANGED modelCalls /\ UNCHANGED verification
      BY <1>3 DEF LoadContext
    <2> QED
      BY <1>0, <2>1, <2>2 DEF SpendByPhase, Scheduled, Opening, Gathering, Lanes
  <1>4. CASE Plan
    <2>1. pending = {"plan_sub_goals"} /\ pending' = Lanes
      BY <1>0, <1>4, GotoAlone DEF Plan, Nodes, Lanes
    <2>2. modelCalls' \in Nat /\ modelCalls' <= modelCalls + 2
      BY <1>0, <1>4, GenerateBounds DEF Plan
    <2> QED
      BY <1>0, <2>1, <2>2 DEF SpendByPhase, Scheduled, Opening, Gathering, Lanes
  <1>5. CASE Quantitative
    <2>1. /\ \E n \in Lanes : n \in pending
          /\ pending' \subseteq Gathering \ {"targeted_retry"}
          /\ UNCHANGED modelCalls
      BY <1>0, <1>5, GotoLane DEF Quantitative, Lanes, Gathering
    <2> QED
      BY <1>0, <2>1 DEF SpendByPhase, Scheduled, Opening, Gathering, Lanes
  <1>6. CASE Retrieval
    <2>1. /\ \E n \in Lanes : n \in pending
          /\ pending' \subseteq Gathering \ {"targeted_retry"}
          /\ UNCHANGED modelCalls
      BY <1>0, <1>6, GotoLane DEF Retrieval, Lanes, Gathering
    <2> QED
      BY <1>0, <2>1 DEF SpendByPhase, Scheduled, Opening, Gathering, Lanes
  <1>7. CASE Merge
    <2>1. pending = {"merge_evidence"} /\ \E n \in {"targeted_retry", "degraded_result", "conflict_gate"} : pending' = {n}
      BY <1>0, <1>7, GotoAlone DEF Merge, Nodes, Lanes, route_coverage, coverage_verdict
    <2>2. UNCHANGED modelCalls /\ UNCHANGED verification
      BY <1>7 DEF Merge
    <2> QED
      BY <1>0, <2>1, <2>2 DEF SpendByPhase, Scheduled, Opening, Gathering, Lanes
  <1>8. CASE TargetedRetry
    <2>1. pending = {"targeted_retry"} /\ pending' = {"merge_evidence"}
      BY <1>0, <1>8, GotoAlone DEF TargetedRetry, Nodes, Lanes
    <2>2. UNCHANGED modelCalls /\ UNCHANGED verification
      BY <1>8 DEF TargetedRetry
    <2> QED
      BY <1>0, <2>1, <2>2 DEF SpendByPhase, Scheduled, Opening, Gathering, Lanes
  <1>9. CASE ConflictGate
    <2>1. pending = {"conflict_gate"} /\ \E n \in {"tot_adjudication", "fast_adjudication"} : pending' = {n}
      BY <1>0, <1>9, GotoAlone DEF ConflictGate, Nodes, Lanes, route_conflict
    <2>2. UNCHANGED modelCalls /\ UNCHANGED verification
      BY <1>9 DEF ConflictGate
    <2> QED
      BY <1>0, <2>1, <2>2 DEF SpendByPhase, Scheduled, Opening, Gathering, Lanes
  <1>10. CASE TotSelects
    <2>1. pending = {"tot_adjudication"} /\ pending' = {"verify_output"}
      BY <1>0, <1>10, GotoAlone DEF TotSelects, Nodes, Lanes
    <2>2. modelCalls' \in Nat /\ modelCalls' <= modelCalls + 2
      BY <1>0, <1>10, GenerateBounds DEF TotSelects
    <2>3. UNCHANGED verification
      BY <1>10 DEF TotSelects
    <2> QED
      BY <1>0, <2>1, <2>2, <2>3 DEF SpendByPhase, Scheduled, Opening, Gathering, Lanes
  <1>11. CASE TotAbstains
    <2>1. pending = {"tot_adjudication"} /\ pending' = {"persist"}
      BY <1>0, <1>11, GotoAlone DEF TotAbstains, Nodes, Lanes
    <2>2. modelCalls' \in Nat /\ modelCalls' <= modelCalls + 2
      BY <1>0, <1>11, GenerateBounds DEF TotAbstains
    <2>3. UNCHANGED verification
      BY <1>11 DEF TotAbstains
    <2> QED
      BY <1>0, <2>1, <2>2, <2>3 DEF SpendByPhase, Scheduled, Opening, Gathering, Lanes
  <1>12. CASE FastAdjudication
    <2>1. pending = {"fast_adjudication"} /\ pending' = {"verify_output"}
      BY <1>0, <1>12, GotoAlone DEF FastAdjudication, Nodes, Lanes
    <2>2. modelCalls' \in Nat /\ modelCalls' <= modelCalls + 2
      BY <1>0, <1>12, GenerateBounds DEF FastAdjudication
    <2>3. UNCHANGED verification
      BY <1>12 DEF FastAdjudication
    <2> QED
      BY <1>0, <2>1, <2>2, <2>3 DEF SpendByPhase, Scheduled, Opening, Gathering, Lanes
  <1>13. CASE VerifyOutput
    <2>1. pending = {"verify_output"} /\ \E n \in {"assign_route", "safe_fallback", "fast_adjudication"} : pending' = {n}
      BY <1>0, <1>13, GotoAlone DEF VerifyOutput, Nodes, Lanes, route_verification
    <2>2. UNCHANGED modelCalls
      BY <1>13 DEF VerifyOutput
    <2>3. ASSUME pending' = {"fast_adjudication"}
          PROVE  verification = None /\ verification' # None
      <3>1. TypeOK'
        BY InductiveStep DEF IInv
      <3>2. PICK passed \in BOOLEAN :
              LET v == [passed |-> passed,
                        attempts |-> IF verification = None THEN 1
                                     ELSE verification.attempts + 1]
              IN verification' = v /\ pending' = {route_verification(v, draft)}
        BY <1>0, <1>13, GotoAlone DEF VerifyOutput, Nodes, Lanes
      <3>3. verification'.attempts <= MAX_OUTPUT_REGENERATIONS
        BY <2>3, <3>2 DEF route_verification
      <3>4. verification = None
        <4>1. SUFFICES ASSUME verification \in VerificationType PROVE FALSE
          BY DEF IInv, TypeOK
        <4> QED
          BY <3>2, <3>3, <4>1, NoneAssumption
             DEF VerificationType, MAX_OUTPUT_REGENERATIONS
      <3>5. verification' \in VerificationType
        BY <3>2, <3>4 DEF VerificationType, MAX_OUTPUT_REGENERATIONS
      <3> QED
        BY <3>4, <3>5, NoneAssumption
    <2> QED
      BY <1>0, <2>1, <2>2, <2>3 DEF SpendByPhase, Scheduled, Opening, Gathering, Lanes
  <1>14. CASE SafeFallback
    <2>1. pending = {"safe_fallback"} /\ pending' = {"assign_route"}
      BY <1>0, <1>14, GotoAlone DEF SafeFallback, Nodes, Lanes
    <2>2. UNCHANGED modelCalls /\ UNCHANGED verification
      BY <1>14 DEF SafeFallback
    <2> QED
      BY <1>0, <2>1, <2>2 DEF SpendByPhase, Scheduled, Opening, Gathering, Lanes
  <1>15. CASE Degraded
    <2>1. pending = {"degraded_result"} /\ pending' = {"persist"}
      BY <1>0, <1>15, GotoAlone DEF Degraded, Nodes, Lanes
    <2>2. UNCHANGED modelCalls /\ UNCHANGED verification
      BY <1>15 DEF Degraded
    <2> QED
      BY <1>0, <2>1, <2>2 DEF SpendByPhase, Scheduled, Opening, Gathering, Lanes
  <1>16. CASE AssignRoute
    <2>1. pending = {"assign_route"} /\ pending' = {"persist"}
      BY <1>0, <1>16, GotoAlone DEF AssignRoute, Nodes, Lanes
    <2>2. UNCHANGED modelCalls /\ UNCHANGED verification
      BY <1>16 DEF AssignRoute
    <2> QED
      BY <1>0, <2>1, <2>2 DEF SpendByPhase, Scheduled, Opening, Gathering, Lanes
  <1>17. CASE Persist
    <2>1. pending = {"persist"} /\ pending' \subseteq Closing
      BY <1>0, <1>17, GotoAlone DEF Persist, Nodes, Lanes, route_human_review, Closing
    <2>2. UNCHANGED modelCalls /\ UNCHANGED verification
      BY <1>17 DEF Persist
    <2> QED
      BY <1>0, <2>1, <2>2 DEF SpendByPhase, Scheduled, Opening, Gathering, Lanes, Closing
  <1>18. CASE LoadContextRaises \/ TargetedRetryRaises \/ PersistRaises
    <2>1. pending' = {} /\ UNCHANGED modelCalls
      BY <1>18 DEF LoadContextRaises, TargetedRetryRaises, PersistRaises, Raise
    <2> QED
      BY <1>0, <2>1 DEF SpendByPhase, Scheduled
  <1>19. CASE Reviews
    <2>1. pending' = {} /\ UNCHANGED modelCalls
      BY <1>19 DEF Reviews, AwaitReview
    <2> QED
      BY <1>0, <2>1 DEF SpendByPhase, Scheduled
  <1>20. CASE ClockExpires \/ UNCHANGED vars
    <2>1. UNCHANGED <<pending, modelCalls, verification>>
      BY <1>20 DEF ClockExpires, vars
    <2> QED
      BY <1>0, <2>1 DEF SpendByPhase, Scheduled
  <1> QED
    BY <1>1, <1>2, <1>3, <1>4, <1>5, <1>6, <1>7, <1>8, <1>9,
       <1>10, <1>11, <1>12, <1>13, <1>14, <1>15, <1>16, <1>17, <1>18, <1>19, <1>20
       DEF Next, NodeStep

\* No path reaches the provider-attempt ceiling, whatever the bills of the
\* generations and the token budget (guardrails/runtime.py).
THEOREM SpendSafety == Spec => []SpendUnderCeiling
  <1>1. Init => SpendByPhase
    BY InitInv DEF AllInv
  <1>2. IInv /\ SpendByPhase /\ [Next]_vars => SpendByPhase'
    BY SpendStep
  <1>3. IInv /\ SpendByPhase => SpendUnderCeiling
    BY DEF IInv, TypeOK, SpendByPhase, SpendUnderCeiling, MAX_MODEL_CALLS
  <1> QED
    BY <1>1, <1>2, <1>3, Inductive, PTL DEF Spec

----------------------------------------------------------------------------
\* What routing may rely on.

\* Only an accepted question leaves intake.
Accepted ==
    Scheduled(Nodes \ {"validate_request", "safe_refusal"}) =>
        intake \in {"pass", "review"}

\* The bundle's gap is the gap of the lane result beside it.
GapIsCurrent ==
    Scheduled(Judging) => bundle.gap \/ Uncovered(retrieval) = {}

\* A draft is capped for the evidence and the conflict it was argued from.
DraftIsCapped ==
    Scheduled({"verify_output", "safe_fallback", "assign_route"}) =>
        (conflict.severity = "severe" \/ bundle.gap => draft.level <= 1)

\* An exhausted token budget is the latest thing said of the execution.
SpendIsJudged ==
    Scheduled(Gathering \cup Judging) /\ tokens >= MaxTokens =>
        LatestFailed("execution")

\* What reaches routing unverified has been rewritten.
NarrativeIsSafe ==
    "assign_route" \in pending =>
        verification.passed \/ draft.narrative = "deterministic"

Earning == /\ Accepted
           /\ GapIsCurrent
           /\ DraftIsCapped
           /\ SpendIsJudged
           /\ NarrativeIsSafe

\* A green route is chosen once, and nothing it was chosen on changes later.
GreenStands ==
    route = "green" => /\ pending \subseteq Closing
                       /\ GreenIsEarned

----------------------------------------------------------------------------
\* The verdict list.

\* A verdict on another stage does not hide the latest one on the execution.
LEMMA OtherVerdict ==
    ASSUME TypeOK, NEW stage \in Stages \ {"execution"}, NEW outcome,
           guardrails' = Judge(stage, outcome), LatestFailed("execution")
    PROVE  LatestFailed("execution")'
  <1>1. guardrails \in Seq([stage: Stages, outcome: Outcomes])
    BY DEF TypeOK
  <1>2. guardrails' = Append(guardrails, Verdict(stage, outcome))
    BY DEF Judge
  <1>3. PICK i \in DOMAIN guardrails :
            /\ guardrails[i].stage = "execution"
            /\ guardrails[i].outcome # "pass"
            /\ \A j \in DOMAIN guardrails :
                  guardrails[j].stage = "execution" => j <= i
    BY DEF LatestFailed
  <1>4. /\ DOMAIN guardrails' = DOMAIN guardrails \cup {Len(guardrails) + 1}
        /\ \A j \in DOMAIN guardrails : guardrails'[j] = guardrails[j]
        /\ guardrails'[Len(guardrails) + 1] = Verdict(stage, outcome)
    BY <1>1, <1>2
  <1>5. Verdict(stage, outcome).stage # "execution"
    BY DEF Verdict
  <1> QED
    BY <1>3, <1>4, <1>5 DEF LatestFailed

\* A failing verdict on the execution is the latest one.
LEMMA FreshVerdict ==
    ASSUME TypeOK, NEW outcome, outcome # "pass",
           guardrails' = Judge("execution", outcome)
    PROVE  LatestFailed("execution")'
  <1>1. guardrails \in Seq([stage: Stages, outcome: Outcomes])
    BY DEF TypeOK
  <1>2. guardrails' = Append(guardrails, Verdict("execution", outcome))
    BY DEF Judge
  <1>3. /\ DOMAIN guardrails' = 1..(Len(guardrails) + 1)
        /\ guardrails'[Len(guardrails) + 1] = Verdict("execution", outcome)
        /\ Len(guardrails) \in Nat
    BY <1>1, <1>2
  <1>4. /\ Verdict("execution", outcome).stage = "execution"
        /\ Verdict("execution", outcome).outcome = outcome
    BY DEF Verdict
  <1> QED
    BY <1>3, <1>4 DEF LatestFailed

\* After a node that judged its own spend, an exhausted budget is the latest
\* verdict (_budget_after).
LEMMA SpendJudged ==
    ASSUME TypeOK, guardrails' = Judge("execution", BudgetVerdict),
           tokens' >= MaxTokens
    PROVE  LatestFailed("execution")'
  <1>1. BudgetVerdict = "review"
    BY DEF BudgetVerdict, Exceeded
  <1> QED
    BY <1>1, FreshVerdict

\* A generation leaves the rest of the state alone: it only needs naming.
LEMMA Capped ==
    ASSUME NEW raw \in Levels, NEW b, NEW c,
           c.severity = "severe" \/ b.gap
    PROVE  compute_confidence(raw, b, c) <= 1
  BY DEF compute_confidence, Min2, Levels

----------------------------------------------------------------------------
\* Earning is preserved, node by node.

LEMMA EarningStep ==
    ASSUME IInv, Earning, [Next]_vars
    PROVE  Earning'
  <1> USE DEF evidence, decision, released, budget, memory
  <1>0. TypeOK /\ Shape
    BY DEF IInv, Phases
  <1>1. ASSUME Intake PROVE Earning'
    <2>1. PICK outcome \in Outcomes :
            /\ intake' = outcome
            /\ Goto("validate_request", {route_intake(outcome)})
      BY <1>1 DEF Intake
    <2>2. pending' = {route_intake(outcome)}
      BY <1>0, <2>1, GotoAlone DEF Nodes, Lanes
    <2>3. /\ pending' = {"safe_refusal"} \/ pending' = {"load_context"}
          /\ "load_context" \in pending' => intake' \in {"pass", "review"}
      BY <2>1, <2>2 DEF route_intake, Outcomes
    <2> QED
      BY <2>3 DEF Earning, Accepted, GapIsCurrent, DraftIsCapped, SpendIsJudged,
                  NarrativeIsSafe, Scheduled, Gathering, Judging, Lanes, Nodes
  <1>2. ASSUME Blocked \/ Persist \/ PersistRaises \/ Reviews \/ LoadContextRaises
               \/ TargetedRetryRaises
        PROVE  Earning'
    <2>1. UNCHANGED intake
      BY <1>2 DEF Blocked, Persist, PersistRaises, Reviews, AwaitReview,
                  LoadContextRaises, TargetedRetryRaises, Raise
    <2>2. pending' = {} \/ (Persist /\ pending' = {"await_review"})
      <3>1. CASE Blocked
        BY <1>0, <3>1, GotoAlone DEF Blocked, Nodes, Lanes
      <3>2. CASE Persist
        BY <1>0, <3>2, GotoAlone DEF Persist, Nodes, Lanes
      <3> QED
        BY <1>2, <3>1, <3>2 DEF PersistRaises, Reviews, AwaitReview,
                     LoadContextRaises, TargetedRetryRaises, Raise
    <2>3. Persist => intake \in {"pass", "review"}
      BY DEF Persist, Goto, Earning, Accepted, Scheduled, Nodes
    <2> QED
      BY <2>1, <2>2, <2>3
         DEF Earning, Accepted, GapIsCurrent, DraftIsCapped, SpendIsJudged,
             NarrativeIsSafe, Scheduled, Gathering, Judging, Lanes
  <1>3. ASSUME LoadContext PROVE Earning'
    <2>1. pending = {"load_context"} /\ pending' = {"plan_sub_goals"}
      BY <1>0, <1>3, GotoAlone DEF LoadContext, Nodes, Lanes
    <2>2. UNCHANGED intake
      BY <1>3 DEF LoadContext
    <2> QED
      BY <2>1, <2>2
         DEF Earning, Accepted, GapIsCurrent, DraftIsCapped, SpendIsJudged,
             NarrativeIsSafe, Scheduled, Gathering, Judging, Lanes, Nodes
  <1>4. ASSUME Plan PROVE Earning'
    <2>1. pending = {"plan_sub_goals"} /\ pending' = Lanes
      BY <1>0, <1>4, GotoAlone DEF Plan, Nodes, Lanes
    <2>2. UNCHANGED intake
      BY <1>4 DEF Plan
    <2>3. SpendIsJudged'
      BY <1>0, <1>4, SpendJudged DEF Plan, SpendIsJudged
    <2>4. Accepted'
      BY <2>1, <2>2 DEF Earning, Accepted, Scheduled, Nodes
    <2> QED
      BY <2>1, <2>3, <2>4
         DEF Earning, GapIsCurrent, DraftIsCapped, NarrativeIsSafe, Scheduled,
             Judging, Lanes
  <1>5. ASSUME Quantitative \/ Retrieval PROVE Earning'
    <2>1. PICK n \in Lanes : n \in pending /\ Goto(n, Join(n))
      BY <1>5 DEF Quantitative, Retrieval, Goto, Lanes
    <2>2. pending' = {"merge_evidence"} \/ pending' = Lanes \ {n}
      BY <1>0, <2>1, GotoLane
    <2>3. UNCHANGED <<intake, guardrails, tokens>>
      BY <1>5 DEF Quantitative, Retrieval
    <2>4. Accepted'
      BY <2>1, <2>3 DEF Earning, Accepted, Scheduled, Nodes, Lanes
    <2>5. SpendIsJudged'
      BY <2>1, <2>3 DEF Earning, SpendIsJudged, Scheduled, Gathering, LatestFailed
    <2> QED
      BY <2>2, <2>4, <2>5
         DEF Earning, GapIsCurrent, DraftIsCapped, NarrativeIsSafe, Scheduled,
             Judging, Lanes
  <1>6. ASSUME Merge PROVE Earning'
    <2>1. /\ pending = {"merge_evidence"}
          /\ \E next \in {"targeted_retry", "degraded_result", "conflict_gate"} :
                pending' = {next}
      BY <1>0, <1>6, GotoAlone, CoverageRoutes DEF Merge, Nodes, Lanes
    <2>2. UNCHANGED <<intake, tokens>>
      BY <1>6 DEF Merge
    <2>3. Accepted'
      BY <2>1, <2>2 DEF Earning, Accepted, Scheduled, Nodes
    <2>4. GapIsCurrent'
      <3> DEFINE r == ScreenedRetrieval(quantitative, retrieval)
      <3>1. bundle'.gap = (Uncovered(r) # {}) /\ retrieval' = r
        BY <1>6 DEF Merge
      <3> HIDE DEF r
      <3> QED
        BY <3>1 DEF GapIsCurrent, Uncovered
    <2>5. SpendIsJudged'
      <3>1. PICK outcome : guardrails' = Judge("evidence", outcome)
        BY <1>6 DEF Merge
      <3>2. LatestFailed("execution") => LatestFailed("execution")'
        BY <1>0, <3>1, OtherVerdict DEF Stages
      <3> QED
        BY <2>1, <2>2, <3>2 DEF Earning, SpendIsJudged, Scheduled, Gathering
    <2> QED
      BY <2>1, <2>3, <2>4, <2>5 DEF Earning, DraftIsCapped, NarrativeIsSafe, Scheduled
  <1>7. ASSUME TargetedRetry PROVE Earning'
    <2>1. pending = {"targeted_retry"} /\ pending' = {"merge_evidence"}
      BY <1>0, <1>7, GotoAlone DEF TargetedRetry, Nodes, Lanes
    <2>2. UNCHANGED <<intake, tokens, guardrails>>
      BY <1>7 DEF TargetedRetry
    <2>3. SpendIsJudged'
      BY <2>1, <2>2 DEF Earning, SpendIsJudged, Scheduled, Gathering, LatestFailed
    <2> QED
      BY <2>1, <2>2, <2>3
         DEF Earning, Accepted, GapIsCurrent, DraftIsCapped, NarrativeIsSafe,
             Scheduled, Judging, Nodes
  <1>8. ASSUME ConflictGate PROVE Earning'
    <2>1. /\ pending = {"conflict_gate"}
          /\ \E next \in {"tot_adjudication", "fast_adjudication"} :
                pending' = {next}
      BY <1>0, <1>8, GotoAlone DEF ConflictGate, route_conflict, Nodes, Lanes
    <2>2. UNCHANGED <<intake, tokens, guardrails, bundle, retrieval>>
      BY <1>8 DEF ConflictGate
    <2>3. SpendIsJudged'
      BY <2>1, <2>2 DEF Earning, SpendIsJudged, Scheduled, Judging, LatestFailed
    <2>4. GapIsCurrent'
      BY <2>1, <2>2 DEF Earning, GapIsCurrent, Scheduled, Judging, Uncovered
    <2> QED
      BY <2>1, <2>2, <2>3, <2>4
         DEF Earning, Accepted, DraftIsCapped, NarrativeIsSafe, Scheduled, Nodes
  <1>9. ASSUME TotSelects \/ FastAdjudication PROVE Earning'
    <2>1. /\ \E n \in {"tot_adjudication", "fast_adjudication"} : pending = {n}
          /\ pending' = {"verify_output"}
      BY <1>0, <1>9, GotoAlone DEF TotSelects, FastAdjudication, Nodes, Lanes
    <2>2. UNCHANGED <<intake, bundle, retrieval>>
      BY <1>9 DEF TotSelects, FastAdjudication
    <2>3. SpendIsJudged'
      BY <1>0, <1>9, SpendJudged DEF TotSelects, FastAdjudication, SpendIsJudged
    <2>4. GapIsCurrent'
      BY <2>1, <2>2 DEF Earning, GapIsCurrent, Scheduled, Judging, Uncovered
    <2>5. conflict'.severity = conflict.severity
      <3>1. conflict \in ConflictType
        BY <2>1 DEF IInv, Phases, DecisionReady, Scheduled, Judging
      <3> QED
        BY <1>9, <3>1 DEF TotSelects, FastAdjudication, ConflictType
    <2>6. \E raw \in Levels : draft'.level = compute_confidence(raw, bundle, conflict)
      BY <1>9 DEF TotSelects, FastAdjudication
    <2>7. DraftIsCapped'
      BY <2>2, <2>5, <2>6, Capped DEF DraftIsCapped
    <2> QED
      BY <2>1, <2>2, <2>3, <2>4, <2>7
         DEF Earning, Accepted, NarrativeIsSafe, Scheduled, Nodes
  <1>10. ASSUME TotAbstains \/ Degraded \/ AssignRoute PROVE Earning'
    <2>1. /\ \E n \in {"tot_adjudication", "degraded_result", "assign_route"} :
                pending = {n}
          /\ pending' = {"persist"}
      BY <1>0, <1>10, GotoAlone DEF TotAbstains, Degraded, AssignRoute, Nodes, Lanes
    <2>2. UNCHANGED intake
      BY <1>10 DEF TotAbstains, Degraded, AssignRoute
    <2> QED
      BY <2>1, <2>2
         DEF Earning, Accepted, GapIsCurrent, DraftIsCapped, SpendIsJudged,
             NarrativeIsSafe, Scheduled, Gathering, Judging, Lanes, Nodes
  <1>11. ASSUME VerifyOutput PROVE Earning'
    <2>1. PICK passed \in BOOLEAN :
            LET v == [passed |-> passed,
                      attempts |-> IF verification = None THEN 1
                                   ELSE verification.attempts + 1]
            IN /\ Goto("verify_output", {route_verification(v, draft)})
               /\ verification' = v
               /\ guardrails' = Judge("output", IF passed THEN "pass" ELSE "review")
      BY <1>11 DEF VerifyOutput
    <2>2. pending = {"verify_output"} /\ pending' = {route_verification(verification', draft)}
      BY <1>0, <2>1, GotoAlone DEF Nodes, Lanes
    <2>3. /\ route_verification(verification', draft) \in
                {"assign_route", "safe_fallback", "fast_adjudication"}
          /\ route_verification(verification', draft) = "assign_route" =>
                verification'.passed
      BY DEF route_verification
    <2>4. UNCHANGED <<intake, tokens, bundle, retrieval, conflict, draft>>
      BY <1>11 DEF VerifyOutput
    <2>5. SpendIsJudged'
      <3>1. LatestFailed("execution") => LatestFailed("execution")'
        BY <1>0, <2>1, OtherVerdict DEF Stages
      <3> QED
        BY <2>2, <2>3, <2>4, <3>1 DEF Earning, SpendIsJudged, Scheduled, Judging
    <2>6. GapIsCurrent'
      BY <2>2, <2>4 DEF Earning, GapIsCurrent, Scheduled, Judging, Uncovered
    <2>7. DraftIsCapped'
      BY <2>2, <2>4 DEF Earning, DraftIsCapped, Scheduled
    <2>8. Accepted'
      BY <2>2, <2>4 DEF Earning, Accepted, Scheduled, Nodes
    <2>9. NarrativeIsSafe'
      BY <2>2, <2>3 DEF NarrativeIsSafe
    <2> QED
      BY <2>5, <2>6, <2>7, <2>8, <2>9 DEF Earning
  <1>12. ASSUME SafeFallback PROVE Earning'
    <2>1. pending = {"safe_fallback"} /\ pending' = {"assign_route"}
      BY <1>0, <1>12, GotoAlone DEF SafeFallback, Nodes, Lanes
    <2>2. UNCHANGED <<intake, tokens, guardrails, bundle, retrieval, conflict>>
      BY <1>12 DEF SafeFallback
    <2>3. draft'.narrative = "deterministic" /\ draft'.level = draft.level
      <3>1. draft \in DraftType
        BY <2>1 DEF IInv, Phases, DecisionReady, Scheduled
      <3> QED
        BY <1>12, <3>1 DEF SafeFallback, DraftType
    <2>4. SpendIsJudged'
      BY <2>1, <2>2 DEF Earning, SpendIsJudged, Scheduled, Judging, LatestFailed
    <2>5. GapIsCurrent'
      BY <2>1, <2>2 DEF Earning, GapIsCurrent, Scheduled, Judging, Uncovered
    <2>6. DraftIsCapped'
      BY <2>1, <2>2, <2>3 DEF Earning, DraftIsCapped, Scheduled
    <2> QED
      BY <2>1, <2>2, <2>3, <2>4, <2>5, <2>6
         DEF Earning, Accepted, NarrativeIsSafe, Scheduled, Nodes
  <1>13. ASSUME ClockExpires \/ UNCHANGED vars PROVE Earning'
    <2>1. UNCHANGED <<pending, intake, tokens, guardrails, bundle, retrieval,
                      conflict, draft, verification>>
      BY <1>13 DEF ClockExpires, vars
    <2> QED
      BY <2>1 DEF Earning, Accepted, GapIsCurrent, DraftIsCapped, SpendIsJudged,
                  NarrativeIsSafe, Scheduled, Uncovered, LatestFailed
  <1> QED
    BY <1>1, <1>2, <1>3, <1>4, <1>5, <1>6, <1>7, <1>8, <1>9, <1>10, <1>11,
       <1>12, <1>13 DEF Next, NodeStep

\* What assign_route finds is kept for every reachable state.
LEMMA EarningHolds == Spec => []Earning
  <1>1. Init => Earning
    BY DEF Init, Earning, Accepted, GapIsCurrent, DraftIsCapped, SpendIsJudged,
           NarrativeIsSafe, Scheduled, Gathering, Judging, Lanes, Nodes
  <1>2. IInv /\ Earning /\ [Next]_vars => Earning'
    BY EarningStep
  <1> QED
    BY <1>1, <1>2, Inductive, PTL DEF Spec

----------------------------------------------------------------------------
\* The released answer.

\* The keys a band was chosen on, as assign_route finds them.
LEMMA GreenAtRouting ==
    ASSUME IInv, Earning, AssignRoute, route' = "green"
    PROVE  GreenIsEarned'
  <1>1. pending = {"assign_route"}
    BY GotoAlone DEF AssignRoute, IInv, Phases, Nodes, Lanes
  <1>2. /\ draft \in DraftType /\ verification \in VerificationType
        /\ conflict \in ConflictType /\ bundle \in BundleType
    BY <1>1 DEF IInv, Phases, DecisionReady, Scheduled, Judging
  <1>3. /\ ~red_rules(apply_verification_cap(draft.level, verification), draft)
        /\ ~amber_rules(apply_verification_cap(draft.level, verification))
    BY DEF AssignRoute, human_route
  <1>4. verification.passed /\ intake # "review"
    BY <1>3 DEF red_rules
  <1>5. /\ ~(apply_verification_cap(draft.level, verification) < 2)
        /\ ~bundle.gap /\ ~(verification.attempts > 1) /\ ~LatestFailed("execution")
    BY <1>3 DEF amber_rules
  <1>6. verification.attempts = 1
    BY <1>2, <1>5 DEF VerificationType, MAX_OUTPUT_REGENERATIONS
  <1>7. draft.level = 2
    BY <1>2, <1>5, <1>6 DEF apply_verification_cap, DraftType, Levels
  <1>8. conflict.severity # "severe"
    BY <1>1, <1>7 DEF Earning, DraftIsCapped, Scheduled
  <1>9. Uncovered(retrieval) = {}
    BY <1>1, <1>5 DEF Earning, GapIsCurrent, Scheduled, Judging
  <1>10. intake = "pass"
    BY <1>1, <1>4 DEF Earning, Accepted, Scheduled, Nodes
  <1>11. tokens < MaxTokens
    <2>1. tokens \in Nat /\ MaxTokens \in Nat
      BY MaxTokensAssumption DEF IInv, TypeOK
    <2> QED
      BY <1>1, <1>5, <2>1 DEF Earning, SpendIsJudged, Scheduled, Judging
  <1>12. UNCHANGED <<verification, retrieval, conflict, intake, tokens>>
    BY DEF AssignRoute, evidence, decision, budget
  <1> QED
    BY <1>4, <1>6, <1>8, <1>9, <1>10, <1>11, <1>12 DEF GreenIsEarned, Uncovered

LEMMA GreenStep ==
    ASSUME IInv, Earning, GreenStands, [Next]_vars
    PROVE  GreenStands'
  <1> USE DEF evidence, decision, released, budget, memory
  <1> SUFFICES ASSUME route' = "green"
               PROVE  pending' \subseteq Closing /\ GreenIsEarned'
    BY DEF GreenStands
  <1>1. CASE AssignRoute
    <2>1. pending' = {"persist"}
      BY <1>1, GotoAlone DEF AssignRoute, IInv, Phases, Nodes, Lanes
    <2> QED
      BY <1>1, <2>1, GreenAtRouting DEF Closing
  <1>2. CASE Blocked \/ Degraded \/ TotAbstains
    BY <1>2 DEF Blocked, Degraded, TotAbstains, abstention_route
  <1>3. CASE Intake \/ LoadContext \/ LoadContextRaises \/ Plan \/ Quantitative
             \/ Retrieval \/ Merge \/ TargetedRetry \/ TargetedRetryRaises
             \/ ConflictGate \/ TotSelects \/ FastAdjudication \/ VerifyOutput
             \/ SafeFallback
    <2>1. UNCHANGED route
      BY <1>3 DEF Intake, LoadContext, LoadContextRaises, Plan, Quantitative,
                  Retrieval, Merge, TargetedRetry, TargetedRetryRaises, Raise,
                  ConflictGate, TotSelects, FastAdjudication, VerifyOutput,
                  SafeFallback
    <2>2. \E n \in Nodes \ Closing : n \in pending
      BY <1>3 DEF Intake, LoadContext, LoadContextRaises, Plan, Quantitative,
                  Retrieval, Merge, TargetedRetry, TargetedRetryRaises, Raise,
                  ConflictGate, TotSelects, FastAdjudication, VerifyOutput,
                  SafeFallback, Goto, Nodes, Lanes, Closing
    <2> QED
      BY <2>1, <2>2 DEF GreenStands
  <1>4. CASE Persist \/ PersistRaises \/ Reviews \/ ClockExpires \/ UNCHANGED vars
    <2>1. UNCHANGED <<route, verification, retrieval, conflict, intake, tokens>>
      BY <1>4 DEF Persist, PersistRaises, Raise, Reviews, AwaitReview,
                  ClockExpires, vars
    <2>2. pending' \subseteq Closing
      BY <1>4, <2>1 DEF Persist, PersistRaises, Raise, Reviews, AwaitReview,
                        ClockExpires, vars, Goto, GreenStands, Closing
    <2> QED
      BY <2>1, <2>2 DEF GreenStands, GreenIsEarned, Uncovered
  <1> QED
    BY <1>1, <1>2, <1>3, <1>4 DEF Next, NodeStep

\* Once there is a result, only its review and its storing are left to do.
LEMMA DecidedFrame ==
    ASSUME IInv, [Next]_vars, final # None
    PROVE  UNCHANGED <<route, verification, draft>>
  <1> USE DEF evidence, decision, released, budget, memory
  <1>1. pending \subseteq Closing
    BY DEF IInv, Phases, ReleaseReady
  <1>2. Persist \/ PersistRaises \/ Reviews \/ ClockExpires \/ UNCHANGED vars
    BY <1>1 DEF Next, NodeStep, Intake, Blocked, LoadContext, LoadContextRaises,
                Plan, Quantitative, Retrieval, Merge, TargetedRetry,
                TargetedRetryRaises, Raise, ConflictGate, TotSelects, TotAbstains,
                FastAdjudication, VerifyOutput, SafeFallback, Degraded,
                AssignRoute, Goto, Closing
  <1> QED
    BY <1>2 DEF Persist, PersistRaises, Raise, Reviews, AwaitReview,
                ClockExpires, vars

\* Whatever the tools, the retrieval and the model return, an answer released
\* without a person passed verification first time on complete evidence, free
\* of severe conflict and inside its budget (human_route, thresholds.py).
THEOREM GreenSafety == Spec => []GreenIsEarned
  <1>1. Init => GreenStands
    BY NoneAssumption DEF Init, GreenStands, Routes
  <1>2. IInv /\ Earning /\ GreenStands /\ [Next]_vars => GreenStands'
    BY GreenStep
  <1>3. GreenStands => GreenIsEarned
    BY DEF GreenStands, GreenIsEarned
  <1> QED
    BY <1>1, <1>2, <1>3, Inductive, EarningHolds, PTL DEF Spec

\* A narrative that failed verification is never what a reader of a forecast
\* gets, and such a forecast is red (route_verification, safe_fallback).
THEOREM NarrativeSafety == Spec => []UnverifiedNarrativeIsReplaced
  <1>1. Init => UnverifiedNarrativeIsReplaced
    BY DEF Init, UnverifiedNarrativeIsReplaced, Forecast
  <1>2. ASSUME IInv, Earning, UnverifiedNarrativeIsReplaced, [Next]_vars
        PROVE  UnverifiedNarrativeIsReplaced'
    <2>1. CASE AssignRoute
      <3> SUFFICES ASSUME ~verification'.passed
                   PROVE  route' = "red" /\ draft'.narrative = "deterministic"
        BY DEF UnverifiedNarrativeIsReplaced
      <3>1. UNCHANGED <<verification, draft>>
        BY <2>1 DEF AssignRoute, decision
      <3>2. route' = "red"
        BY <2>1, <3>1 DEF AssignRoute, human_route, red_rules
      <3>3. draft.narrative = "deterministic"
        BY <1>2, <2>1, <3>1 DEF AssignRoute, Goto, Earning, NarrativeIsSafe
      <3> QED
        BY <3>1, <3>2, <3>3
    <2>2. CASE Degraded \/ TotAbstains
      <3>1. final'.kind = "insufficient"
        BY <2>2, AbstentionKind
      <3> QED
        BY <3>1 DEF UnverifiedNarrativeIsReplaced, Forecast
    <2>3. CASE ~AssignRoute /\ ~Degraded /\ ~TotAbstains
      <3>1. Forecast' => /\ Forecast
                         /\ UNCHANGED <<route, verification, draft>>
        <4>1. ASSUME Forecast' PROVE final # None /\ final' = final
          BY <1>2, <2>3, <4>1, ResultFrame DEF Forecast
        <4>2. ASSUME final # None PROVE UNCHANGED <<route, verification, draft>>
          BY <1>2, <2>3, <4>2, DecidedFrame
        <4> QED
          BY <4>1, <4>2 DEF Forecast
      <3> QED
        BY <1>2, <3>1 DEF UnverifiedNarrativeIsReplaced
    <2> QED
      BY <2>1, <2>2, <2>3
  <1> QED
    BY <1>1, <1>2, Inductive, EarningHolds, PTL DEF Spec

----------------------------------------------------------------------------
\* The promise to the caller.

\* A run that is being stored has an answer of the system's own, and a pause is
\* a red answer whose case a person can find (persist, route_human_review).
Held ==
    /\ status = "running" => reviewState = "not_required"
    /\ "persist" \in pending => /\ route \in {"green", "amber", "red"}
                                /\ final.author = "system"
    /\ status = "paused" => /\ route = "red" /\ reviewState = "awaiting_review"
                            /\ recorded /\ case = "open"
                            /\ final.author = "system"

LEMMA HeldStep ==
    ASSUME IInv, Held, [Next]_vars
    PROVE  Held'
  <1> USE DEF evidence, decision, released, budget, memory
  <1>0. TypeOK /\ Shape
    BY DEF IInv, Phases
  <1>1. ASSUME AssignRoute \/ Degraded \/ TotAbstains PROVE Held'
    <2>1. final'.author = "system"
      <3>1. PICK kind, exhausted, level, adverse, cites :
                final' = FinalResult(kind, exhausted, level, adverse, cites)
        BY <1>1 DEF AssignRoute, Degraded, TotAbstains
      <3> QED
        BY <3>1 DEF FinalResult
    <2>2. route' \in {"green", "amber", "red"}
      BY <1>1 DEF AssignRoute, human_route, Degraded, TotAbstains, abstention_route
    <2>3. status' = "running" /\ reviewState' = reviewState
      BY <1>1 DEF AssignRoute, Degraded, TotAbstains, Goto
    <2> QED
      BY <1>1, <2>1, <2>2, <2>3 DEF AssignRoute, Degraded, TotAbstains, Goto, Held
  <1>2. ASSUME Persist PROVE Held'
    <2>1. pending' \subseteq {"await_review"}
      BY <1>0, <1>2, GotoAlone DEF Persist, Nodes, Lanes
    <2>2. /\ status' \in {"done", "paused"}
          /\ route \in {"green", "amber", "red"} /\ final.author = "system"
          /\ UNCHANGED <<route, final>>
      BY <1>2 DEF Persist, Goto, Held
    <2>3. status' = "paused" =>
             /\ OpensCase /\ recorded' /\ case' = "open"
             /\ reviewState' = "awaiting_review"
      BY <1>2 DEF Persist, route_human_review, OpensCase
    <2> QED
      BY <2>1, <2>2, <2>3 DEF Held, OpensCase
  <1>3. ASSUME Blocked \/ LoadContextRaises \/ TargetedRetryRaises \/ PersistRaises
               \/ Reviews
        PROVE  Held'
    <2>1. status' \in {"done", "raised"}
      BY <1>3 DEF Blocked, LoadContextRaises, TargetedRetryRaises, PersistRaises,
                  Raise, Reviews, AwaitReview
    <2>2. pending' = {}
      <3>1. CASE Blocked
        BY <1>0, <3>1, GotoAlone DEF Blocked, Nodes, Lanes
      <3> QED
        BY <1>3, <3>1 DEF LoadContextRaises, TargetedRetryRaises, PersistRaises,
                          Raise, Reviews, AwaitReview
    <2> QED
      BY <2>1, <2>2 DEF Held
  <1>4. ASSUME Intake \/ LoadContext \/ Plan \/ Merge \/ TargetedRetry
               \/ ConflictGate \/ TotSelects \/ FastAdjudication \/ VerifyOutput
               \/ SafeFallback
        PROVE  Held'
    <2>1. status = "running" /\ UNCHANGED <<status, reviewState>>
      BY <1>4 DEF Intake, LoadContext, Plan, Merge, TargetedRetry, ConflictGate,
                  TotSelects, FastAdjudication, VerifyOutput, SafeFallback, Goto
    <2>2. "persist" \notin pending'
      <3>1. PICK n \in Nodes \ Lanes, next \in SUBSET (Nodes \ {"persist"}) :
                Goto(n, next)
        <4>1. CASE Intake
          BY <4>1 DEF Intake, route_intake, Nodes, Lanes
        <4>2. CASE Merge
          BY <4>2, CoverageRoutes DEF Merge, Nodes, Lanes
        <4>3. CASE VerifyOutput
          BY <4>3 DEF VerifyOutput, route_verification, Nodes, Lanes
        <4>4. CASE ConflictGate
          BY <4>4 DEF ConflictGate, route_conflict, Nodes, Lanes
        <4>5. CASE Plan
          BY <4>5 DEF Plan, Nodes, Lanes
        <4> QED
          BY <1>4, <4>1, <4>2, <4>3, <4>4, <4>5
             DEF LoadContext, TargetedRetry, TotSelects, FastAdjudication,
                 SafeFallback, Nodes, Lanes
      <3> QED
        BY <1>0, <3>1, GotoAlone
    <2> QED
      BY <2>1, <2>2 DEF Held
  <1>5. ASSUME Quantitative \/ Retrieval PROVE Held'
    <2>1. status = "running" /\ UNCHANGED <<status, reviewState, route, final>>
      BY <1>5 DEF Quantitative, Retrieval, Goto
    <2>2. PICK n \in Lanes : Goto(n, Join(n))
      BY <1>5 DEF Quantitative, Retrieval, Lanes
    <2>3. "persist" \notin pending'
      BY <1>0, <2>2, GotoLane DEF Lanes
    <2> QED
      BY <2>1, <2>3 DEF Held
  <1>6. ASSUME ClockExpires \/ UNCHANGED vars PROVE Held'
    BY <1>6 DEF ClockExpires, vars, Held
  <1> QED
    BY <1>1, <1>2, <1>3, <1>4, <1>5, <1>6 DEF Next, NodeStep

\* While a run is running its caller sees nothing.
LEMMA OpenAnswer ==
    ASSUME status = "running"
    PROVE  Answer = "open" /\ Label = "none"
  BY DEF Answer, Label

\* The step that stores a run is the one that releases or holds its answer.
LEMMA StoredAnswer ==
    ASSUME IInv, Held, Persist
    PROVE  /\ Answer' \in {"released", "held"}
           /\ Label' \in {"none", "system"}
  <1> USE DEF evidence, decision, released, budget, memory
  <1>1. /\ status' \in {"done", "paused"}
        /\ reviewState' # "reviewed"
        /\ route' = route /\ final' = final /\ request' = request
        /\ route \in {"green", "amber", "red"} /\ final.author = "system"
    BY DEF Persist, Goto, Held
  <1>2. Label' \in {"none", "system"}
    BY <1>1 DEF Label
  <1>3. route' = "red" => ~Stranded'
    <2> SUFFICES ASSUME route' = "red", HasStore' PROVE recorded' /\ case' = "open"
      BY DEF Stranded
    <2>1. OpensCase
      BY <1>1 DEF OpensCase, HasStore
    <2> QED
      BY <1>1, <2>1 DEF Persist, OpensCase
  <1> QED
    BY <1>1, <1>2, <1>3 DEF Answer

\* A decision is taken on a held answer, and relabels it only as it may.
LEMMA DecidedAnswer ==
    ASSUME IInv, Held, Reviews
    PROVE  Promise!Decide
  <1>1. PICK action \in {"approve", "escalate", "request_data", "override"},
             corrected \in {"adverse", "favorable", "insufficient"} :
          AwaitReview(action, corrected)
    BY DEF Reviews
  <1>2. /\ status = "paused" /\ route = "red" /\ reviewState = "awaiting_review"
        /\ recorded /\ case = "open" /\ final.author = "system"
    BY <1>1 DEF AwaitReview, Held
  <1>3. Answer = "held"
    BY <1>2 DEF Answer, Stranded
  <1>4. /\ status' = "done" /\ route' = "red" /\ reviewState' = "reviewed"
        /\ final' = apply_review(action, corrected)
    BY <1>1, <1>2 DEF AwaitReview
  <1>5. Answer' = "decided"
    BY <1>4 DEF Answer
  <1>6. final \in FinalType
    BY <1>1 DEF AwaitReview, IInv, Phases, Scheduled, ReleaseReady, Closing
  <1>7. Label = (IF final.kind = "forecast" THEN "system" ELSE "none")
    BY <1>2 DEF Label
  <1>8. Label' = (IF final'.kind = "forecast" THEN final'.author ELSE "none")
    BY <1>4 DEF Label
  <1>9. \/ final' = final
        \/ final'.kind = "insufficient"
        \/ final.kind = "forecast" /\ final'.kind = "forecast" /\ final'.author = "reviewer"
    BY <1>4, <1>6 DEF apply_review, FinalType
  <1> QED
    BY <1>2, <1>3, <1>5, <1>7, <1>8, <1>9 DEF Promise!Decide

\* Every step of a run is a step of the promise or shows its caller nothing.
LEMMA PromisedStep ==
    ASSUME IInv, Held, [Next]_vars
    PROVE  [Promise!Next]_(Promise!avars)
  <1> USE DEF evidence, decision, released, budget, memory
  <1>1. CASE Persist
    <2>1. status = "running"
      BY <1>1 DEF Persist, Goto
    <2> QED
      BY <1>1, <2>1, OpenAnswer, StoredAnswer
         DEF Promise!Next, Promise!Release, Promise!Hold
  <1>2. CASE Reviews
    BY <1>2, DecidedAnswer DEF Promise!Next
  <1>3. CASE Blocked
    <2>1. status = "running" /\ status' = "done" /\ route' = "blocked"
      BY <1>3 DEF Blocked, Goto
    <2>2. Answer' = "refused" /\ Label' = "none"
      BY <2>1 DEF Answer, Label
    <2> QED
      BY <2>1, <2>2, OpenAnswer DEF Promise!Next, Promise!Refuse
  <1>4. CASE LoadContextRaises \/ TargetedRetryRaises \/ PersistRaises
    <2>1. status = "running" /\ status' = "raised"
      BY <1>4 DEF LoadContextRaises, TargetedRetryRaises, PersistRaises, Raise
    <2>2. Answer' = "failed" /\ Label' = "none"
      BY <2>1 DEF Answer, Label
    <2> QED
      BY <2>1, <2>2, OpenAnswer DEF Promise!Next, Promise!Fail
  <1>5. CASE Intake \/ LoadContext \/ Plan \/ Quantitative \/ Retrieval \/ Merge
             \/ TargetedRetry \/ ConflictGate \/ TotSelects \/ TotAbstains
             \/ FastAdjudication \/ VerifyOutput \/ SafeFallback \/ Degraded
             \/ AssignRoute \/ ClockExpires
    <2>1. status = "running" /\ status' = "running"
      BY <1>5 DEF Intake, LoadContext, Plan, Quantitative, Retrieval, Merge,
                  TargetedRetry, ConflictGate, TotSelects, TotAbstains,
                  FastAdjudication, VerifyOutput, SafeFallback, Degraded,
                  AssignRoute, ClockExpires, Goto
    <2>2. Answer' = "open" /\ Label' = "none"
      BY <2>1 DEF Answer, Label
    <2> QED
      BY <2>1, <2>2, OpenAnswer DEF Promise!avars
  <1>6. CASE UNCHANGED vars
    <2>1. UNCHANGED Answer /\ UNCHANGED Label
      BY <1>6 DEF vars, Answer, Label, Stranded, HasStore
    <2> QED
      BY <2>1 DEF Promise!avars
  <1> QED
    BY <1>1, <1>2, <1>3, <1>4, <1>5, <1>6 DEF Next, NodeStep

\* The safety half of the refinement: a caller of any instance sees one answer,
\* a held one only with a case behind it, and another label only from the
\* person who decided it (run_assessment, resume_assessment).
THEOREM PromiseSafety == Spec => Promise!Init /\ [][Promise!Next]_(Promise!avars)
  <1>1. Init => Held
    BY DEF Init, Held
  <1>2. IInv /\ Held /\ [Next]_vars => Held'
    BY HeldStep
  <1>3. Init => Promise!Init
    BY OpenAnswer DEF Init, Promise!Init
  <1>4. IInv /\ Held /\ [Next]_vars => [Promise!Next]_(Promise!avars)
    BY PromisedStep
  <1> QED
    BY <1>1, <1>2, <1>3, <1>4, Inductive, PTL DEF Spec
=============================================================================
