------------------------- MODULE ReviewStoreProofs -------------------------
(***************************************************************************)
(* Theorems about every instance of ReviewStore: any set of runs, any      *)
(* mixture of API decisions, resumes and crashes.                          *)
(***************************************************************************)
EXTENDS ReviewStore, FiniteSetTheorems, TLAPS

\* Which stages a run can be in before, at and after its case is resolved.
Typed ==
    /\ stage \in [Runs -> Stages]
    /\ case \in [Runs -> [status: {"none", "open", "resolved"},
                          action: Actions \cup {"none"}]]
    /\ applied \in [Runs -> Actions \cup {"none"}]

StagesFit ==
    \A r \in Runs :
        /\ stage[r] \in {"deciding", "recorded"} => case[r].status = "none"
        /\ stage[r] \in {"resolving", "reviewed"} =>
              case[r].status = "resolved" /\ applied[r] = case[r].action

IInv == Typed /\ StagesFit /\ RegressionTraceable

LEMMA OriginsOfDecisions ==
    /\ \A action \in Actions : Files(action) => Origin(action) \in ReviewerOrigins
    /\ "run_failure" \notin ReviewerOrigins
    /\ "guardrail_false_pass" \notin ReviewerOrigins
  BY DEF Actions, Files, Origin, ReviewerOrigins

\* A row that no reviewer filed changes nobody's reviewer rows.
LEMMA OtherRows ==
    ASSUME NEW origin, origin \notin ReviewerOrigins, NEW q,
           \/ regressions' = regressions
           \/ regressions' = regressions \cup {Row(origin, q)}
    PROVE  \A r \in Runs : ReviewerRows(r)' = ReviewerRows(r)
  BY DEF ReviewerRows, Row

\* One committed decision keeps the correspondence of decisions and rows
\* (resolve_review_case).
LEMMA ResolveTraceable ==
    ASSUME Typed, RegressionTraceable, NEW q \in Runs, NEW action \in Actions,
           resolve_review_case(q, action)
    PROVE  RegressionTraceable'
  <1> SUFFICES ASSUME NEW r \in Runs
               PROVE (IF case[r].status = "resolved" /\ Files(case[r].action)
                      THEN \E row \in ReviewerRows(r) :
                              /\ ReviewerRows(r) = {row}
                              /\ row.origin = Origin(case[r].action)
                      ELSE ReviewerRows(r) = {})'
    BY DEF RegressionTraceable
  <1>1. CASE r # q
    <2>1. case'[r] = case[r]
      BY <1>1 DEF resolve_review_case, Typed
    <2>2. ReviewerRows(r)' = ReviewerRows(r)
      BY <1>1 DEF resolve_review_case, ReviewerRows, Row
    <2> QED
      BY <2>1, <2>2 DEF RegressionTraceable
  <1>2. CASE r = q
    <2>1. case'[r] = [status |-> "resolved", action |-> action]
      BY <1>2 DEF resolve_review_case, Typed
    <2>2. ReviewerRows(r) = {}
      BY <1>2 DEF resolve_review_case, RegressionTraceable
    <2>3. CASE ~Files(action)
      <3>1. ReviewerRows(r)' = {}
        BY <2>2, <2>3 DEF resolve_review_case, ReviewerRows
      <3> QED
        BY <2>1, <2>3, <3>1
    <2>4. CASE Files(action)
      <3> DEFINE new == Row(Origin(action), r)
      <3>1. new.origin = Origin(action) /\ new.run = r
        BY DEF Row
      <3>2. regressions' = regressions \cup {new}
        BY <1>2, <2>4 DEF resolve_review_case
      <3>3. Origin(action) \in ReviewerOrigins
        BY <2>4, OriginsOfDecisions
      <3> HIDE DEF new
      <3>4. ReviewerRows(r)' = {new}
        BY <2>2, <3>1, <3>2, <3>3 DEF ReviewerRows
      <3> QED
        BY <2>1, <2>4, <3>1, <3>4
    <2> QED
      BY <2>3, <2>4
  <1> QED
    BY <1>1, <1>2

LEMMA ResolveTyped ==
    ASSUME Typed, NEW q \in Runs, NEW action \in Actions,
           resolve_review_case(q, action)
    PROVE  case' \in [Runs -> [status: {"none", "open", "resolved"},
                               action: Actions \cup {"none"}]]
  BY DEF Typed, resolve_review_case

LEMMA Inductive == IInv /\ [Next]_vars => IInv'
  <1> SUFFICES ASSUME IInv, [Next]_vars PROVE IInv'
    OBVIOUS
  <1> USE DEF IInv
  <1>1. ASSUME NEW r \in Runs, RecordAssessment(r) PROVE IInv'
    <2>1. Typed' /\ StagesFit'
      BY <1>1 DEF RecordAssessment, Typed, StagesFit, Stages
    <2>2. RegressionTraceable'
      BY <1>1 DEF RecordAssessment, RegressionTraceable, ReviewerRows
    <2> QED BY <2>1, <2>2
  <1>2. ASSUME NEW r \in Runs, OpenReviewCase(r) PROVE IInv'
    <2>1. Typed' /\ StagesFit'
      BY <1>2 DEF OpenReviewCase, Typed, StagesFit, Stages
    <2>2. RegressionTraceable'
      BY <1>2 DEF OpenReviewCase, RegressionTraceable, ReviewerRows, Typed, StagesFit
    <2> QED BY <2>1, <2>2
  <1>3. ASSUME NEW r \in Runs, Finish(r) PROVE IInv'
    <2>1. Typed' /\ StagesFit'
      BY <1>3 DEF Finish, Typed, StagesFit, Stages
    <2>2. \A q \in Runs : ReviewerRows(q)' = ReviewerRows(q)
      BY <1>3, OtherRows, OriginsOfDecisions DEF Finish
    <2>3. RegressionTraceable'
      BY <1>3, <2>2 DEF Finish, RegressionTraceable
    <2> QED BY <2>1, <2>3
  <1>4. ASSUME NEW r \in Runs, FinishRaises(r) PROVE IInv'
    <2>1. Typed' /\ StagesFit'
      BY <1>4 DEF FinishRaises, Typed, StagesFit, Stages
    <2>2. RegressionTraceable'
      BY <1>4 DEF FinishRaises, RegressionTraceable, ReviewerRows
    <2> QED BY <2>1, <2>2
  <1>5. ASSUME NEW r \in Runs, RecordFalsePass(r) PROVE IInv'
    <2>1. Typed' /\ StagesFit'
      BY <1>5 DEF RecordFalsePass, Typed, StagesFit
    <2>2. \A q \in Runs : ReviewerRows(q)' = ReviewerRows(q)
      BY <1>5, OtherRows, OriginsOfDecisions DEF RecordFalsePass
    <2>3. RegressionTraceable'
      BY <1>5, <2>2 DEF RecordFalsePass, RegressionTraceable
    <2> QED BY <2>1, <2>3
  <1>6. ASSUME NEW r \in Runs, Checkpoint(r) PROVE IInv'
    <2>1. Typed' /\ StagesFit'
      BY <1>6 DEF Checkpoint, Typed, StagesFit, Stages
    <2>2. RegressionTraceable'
      BY <1>6 DEF Checkpoint, RegressionTraceable, ReviewerRows
    <2> QED BY <2>1, <2>2
  <1>7. ASSUME NEW r \in Runs, NEW action \in Actions, Decide(r, action) PROVE IInv'
    <2>1. resolve_review_case(r, action) /\ UNCHANGED <<stage, applied>>
      BY <1>7 DEF Decide
    <2>2. Typed' /\ RegressionTraceable'
      BY <2>1, ResolveTyped, ResolveTraceable DEF Typed
    <2>3. StagesFit'
      BY <2>1 DEF resolve_review_case, StagesFit, Typed
    <2> QED BY <2>2, <2>3
  <1>8. ASSUME NEW r \in Runs, NEW action \in Actions, Resume(r, action) PROVE IInv'
    <2>1. resolve_review_case(r, action)
      BY <1>8 DEF Resume
    <2>2. case' \in [Runs -> [status: {"none", "open", "resolved"},
                              action: Actions \cup {"none"}]]
      BY <2>1, ResolveTyped
    <2>3. Typed'
      BY <1>8, <2>2 DEF Resume, Typed, Stages
    <2>4. RegressionTraceable'
      BY <2>1, ResolveTraceable
    <2>5. StagesFit'
      BY <1>8 DEF Resume, resolve_review_case, StagesFit, Typed
    <2> QED BY <2>3, <2>4, <2>5
  <1>9. ASSUME Crash PROVE IInv'
    <2>1. Typed'
      BY <1>9 DEF Crash, Typed, Stages
    <2>2. StagesFit'
      BY <1>9 DEF Crash, Typed, StagesFit
    <2>3. RegressionTraceable'
      BY <1>9 DEF Crash, RegressionTraceable, ReviewerRows
    <2> QED BY <2>1, <2>2, <2>3
  <1>10. CASE UNCHANGED vars
    BY <1>10 DEF vars, Typed, StagesFit, RegressionTraceable, ReviewerRows
  <1> QED
    BY <1>1, <1>2, <1>3, <1>4, <1>5, <1>6, <1>7, <1>8, <1>9, <1>10 DEF Next

LEMMA InitInv == Init => IInv
  <1> SUFFICES ASSUME Init PROVE IInv
    OBVIOUS
  <1>1. Typed /\ StagesFit
    BY DEF Init, Typed, StagesFit, Stages, NoCase
  <1>2. RegressionTraceable
    BY DEF Init, RegressionTraceable, ReviewerRows, NoCase
  <1> QED
    BY <1>1, <1>2 DEF IInv

\* The types that no other part of the invariant rests on.
Filled ==
    /\ opened \in Seq(Runs)
    /\ \A row \in regressions : row.origin \in Origins /\ row.run \in Runs

\* Every stage, case and decision stays within its type, and every row keeps a
\* known origin and run (REGRESSION_ORIGINS and the tables of memory/store.py).
THEOREM TypeCorrect == Spec => []TypeOK
  <1>1. Init => Filled
    BY DEF Init, Filled
  <1>2. IInv /\ Filled /\ [Next]_vars => Filled'
    <2> SUFFICES ASSUME Filled, [Next]_vars PROVE Filled'
      OBVIOUS
    <2>1. ASSUME NEW r \in Runs, NEW origin \in Origins,
                 regressions' = regressions \cup {Row(origin, r)},
                 UNCHANGED opened
          PROVE  Filled'
      <3>1. Row(origin, r).origin \in Origins /\ Row(origin, r).run \in Runs
        BY DEF Row
      <3> QED
        BY <2>1, <3>1 DEF Filled
    <2>2. ASSUME NEW r \in Runs, NEW action \in Actions,
                 resolve_review_case(r, action), UNCHANGED opened
          PROVE  Filled'
      <3>1. Files(action) => Origin(action) \in Origins
        BY DEF Files, Origin, Origins, Actions
      <3>2. CASE Files(action)
        BY <2>1, <2>2, <3>1, <3>2 DEF resolve_review_case
      <3>3. CASE ~Files(action)
        BY <2>2, <3>3 DEF resolve_review_case, Filled
      <3> QED
        BY <3>2, <3>3
    <2>3. CASE UNCHANGED <<opened, regressions>>
      BY <2>3 DEF Filled
    <2>4. ASSUME NEW r \in Runs, OpenReviewCase(r) PROVE Filled'
      BY <2>4 DEF OpenReviewCase, Filled
    <2>5. ASSUME NEW r \in Runs, Finish(r) PROVE Filled'
      <3>1. "run_failure" \in Origins
        BY DEF Origins
      <3> QED
        BY <2>1, <2>3, <2>5, <3>1 DEF Finish
    <2>6. ASSUME NEW r \in Runs, RecordFalsePass(r) PROVE Filled'
      <3>1. "guardrail_false_pass" \in Origins
        BY DEF Origins
      <3> QED
        BY <2>1, <2>6, <3>1 DEF RecordFalsePass
    <2>7. ASSUME NEW r \in Runs, NEW action \in Actions,
                 Decide(r, action) \/ Resume(r, action)
          PROVE  Filled'
      BY <2>2, <2>7 DEF Decide, Resume
    <2> QED
      BY <2>3, <2>4, <2>5, <2>6, <2>7 DEF Next, RecordAssessment, FinishRaises,
         Checkpoint, Crash, vars
  <1>3. IInv /\ Filled => TypeOK
    BY DEF IInv, Typed, Filled, TypeOK
  <1> QED
    BY <1>1, <1>2, <1>3, InitInv, Inductive, PTL DEF Spec

\* Every rejecting decision has its one regression row and every approval has
\* none, however decisions, resumes, runs and crashes interleave.
THEOREM Traceable == Spec => []RegressionTraceable
  <1>1. IInv => RegressionTraceable
    BY DEF IInv
  <1> QED
    BY <1>1, InitInv, Inductive, PTL DEF Spec

\* A run that finished its review shows the decision in the store.
THEOREM StoredDecision == Spec => []RunShowsStoredDecision
  <1>1. IInv => RunShowsStoredDecision
    BY DEF IInv, StagesFit, RunShowsStoredDecision
  <1> QED
    BY <1>1, InitInv, Inductive, PTL DEF Spec

\* A committed decision is never rewritten and no opened case is withdrawn.
THEOREM Final == Spec => DecisionsAreFinal
  <1>1. IInv /\ [Next]_vars =>
          [\A r \in Runs : /\ case[r].status = "resolved" => case'[r] = case[r]
                           /\ case[r].status = "open" => case'[r].status # "none"]_vars
    <2> SUFFICES ASSUME IInv, [Next]_vars, NEW r \in Runs
                 PROVE  \/ /\ case[r].status = "resolved" => case'[r] = case[r]
                           /\ case[r].status = "open" => case'[r].status # "none"
                        \/ UNCHANGED vars
      OBVIOUS
    <2>1. ASSUME NEW q \in Runs, NEW action \in Actions, resolve_review_case(q, action)
          PROVE  /\ case[r].status = "resolved" => case'[r] = case[r]
                 /\ case[r].status = "open" => case'[r].status # "none"
      BY <2>1 DEF resolve_review_case, IInv, Typed
    <2>2. ASSUME NEW q \in Runs, OpenReviewCase(q)
          PROVE  /\ case[r].status = "resolved" => case'[r] = case[r]
                 /\ case[r].status = "open" => case'[r].status # "none"
      BY <2>2 DEF OpenReviewCase, IInv, Typed, StagesFit
    <2>3. CASE UNCHANGED case
      BY <2>3
    <2> QED
      BY <2>1, <2>2, <2>3 DEF Next, RecordAssessment, Finish, FinishRaises,
         RecordFalsePass, Checkpoint, Decide, Resume, Crash, vars
  <1> QED
    BY <1>1, InitInv, Inductive, PTL DEF Spec, DecisionsAreFinal

\* A more urgent case than one a page holds is on that page too, whatever the
\* page's length, if it is among the candidates: the limit comes after the sort.
LEMMA PagesAreUpwardClosed ==
    ASSUME NEW limit \in Nat, NEW i \in Candidates, NEW j \in Page(limit),
           opened \in Seq(Runs), Before(i, j)
    PROVE  i \in Page(limit)
  <1> DEFINE ahead(k) == {l \in Candidates : Before(l, k)}
  <1>1. Candidates \subseteq 1..Len(opened) /\ Len(opened) \in Nat
    BY DEF Candidates
  <1>2. j \in Candidates /\ Cardinality(ahead(j)) < limit
    BY DEF Page
  <1>3. ASSUME NEW l \in Candidates, Before(l, i) PROVE Before(l, j)
    <2>1. opened[l] \in Runs /\ opened[i] \in Runs /\ opened[j] \in Runs
      BY <1>1, <1>2
    <2>2. /\ Urgency[opened[l]] \in Int /\ Urgency[opened[i]] \in Int
          /\ Urgency[opened[j]] \in Int
      BY <2>1, UrgencyAssumption
    <2>3. l \in Int /\ i \in Int /\ j \in Int
      BY <1>1, <1>2
    <2> QED
      BY <1>3, <2>2, <2>3 DEF Before
  <1>4. IsFiniteSet(ahead(j))
    <2>1. IsFiniteSet(1..Len(opened))
      BY <1>1, FS_Interval
    <2>2. ahead(j) \in SUBSET (1..Len(opened))
      BY <1>1
    <2> HIDE DEF ahead
    <2> QED
      BY <2>1, <2>2, FS_Subset
  <1>5. ahead(i) \in SUBSET ahead(j)
    BY <1>3
  <1> HIDE DEF ahead
  <1>6. /\ Cardinality(ahead(i)) <= Cardinality(ahead(j))
        /\ Cardinality(ahead(i)) \in Nat /\ Cardinality(ahead(j)) \in Nat
    BY <1>4, <1>5, FS_Subset, FS_CardinalityType
  <1>7. Cardinality(ahead(i)) < limit
    BY <1>2, <1>6
  <1> QED
    BY <1>7 DEF Page, ahead

\* Whatever page a reviewer asks for, no case on it is less urgent than a waiting
\* one left off, unless a full fetch of newer cases waits (list_cases): for every
\* number of runs, every urgency and every limit.
THEOREM QueueSafety == Spec => []FirstPageIsMostUrgent
  <1>1. TypeOK => FirstPageIsMostUrgent
    <2> SUFFICES ASSUME TypeOK, NEW limit \in 1..MAX_QUEUE_LIMIT,
                        NEW i \in DOMAIN opened, NEW j \in DOMAIN opened,
                        OpenAt(i), Before(i, j), j \in Page(limit),
                        ~(Cardinality(NewerThan(i)) >= MAX_QUEUE_LIMIT)
                 PROVE  i \in Page(limit)
      BY DEF FirstPageIsMostUrgent
    <2>1. opened \in Seq(Runs)
      BY DEF TypeOK
    <2>2. Cardinality(NewerThan(i)) \in Nat
      <3>1. IsFiniteSet(1..Len(opened))
        BY <2>1, FS_Interval
      <3>2. NewerThan(i) \in SUBSET (1..Len(opened))
        BY <2>1 DEF NewerThan
      <3> QED
        BY <3>1, <3>2, FS_Subset, FS_CardinalityType
    <2>3. i \in Candidates
      BY <2>2, LimitsAssumption DEF Candidates
    <2>4. limit \in Nat
      BY LimitsAssumption
    <2> QED
      BY <2>1, <2>3, <2>4, PagesAreUpwardClosed
  <1> QED
    BY <1>1, TypeCorrect, PTL
=============================================================================
