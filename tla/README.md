# Verification of the Meridian account health forecaster

Meridian assesses a customer account: it gathers telemetry and retrieved evidence, forecasts
the renewal outcome, and either releases the answer or routes it to a person.  This directory
holds TLA+ models of the backend, TLC configurations that check them on small instances, and
TLAPS proofs of the properties that matter most for every value of the constants.
Paths are under `backend/src/meridian` unless they start with `docs/`.

## 1. The system

| Component | State it keeps | Operations | What is hard | What makes it correct |
|---|---|---|---|---|
| Forecast graph: `graph/nodes.py`, `routing.py`, `builder.py`, `state.py` | `ForecasterState`, checkpointed per superstep | 17 nodes, 6 conditional edges | two lanes in one superstep, two bounded loops, nodes that raise, budgets, a pause | no forecast without screened evidence, green only when earned, a quarantine is never forgotten, spend bounded, every run ends |
| Confidence, conflict, tree search: `graph/confidence.py`, `conflict.py`, `tot.py`, `thresholds.py` | none | score, cap, detect, search | caps against bands, ties, a beam cut before the stress test | a winner leads every branch and has faced its counterargument |
| Guardrails: `guardrails/` | none; verdicts accumulate in the state | intake, screen, budget | verdicts of an earlier round, budget read before and after a call | nothing withheld is released, nothing spent after the budget |
| Agents: `agents/` | none | plan, analyse, gather, retry, draft, verify | a tool that fails half-way, coverage across rounds | a lane hands over everything or nothing, a retry only adds |
| Structured generation: `llm/` | the output mode, shared by all threads | generate, repair, step down | an unlocked read and write, refusals, broken replies | the mode is earned, the bill is complete, a call ends |
| Application memory: `memory/store.py` | assessments, review cases, regressions (SQLite) | record, open, resolve, file, list | several transactions per run, crashes, two entry points to one case | one decision per case, one regression per decision |
| Review API: `api/routes/review.py` | none | list, read, decide | races with a resumed run; ordering after a bounded fetch | the most urgent case is seen |
| Run manager: `serving/runs.py`, `api/routes/assessments.py` | live runs, their events, subscriber queues | start, publish, finish, subscribe, stream | worker threads against request threads, eviction | a stream shows every event once, and ends |
| Portfolio scan: `serving/scan.py` | reservations, futures, records | dispatch, assess, gather | shared budget under concurrency, a run that raises | bounded overspend, every account reported |
| Scheduler and scan API: `serving/scheduler.py`, `api/routes/scans.py`, `api/dependencies.py` | a thread and its stop event, the registry of scans, the cached limiter | start, loop, stop, post, get | a stop that times out, then a start; a cache filled twice | one loop at a time, one allowance |
| Rate limiter: `serving/limits.py` | timestamps per client and in all | check, remaining | times read before the lock | no window over its limit, a kept retry time |
| Tool registry: `tools/registry.py`, `services.py` | audit log, the lazily built retrieval service | authorize, call, handle | a timeout while the handler runs on, one retry, a shared lazy attribute | a faithful audit line per call, no orphaned handler |
| Retrieval: `retrieval/` | four index files on disk, the copy in memory | build, publish, load, search, grade, retry | a build that stops between two files, a rebuild under a running server | nothing out of scope is shown, a quiet index is current |
| Data, features, model: `data/`, `features/`, `model/` | loaded tables, an artifact | load, build, predict | the as-of cutoff | nothing after the cutoff is used |

How they interact: a request thread (or a scan worker) calls `run_assessment`, which drives the
graph; nodes call agents, agents call tools and the language model; `persist` writes to
application memory; a paused run waits in its checkpoint for `resume_assessment`, while the
review API reaches the same case directly.  The run manager publishes each node's events to
the streams of `GET /assessments/{run_id}/events`.  Scans and assessments share one limiter, one
tool registry, one generator and one retrieval index, each from several threads.

## 2. Modules

| Module | Models | State and actions |
|---|---|---|
| `ForecastGraph` | one run of the graph | one variable per state key the control depends on, plus the scheduler (`pending`, `steps`, `status`); one action per node, `TotSelects`/`TotAbstains` and the `...Raises` actions being outcomes of one node; `ClockExpires` is the wall clock, `Reviews` the person |
| `AssessmentPromise` | what a run promises its caller | the answer a caller sees and who chose its label; `ForecastGraph` refines it (`KeepsPromise`) |
| `Intake` | the intake guardrail | operators only: the rules in order of precedence, the horizon and the decision |
| `EvidenceLanes` (extends `Intake`) | how a run gathers evidence | `ValidateRequest`, `LoadContext`, `PlanSubGoals`, then both lanes call by call: `AskTelemetry`, `Analyse`; `SearchAnswers`, `SearchUnavailable`, `SearchRaises`, `Gathered`; the fan-in `Merge` and `TargetedRetry` |
| `Deliberation` | what happens between fan-in and narrative | `Screen`, `ConflictGate`, candidates (`GenerateFloor` without a model, `GenerateArgued` with one), `TotAdjudication`, or `FastAdjudication`, `Verify`, `SafeFallback`; scores, checks and the vote are operators |
| `StructuredGeneration` | several threads over one generator | one action per unlocked access of `_mode` (`_messages`, `_response_format`, `CheckStep`, `IndexStep`, `WriteStep`) and one per reply of the server |
| `ReviewStore` | application memory, the review API, the resume of a paused run | one action per transaction; `Crash` may come between any two |
| `RunManager` | live runs and event streams | one action per locked section, and per unlocked step that another thread can observe |
| `PortfolioScan` | one portfolio scan | dispatcher (`Skip`, `Submit`, `Gather`, `Complete`) and workers (`Begin`, `CallModel`, `End`) |
| `ScanService` | who starts scans and finds them again | the scheduler's owner (`start`, `SetStop`, `Join`) and loops (`_loop`), request handlers (`get_rate_limiter`, `BuildLimiter`, `enforce_rate_limit`, `start_scan`, `start_assessment`, `Register`, `StartThread`), scan threads (`execute`, `Die`), a change of settings (`Reload`) |
| `Corpus` | dataset, documents, chunks | operators only: what an index is built from |
| `RetrievalIndex` (extends `Corpus`) | the index on disk, the server that loads it, the graded search | `Build`, `Publish` per file, `CrashBuild`, `ChangeData`; `Restart` and the four checks of a load; `search_rows`, `_rank`, `Cite`, `Retrieve` with its one retry |
| `ToolRegistry` | `ToolRegistry.call` from several threads, the retrieval service they share | callers (`Refuse`, `Dispatch`, `Expire`, `Retry`, `Finish`) and the handler of each attempt (`FindService`, `CallFactory`, `Built`, `UseService`, `HandlePlain`) |
| `RateLimiter` | the two sliding windows | one action per outcome of `check`, `remaining`, and a clock |
| `MC...` | the instances TLC runs | sets of requests, rows, replies; model values |
| `...Proofs` (eight) | theorems | see section 5 |

How they fit together.  `ForecastGraph` takes what its neighbours return from constant sets:
`EvidenceLanes` computes the lane results from an account's rows, `Deliberation` the
split, the conflict and the narrative from citations and probabilities, and `StructuredGeneration`
the attempts and bills.  The instance of `ForecastGraph` is made of values these modules
produce; the link is by those sets, not by a refinement.  `ScanService` starts what `PortfolioScan` and
`RunManager` model; `ToolRegistry` is what `EvidenceLanes` calls, `RetrievalIndex` what answers it.

Abstractions worth knowing:

* **ForecastGraph.** Dates are days 1..3: the account's effective cutoff is 2, the dataset's
  horizon 3, and a request may tighten the cutoff to 1.  A citation is `sound`, or `foreign`
  when some rule of `citation_violation` names it.  A confidence is one of three levels, below
  amber, amber, green; `thresholds.py` places each cap strictly below the band it holds a run
  under, so a cap is a minimum over levels.  The score before the caps, what tools, retrieval
  and the model return, and whether a draft passes verification are free choices.
* **EvidenceLanes.** A row is the week it is dated; a family of rows is a set of weeks.  Numeric features
  are left out, their coverage and staleness are kept.  Any call may answer, be
  unavailable, time out or break.
* **Deliberation.** Probabilities and relevance are percentages, a rubric dimension is worth 1200 so
  that thirds and quarters are whole.  A text is verifiable or not, boastful or not.  Where a lead
  equals the tie band exactly, floating point decides in the code and either outcome is modelled.
* **StructuredGeneration.** A reply is valid, invalid, empty, broken or a refusal; tokens are the
  number of billed requests.
* **ReviewStore.** A store method is one `BEGIN IMMEDIATE` transaction and therefore one action.
  Of a run only its place in `persist` and in the resumed `await_review` is kept.  Regression
  identifiers are text: `LastId` stands for 99999, the last number whose five digits compare
  as text the way they compare as numbers.
* **RunManager.** Events are numbers in the order they were emitted, the sentinel is 0.  A run's
  events come from one thread (`_collect` iterates the graph in the worker).  The keep-alive of an
  idle stream changes nothing and is left out.
* **PortfolioScan.** Accounts are positions, since a request may name an account twice.
* **ScanService.** A limiter is the number of runs it admitted, within one window (`RateLimiter` has
  the windows).  One owner starts and stops the scheduler: nothing in the API does.
* **RetrievalIndex.** Relevance is a number per passage and attempt instead of an embedding.  A text
  comes with the passages it is cut into.  One build runs at a time.
* **ToolRegistry.** Handlers compute what they like and end in one of the errors `error_category`
  tells apart; only the lazy attribute of `_retrieval_service` is followed step by step, because its
  two reads are where threads meet.  Time is not counted: a wait may run out whenever the handler
  is still running, and its late answer is then dropped.
* **RateLimiter.** The lock makes `check` and `remaining` single actions.  The time is read before the
  lock is taken, so each action uses a `moment` at most `MaxSkew` old: that is a timing assumption,
  and the windows are respected up to it.  `remaining` is modelled although only tests call it.

## 3. Runs

| Run | Instance | Shows |
|---|---|---|
| `graph` | 2 sub-goals, three requests (pausing with and without memory; a tightened cutoff on a high-value account), three telemetry results, four retrieval results, two bills against a ceiling of 4 tokens, the clock free to expire | coverage and quarantine rules, what reaches a reader, green, the spend, the refinement of `AssessmentPromise` with its ending |
| `graph_quarantine` | the same, with a retrieval that only finds foreign citations | a statement of the documents the code does not keep (section 6) |
| `lanes` | four accounts (busy, quiet, new, dark), eight requests, a drafted plan and the default one, every outcome of every call | no future rows, whole or excused lanes, a retry that keeps coverage |
| `deliberation` | five distributions, five readings of the gate's metrics, retrievals of one to six citations, with and without a model | what a winner had to face and lead, when the floor may overrule, that the floor never fails |
| `generation` | 2 threads, 3 generations, every requested mode and every reply | what an undisturbed call is told, an earned mode, complete bills, endings |
| `store` | 3 runs, one of which pauses, 3 regression rows and numbers that run out after 2, a fetch of 2 cases | decisions, regressions, resumed runs, order of the queue |
| `runs` | 2 runs on 1 worker, registry of 1, 2 streams, 2 events | faithful, complete, ending streams |
| `scan` | 5 accounts, 2 workers, a budget of 7 with 3 calls per run | overspend, reports, termination |
| `scan_service` | 3 accounts, 2 request threads, an allowance of 2, a registry of 1, 2 posted scans, 2 loops | one loop, a kept schedule, a truthful registry, a shared allowance |
| `tools` | 2 calls with one retry each; agents' requests, an invalid one, and two of a session that asks what its role may not | audit, orphaned work, the lazy service, termination |
| `retrieval` | two loadable archives and a broken one, 2 builds, four requests | files no older than advertised, citations in scope, a current index |
| `limiter` | 2 clients, windows of 3 and 4, a skew of 1, a clock up to 6; both limits, and each alone | window limits, retry times |

Why the bounds are enough.  Every loop of the graph is bounded by the code itself
(`MAX_EVIDENCE_ROUNDS`, `MAX_OUTPUT_REGENERATIONS`), so a run is finite and no bound on its
length was added.  Two sub-goals are what a retry needs to replace one observation and keep the
other.  A token ceiling of 4 with bills of 2 and 1 lets a run exhaust it at any of its
generations and also never.  The eight weeks of `lanes` hold a window of 3, a stale limit of 1 and
a horizon of 7 with weeks on both sides of each, and a request for week 8, past the horizon; `MaxCitations` of 2
lets a search find nothing, enough, and more.
The cases of `deliberation` put scores on, just under and just over each threshold, and its longer
retrievals dilute a rubric share.  Three generations on two threads let two overlap while
a third starts from the mode they left.  In `store`,
`RowBound` limits the rows (the safety evaluation may file without end), three runs let
two cases compete and a third be resolved between them; a fetch of two leaves a third open case out of it.  Two runs on one worker
make one run wait, and a registry of one evicts a run that is still executing; two
streams can be on the same run or on different ones, before, during and after it.  A scan budget of 7 is no multiple of
the reservation of 3, so the last reservation overshoots it as far as it can.
Two loops are what a stop that gave up needs, two posted scans overflow a registry of one,
and two handlers race for the limiter.  Two builds under one server make every mixture of old and new files
that a crash can leave, and `NeverOlderThanAdvertised` and the other properties of the index are proved
for any number.  Two tool calls are what the race for the service needs.  The limiter's windows keep the
order hour < day, and its clock passes each window, so timestamps expire while others stay.

Deadlock is checked in `retrieval` and `deliberation`.  Elsewhere it is off: runs, scans, streams and
generations end, the clock of the limiter is bounded, and the store may have no case left to decide.

## 4. Fairness

`ForecastGraph` assumes weak fairness of the node steps together: LangGraph drives every scheduled
node, and a node returns or raises.  Nothing is assumed of the reviewer (a paused run may wait for
ever) or of the clock.  `RunManager` assumes it of each worker and of each stream's server side: the
pool runs submitted work and a generator is iterated until its client leaves; no fairness is
given to starting runs or to clients.  That a run emits finitely many events and then ends is
what `KeepsPromise` shows of the graph.  `PortfolioScan` assumes it of the dispatcher and of each
worker.  `ScanService` assumes it of the scheduler's loops (a thread runs on, a scan ends as
`PortfolioScan` shows), not of its owner or of any client.  `StructuredGeneration` assumes it of each
thread: the provider's client has a timeout, so a request is answered or fails.  `ToolRegistry` assumes it of
every caller and every handler.  The other modules have safety properties only: no one has to
decide a case, ask a question, or rebuild an index.

## 5. Proofs

TLC checks small instances; the theorems hold for all constants that satisfy the assumptions
declared beside them (any sub-goals, requests, lane results, bills, token ceiling; any number of runs,
streams, accounts, workers, builds, handlers and calls).

* **`ForecastGraphProofs`.** `IInv == TypeOK /\ Phases`.  The properties speak of keys that a
  run fills progressively, so none is inductive alone: `Phases` says for each phase of the run
  (opening, gathering, judging, closing) which keys are filled and how they agree: `Shape` (which
  nodes may be scheduled together), `LanesReady` (both lanes answered when the fan-in is scheduled),
  `EvidenceReady` (the bundle holds what the screen kept, and both lanes are available when
  adjudication is scheduled), `DecisionReady` (draft and verification agree with the node that comes
  next) and `ReleaseReady` (the final result, its route and its citations).  `Inductive` proves
  `IInv` step by step, one step per node and one sub-step per conjunct; `TypeCorrect`,
  `QuarantineSafety`, `CitationSafety` and `EvidenceSafety` follow.  `SpendSafety` adds
  `SpendByPhase`, a bound on the attempts made before each phase: two for the plan, and two for
  each draft.
  `assign_route` reads keys that other nodes wrote
  supersteps before, so `Earning` says what still holds of each of them on the way: the intake accepted the run
  (`Accepted`), the recorded gap is the retrieval's (`GapIsCurrent`), a draft's confidence has been
  capped (`DraftIsCapped`), tokens past the ceiling have left a verdict (`SpendIsJudged`), a rejected narrative
  was replaced (`NarrativeIsSafe`).  `GreenSafety` and `NarrativeSafety` follow; `PromiseSafety` is the safety half of
  the refinement, `Promise!Init` and every step a step of `AssessmentPromise` or a stutter, with
  `Held` (a run being stored has an answer of the system's own; a paused one is red and has a case)
  for the steps of `persist`, the pause and the reviewer.
* **`AgentProofs`** is about what the agents do with a model.  *Generations:* `LoneSafety`, `LadderSafety` and
  `BillSafety` from `GenerationInv`.  For each thread `Metered` carries the sum that will be its bill,
  and `Undisturbed` what a generation that met no other may assume (nobody runs beside it, and its prompt
  carries the schema unless the request does); `Climbed` says, as long as no two have overlapped, that a step down in progress
  left a mode that was asked for and refused, and writes its successor.  *Deliberation:* `WinnerSafety`, `LeadSafety`, `OverruleSafety` and
  `FloorSafety` from `DeliberationInv`, which says on which inputs a winner was selected, and that no later
  step changes them.  The weight is in the lemmas about the search, for any evidence, distribution and
  arguments: `StressKeeps` (the stress test only adds: a score never falls and no branch fails), `FirstTwo` and `FirstLeads`
  (the runner-up of the first round is in the beam, so a winner leads the branches the beam dropped too),
  `SearchSelects` (the lead of a winner), `FloorScore` and `FloorOverrules` (what the score of a deterministic branch is made of).
* **`EvidenceProofs`** is about what the evidence comes from.  *Tool calls:* `Audited`, `OneHandlerAtATime`,
  `ClashNeedsOverlap`, `AgentsPass` and `TypeCorrect`, for any number of calls and retries and any set of requests.  `Jobs`
  (attempts are made in order and only the last one of a call in flight can be running), `Race` (calls in flight
  together know it) and `Trail` (the audit line agrees with the count) are inductive together.  *Lanes:*
  `FutureSafety`, `WholeSafety` and `RetrySafety` from `LanesInv`, for any account, request and set of drafts.  `InTurn` says that
  the answers of the telemetry tools are those of a prefix of their list, all cut at the date asked for;
  `SearchesInTurn` that what is left to search is the tail of the plan and what was found follows its head;
  `TelemetryWhole` and `RetrievalWhole` what a lane handed over; `RetryIsTargeted` that the second round
  only searches what the first left uncovered, without which `merge_evidence` could replace
  covered evidence; `SearchesDated` that every document found is in time.
* **`ReviewStoreProofs`.** `Traceable`, `StoredDecision` and `Final`: one regression row of the right
  origin per decision, for any interleaving of decisions, resumes, crashes and rows filed by
  others; the strengthening (`StagesFit`) says which case status each place of a run allows and
  that a run past its resume holds the stored decision.  `TypeCorrect` gives the types of the rows.  `QueueSafety`:
  for any number of cases, any urgencies and any length of the page, the page holds with a case every more urgent
  one that was fetched (`PagesAreUpwardClosed`: what is before a case has fewer cases before it than that case has).
* **`RunManagerProofs`.** `StreamSafety`.  A stream's history says nothing of the moments between two locked
  sections, so `Worker` ties the worker's place to the run's fields and to what is still in its
  hand, `Subscription` says that a run only knows streams seeded from it, and `Reception` with `Promised` says that what a stream
  was sent, what its queue holds and what the worker is about to hand it are together the run's
  events in order, with the sentinel exactly for the streams that were dismissed.
* **`SpendingProofs`.**  *Scan:* `Reported`, every account of a finished scan is reported exactly once;
  `ReservationsBounded`, the reservations never exceed the budget by a whole run's cost; `OverspendBounded`, nor do
  the calls really made: `Reserved` ties both to the number of submitted accounts, and `CallsAreReserved`
  counts the calls into its multiple (`Called` is the number of pairs of an account and a call, so that a
  bound on each account bounds the sum); `TypeCorrect`, among the types, that the meter counts no more runs than the
  pool has workers.  *Limiter:* `WindowSafety` and `ResetSafety` from `LimiterInv`, for any limits, windows and clients.
  Times are recorded out of order and pruning stops at the first recent one, so a queue is not the
  set of recent runs: the ghost `admitted` holds them all, and `Tracks` says that a queue is a tail of
  it, read up to the skew earlier, whose missing head is out of the window up to that skew (`TracksPruned`, `TracksAppend`, `TracksTick`).  `PromisesSurvive`
  says that a time once announced is kept by whatever another client does.
* **`ScanServiceProofs`.** `OneLoop` from `LoopInv` (the owner's handle is the only live thread, unless a
  join timed out), `SharedAllowance` from `AllowanceInv` (what was admitted, with the holders of a limiter
  of their own, is covered by the cached count and the private ones; requests past the limiter are
  paid for; once the cache is filled at least one handler has not built in vain), `FaithfulRegistry` from `HeldInv`
  (each posted scan is in one handler's hands, before and while it is entered) and `EntriesInv` (the registry has an
  entry once, and has lost one only after more scans were entered than it retains).
* **`RetrievalIndexProofs`.** `Advertised` from `DiskInv` (files are replaced in order: those still to go are
  the tail of `Files`, those replaced are the newest, and the manifest in memory is no newer than the one on disk).  `ScopeSafety` from `ScopeInv` (a
  context was in scope when it was cited, and the scope is fixed while citations exist).  `QuietSafety` from `QuietInv`
  (between the reading of a complete manifest and the next replacement, all files and the vectors are one build, and past
  the comparison that build is of the data served).

Every safety invariant and every action property the passing runs check is the statement of a theorem.  Only
model-checked: liveness (`StreamEnds`, `ScanEnds`, `CallsEnd` of two modules, `ScheduleIsKept`, and that a
run ends, the other half of `KeepsPromise`), which is out of the prover's reach.

The assumptions are those of the modules (`...Assumption`): natural numbers for limits and windows, the types of what
the code receives typed (requests, drafts, results, bills), and what pydantic enforces (`CasesAssumption`: a
distribution in percent that is not zero everywhere; `DraftsAssumption`: sub-goals of the six kinds;
`DatasetsAssumption`: finitely many rows of each family).

No theorem needs induction over data.  Where a least or greatest element is chosen (the earliest time in a
queue, the strongest branch), the proofs take it from the well-foundedness of `<` on `Nat` (`LeastOfNat`, `MinOfNat`, `Unbeaten`),
and where a subsequence is selected (`Picked` of `EvidenceLanes`), positions are ranks, compared through
the cardinalities of initial segments (`Nth`).  That is why the models say such things with `CHOOSE`, sets and
`Cardinality` and not with folds.

A remark for maintainers: the SMT backend of tlapm 1.4.5 can claim an intersection of
two enumerated sets to be empty when it is not.  `ForecastGraphProofs` therefore never intersects
them and says `Scheduled(group) == \E n \in group : n \in pending` instead; each proof was also
tried against a broken model to see that it fails, and at the right step.

## 6. Where code and documents disagree

`graph_quarantine` checks the documents' statement and finds the code violating it: an
evidence quarantine "always forces red" (`docs/PHASE_7_STATUS.md:19`, D-035 in `docs/DECISIONS.md:43`), but an
abstention or a degraded answer after one may be amber: `abstention_route` does not look at it
(`graph/nodes.py:1336`).

Met while modelling, and visible in the models, without a run of their own.

Graph and review:

* when the tree search abstains, its `guardrails` entry replaces the budget verdict of the same node
  (`graph/nodes.py:875`; `graph/state.py:108-111` says that verdicts accumulate);
* a request that tightens the cutoff loses its citations: the retrieval envelope carries the
  account's cutoff and the screen compares it with the tighter one (`graph/nodes.py:518`, `585`);
* deciding a paused run's case through the API, or a crash after the store committed a resume, leaves
  a pause that can never be resumed (`api/routes/review.py:272`);
* a severe conflict the search settled "has been dealt with" (`contracts.py:405-408`), but the
  confidence cap for severe conflicts ignores `resolved` and the run is red for its confidence;
* an abstention does not consult an intake escalation, although its own limitation text says
  that it "is routed for human decision" (`graph/nodes.py:1168-1171`);
* the targeted retry has no handler for tool errors that the lanes treat as data
  (`TargetedRetryRaises`);
* beyond `MAX_QUEUE_LIMIT` open cases the oldest is not fetched at all (`api/routes/review.py:217`);
* after `REG-100000` every new regression number collides (`CanInsert`), and with it every decision
  but an approval (`memory/store.py:726`);
* `MAX_MODEL_CALLS` is explained with four generations; the longest path has three.

Evidence:

* "Telemetry older than this at the cutoff is reported as stale" (`agents/quantitative_analyst.py:48-52`),
  but staleness is read from the 26-week series while the adoption metrics use the last observed
  weeks of any age: telemetry dead for longer gives an available lane with neither a stale flag nor a
  gap (account `Dark`; no account of the packaged dataset is one);
* an account with neither tickets nor notes in the window has a satisfaction of 3.5 by default with a
  support coverage of 0, and `metric_violation` (`guardrails/evidence.py:129-151`) then discredits the whole
  quantitative lane (account `Quiet`; none in the packaged dataset);
* `_within` excludes the first day of its window, though its docstring says "inclusive start"
  (`tools/services.py:134-147`), while the feature builder includes it; the counts of the two
  differ for rows on that day;
* a retrieval call that times out is no `ToolUnavailableError` and so not treated as data by the
  retrieval agent.

Deliberation:

* the selected outcome is said to be the model's ranking (`docs/PHASE_6_STATUS.md:116-121`); a deterministic candidate is
  scored by counts of citations, and an outcome of lower probability can be selected over
  the predicted one (what holds is `OverruledOnEvidence`).  With Contracted at 45 percent and Renewed at 40, one
  favourable citation is enough to select Renewed;
* a winner on the other side keeps the predicted outcome's citations and counterevidence, its
  agreement score and its probability in the decision (`graph/nodes.py:935-962`);
* `safe_fallback` keeps the model's limitations and quotes the failures verbatim;
* the abstention for "every survivor failed its stress test" and a vote that ends in a winner cannot happen;
* grounding of a deterministic branch is not monotone: it names three citations at most, of however many agree;
* the replay of a narrative does not read a negative figure (`agents/forecast_adjudicator.py:66`, against its
  docstring at `141-151`), nor one that `:g` prints with an exponent in one piece.

Generation:

* two threads that step down together can skip a mode the provider never refused, and a stale write can climb
  the ladder again (finitely often: `CallsEnd`); past its end `_LADDER.index(mode) + 1` raises `IndexError`, which no
  caller catches; a change between the two reads of `_mode` can send a request without a schema.  `LoneCallIsTold`
  and `LadderIsEarned` say what holds as long as no two generations overlap;
* the bill of a first reply is lost when the repair breaks (`llm/base.py:137`).

Serving and retrieval:

* `_run_with_timeout` is "bounding how long a caller waits" (`tools/registry.py:302`), but leaving
  the executor's `with` block waits for the handler (`Expire` ends the wait, the call goes on when the handler has ended);
* two threads that use the retrieval service for the first time may build it twice, or one may call
  the service the other has just built (`CallFactory`, a `TypeError` that ends the call as internal);
* unspent reservations of a scan are given back only after the last account was submitted or
  skipped, so they never let another one start (`serving/scan.py:376-379`);
* a scan can overspend its budget by almost one run (`OverspendIsBounded` is the exact bound), and a
  run that raises is reported with no model calls;
* a posted scan that raises before its first statement stays "running" for ever (`Die`), and a finished scan that
  had been evicted enters the registry again and may push out a newer one;
* the second caller of a `lru_cache`d factory gets a limiter of its own (`api/dependencies.py:49-53`);
* the run registry evicts runs that are still executing (`Retain`), although its comment speaks of
  finished ones; such a stream has no closing frame;
* a stream that connects between the assignment of `status` and that of `error` closes with a
  failed frame that names no error;
* a build that stops after its first file leaves the old manifest beside newer vectors, and the mixed set loads
  when the counts agree (`retrieval/index.py:237-239`); excerpt and context of a citation may come from
  different builds; `_normalise_allowed_sources` promises a non-empty result, but an empty one
  is accepted; the reason "duplicate-heavy" can never fire.

## 7. Not modelled, and what is left

Not modelled: intake patterns (a question is the set of rules it matches), prompts and wording,
the weighted confidence sum (a free level), numeric features and the trained forecaster (a
distribution), embeddings and the cutting of texts, MCP transport, HTTP validation, settings, error bodies and tracing.  The offline
evaluation, the dataset generator and the scripts are sequential tools without
state that outlives a call, and the frontend renders what is served: they have no behaviour a model checker adds
anything to.

What could follow: a refinement from `EvidenceLanes` and `StructuredGeneration` to the constant sets `ForecastGraph`
takes (today the link is by hand); and theorems about the modules together, such as that the bills
`StructuredGeneration` proves complete are those `SpendUnderCeiling` speaks of.
