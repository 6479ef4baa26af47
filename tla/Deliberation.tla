---------------------------- MODULE Deliberation ----------------------------
(***************************************************************************)
(* What ForecastGraph leaves open between the fan-in and the verified      *)
(* narrative: the citation screen and the split (guardrails/evidence.py,   *)
(* agents/forecast_adjudicator.py), the eight conflict triggers            *)
(* (graph/conflict.py), the bounded search over the four outcomes          *)
(* (graph/tot.py) and the narrative of the linear path, verified and, when *)
(* it fails, replaced (graph/nodes.py).                                    *)
(*                                                                         *)
(* Citations are named by their place in retrieval order.  Probabilities   *)
(* and relevance are percentages; a rubric dimension is worth Unit.  Text  *)
(* is what its checks see of it: verifiable or not, boastful or not.       *)
(***************************************************************************)
EXTENDS Integers, Sequences, FiniteSets, FiniteSetsExt

CONSTANTS
    Cases,        \* runs that reach the fan-in: the citations retrieved, in order
                  \* ([signal, score, owner, date, leaks, source]), the guidance, the
                  \* distribution ([Outcomes -> percent]), the metric values and the
                  \* median the gate reads, and whether a provider is configured
    Arguments,    \* what a model may argue for one outcome
    Narratives    \* what a model may draft on the linear path

Outcomes         == {"Churned", "Contracted", "Expanded", "Renewed"}
ADVERSE_OUTCOMES == {"Churned", "Contracted"}

\* sorted() compares the names of outcomes with equal scores.
ByName == <<"Churned", "Contracted", "Expanded", "Renewed">>
Place(o) == CHOOSE i \in 1..4 : ByName[i] = o

Self    == "this"      \* the account under assessment
Cutoff  == 2
Undated == 0
Missing == -99         \* a metric or a median nobody computed
Article == 99          \* the playbook article of the guidance lane
Blank   == -1          \* strongest_counterevidence is empty
Unnamed == 0           \* it names no citation: "none", a driver, free text

Signals   == {"adverse", "favorable", "neutral"}
Citations == [signal : Signals, score : Int, owner : STRING, date : Nat,
              leaks : BOOLEAN, source : STRING]

ASSUME CasesAssumption ==
    \A c \in Cases : /\ c.retrieved \in Seq(Citations)
                     /\ c.distribution \in [Outcomes -> 0..100]
                     /\ \E o \in Outcomes : c.distribution[o] > 0

Unit                  == 1200          \* one rubric dimension, of five
MINIMUM_WINNING_SCORE == 3300          \* 0.55 of five units
TIE_BAND              == 600           \* 0.10
TOT_BEAM_WIDTH        == 2
TIE_MARGIN            == 10
HIGH_RELEVANCE_SCORE  == 50
MIN_DIRECTIONAL_CITATIONS == 2
MAX_OUTPUT_REGENERATIONS  == 1
MAX_CANDIDATE_CITATIONS   == 3

VARIABLES
    pc,           \* the step the run is at
    retrieved, guidance, distribution, predicted, reading, provider,
    kept,         \* citations that passed the screen
    fired,        \* conflict rules that fired
    candidates,   \* [Outcomes -> candidate], depth one
    result,       \* the ToTResult: the survivors at depth two, the winner
    decision,     \* the draft decision: outcome, cites, prose, source, by
    attempts      \* verifications so far

inputs  == <<retrieved, guidance, distribution, predicted, reading, provider>>
search_ == <<candidates, result>>
deliberation_vars ==
    <<pc, inputs, kept, fired, search_, decision, attempts>>

NoOne       == [o \in {} |-> o]
NoResult    == [winner |-> "none", survivors |-> NoOne, voted |-> FALSE]
NoDecision  == [outcome |-> "none", cites |-> {}, prose |-> TRUE,
                source |-> "none", by |-> "none"]

Favourites == {o \in Outcomes : \A p \in Outcomes : distribution[p] <= distribution[o]}

DeliberationInit ==
    /\ pc = "screen"
    /\ \E c \in Cases :
          /\ retrieved = c.retrieved /\ guidance = c.guidance
          /\ distribution = c.distribution /\ reading = c.reading
          /\ provider = c.provider
    /\ predicted \in Favourites
    /\ kept = {} /\ fired = {}
    /\ candidates = NoOne /\ result = NoResult
    /\ decision = NoDecision /\ attempts = 0

----------------------------------------------------------------------------
\* The evidence, screened and split by signal.

citation_violation(c) ==
    \/ c.source = "knowledge_base"
    \/ c.owner # Self
    \/ c.date = Undated
    \/ c.date > Cutoff
    \/ c.leaks

Pointing(signal) == {i \in kept : retrieved[i].signal = signal}
Material(S)      == {i \in S : retrieved[i].score >= HIGH_RELEVANCE_SCORE}

\* Mutant: a contraction is not read as adverse.
_side_churn(outcome) == IF outcome = "Churned" THEN "adverse" ELSE "favorable"

_side(outcome)  == IF outcome \in ADVERSE_OUTCOMES THEN "adverse" ELSE "favorable"
_other(outcome) == IF outcome \in ADVERSE_OUTCOMES THEN "favorable" ELSE "adverse"

_agreeing_citations(outcome) == Pointing(_side(outcome))
_opposing_citations(outcome) == Pointing(_other(outcome))

\* split_evidence: the bundle's sides are taken from the model's prediction.
Supporting      == _agreeing_citations(predicted)
Counterevidence == _opposing_citations(predicted)

cited_document_ids == kept \cup guidance

\* Every number a text states, in numerals or in words, is within tolerance of
\* a verified value.
is_verified(text) == text.prose

\* The k highest-scoring members of S, the earlier one first on a tie.
Outranks(i, j) == \/ retrieved[i].score > retrieved[j].score
                  \/ retrieved[i].score = retrieved[j].score /\ i < j
Strongest(S, k) == {i \in S : Cardinality({j \in S : Outranks(j, i)}) < k}

\* An account with nothing left degrades; ForecastGraph models that path.
Screen ==
    /\ pc = "screen"
    /\ kept' = {i \in DOMAIN retrieved : ~citation_violation(retrieved[i])}
    /\ pc' = IF kept' = {} THEN "degraded" ELSE "gate"
    /\ UNCHANGED <<inputs, fired, search_, decision, attempts>>

----------------------------------------------------------------------------
\* The conflict gate: a rule whose metric or median is missing is skipped.

Known(names) == \A n \in names : reading[n] # Missing

_qualitative_stance ==
    LET adverse   == Cardinality(Pointing("adverse"))
        favorable == Cardinality(Pointing("favorable"))
    IN IF adverse + favorable < MIN_DIRECTIONAL_CITATIONS THEN "unclear"
       ELSE IF adverse > favorable THEN "adverse"
       ELSE IF favorable > adverse THEN "favorable" ELSE "split"

_band_versus_stance == _qualitative_stance = _other(predicted)

_usage_versus_sponsor ==
    Known({"trend", "lost"}) /\ reading.trend > 0 /\ reading.lost >= 1

_adoption_versus_good_news ==
    /\ Known({"level", "good", "median"})
    /\ reading.level < reading.median /\ reading.good >= 1

_strength_versus_bad_news ==
    /\ Known({"trend", "mood", "bad"})
    /\ reading.trend >= 0 /\ reading.mood > 0 /\ reading.bad >= 1

_onboarding_versus_adoption ==
    /\ Known({"unfinished", "level", "median"})
    /\ reading.unfinished >= 1 /\ reading.level > reading.median

RunnersUp == {distribution[o] : o \in Outcomes \ {predicted}}
_near_tie == distribution[predicted] - Max(RunnersUp) < TIE_MARGIN

_passages_split == /\ Material(Pointing("adverse")) # {}
                   /\ Material(Pointing("favorable")) # {}

_both_sides_material == Material(Supporting) # {} /\ Material(Counterevidence) # {}

CONFLICT_RULES ==
    {<<"BAND-STANCE", _band_versus_stance>>,
     <<"USAGE-SPONSOR", _usage_versus_sponsor>>,
     <<"ADOPTION-NEWS", _adoption_versus_good_news>>,
     <<"STRENGTH-BAD-NEWS", _strength_versus_bad_news>>,
     <<"ONBOARDING-ADOPTION", _onboarding_versus_adoption>>,
     <<"NEAR-TIE", _near_tie>>,
     <<"PASSAGE-SPLIT", _passages_split>>,
     <<"BOTH-SIDES", _both_sides_material>>}

severity_for(rules) ==
    LET count == Cardinality(rules)
    IN CASE count = 0 -> "none"
         [] count >= 3 \/ ("NEAR-TIE" \in rules /\ count > 1) -> "severe"
         [] count = 2 /\ "NEAR-TIE" \notin rules -> "moderate"
         [] OTHER -> "low"

ConflictGate ==
    /\ pc = "gate"
    /\ fired' = {r[1] : r \in {s \in CONFLICT_RULES : s[2]}}
    /\ pc' = IF fired' = {} THEN "draft" ELSE "generate"
    /\ UNCHANGED <<inputs, kept, search_, decision, attempts>>

----------------------------------------------------------------------------
\* One candidate per outcome: the deterministic floor, and what a model argues
\* in its place. The outcome set and the priors are never the model's.

\* Mutant: evidence that points neither way is not cited.
deterministic_candidate_silent(outcome) ==
    LET opposing == Strongest(_opposing_citations(outcome), 2)
    IN [supports  |-> Strongest(_agreeing_citations(outcome), MAX_CANDIDATE_CITATIONS),
        counters  |-> opposing,
        strongest |-> IF opposing = {} THEN Unnamed
                      ELSE CHOOSE i \in Strongest(opposing, 1) : TRUE,
        prose |-> TRUE, boasts |-> FALSE, source |-> "deterministic"]

deterministic_candidate(outcome) ==
    LET agreeing   == Strongest(_agreeing_citations(outcome), MAX_CANDIDATE_CITATIONS)
        opposing   == Strongest(_opposing_citations(outcome), 2)
        considered == Strongest(Pointing("neutral"), MAX_CANDIDATE_CITATIONS)
    IN [supports  |-> IF agreeing = {} /\ opposing = {} THEN considered ELSE agreeing,
        counters  |-> opposing,
        strongest |-> IF opposing = {} THEN Unnamed
                      ELSE CHOOSE i \in Strongest(opposing, 1) : TRUE,
        prose |-> TRUE, boasts |-> FALSE, source |-> "deterministic"]

Floor == [o \in Outcomes |-> deterministic_candidate(o)]

\* No provider, no budget left, or a generation that failed.
GenerateFloor ==
    /\ pc = "generate"
    /\ candidates' = Floor
    /\ pc' = "search"
    /\ UNCHANGED <<inputs, kept, fired, result, decision, attempts>>

\* An outcome the model leaves out, or argues with no rationale, keeps its floor.
Argued(o, argument) ==
    IF argument.empty THEN deterministic_candidate(o)
    ELSE [supports |-> argument.supports, counters |-> argument.counters,
          strongest |-> argument.strongest, prose |-> argument.prose,
          boasts |-> argument.boasts, source |-> "model"]

GenerateArgued ==
    /\ pc = "generate" /\ provider
    /\ \E draft \in [Outcomes -> Arguments] :
          candidates' = [o \in Outcomes |-> Argued(o, draft[o])]
    /\ pc' = "search"
    /\ UNCHANGED <<inputs, kept, fired, result, decision, attempts>>

----------------------------------------------------------------------------
\* The critic. An invalid branch scores zero and cannot survive.

CitesRetrieved(c) == c.supports \cup c.counters \subseteq cited_document_ids
Omits(o, c) == _opposing_citations(o) # {} /\ c.counters = {}

hard_checks(o, c) == is_verified(c) /\ CitesRetrieved(c) /\ ~Omits(o, c)

Share(part, whole) == (Unit * Cardinality(part \cap whole)) \div Cardinality(whole)

grounding(o, c) ==
    IF _agreeing_citations(o) = {} THEN 0 ELSE Share(c.supports, _agreeing_citations(o))

completeness(o, c) ==
    IF _opposing_citations(o) = {} THEN Unit ELSE Share(c.counters, _opposing_citations(o))

resolution(o, c) ==
    IF c.strongest # Blank /\ (c.counters # {} \/ _opposing_citations(o) = {})
    THEN Unit ELSE 0

plausibility(o) == (Unit * distribution[o]) \div Max({distribution[p] : p \in Outcomes})

score_candidate(o, c) ==
    grounding(o, c) + completeness(o, c) + resolution(o, c) + plausibility(o)
        + IF c.boasts THEN 0 ELSE Unit

evaluate(o, c) == IF hard_checks(o, c) THEN score_candidate(o, c) ELSE 0

\* Mutant: the child is asked, and its answer is not recorded.
_stress_child_unrecorded(o, c) ==
    IF _opposing_citations(o) = {} THEN [c EXCEPT !.strongest = Unnamed] ELSE c

\* The child names the strongest verified reason the branch could be wrong.
_stress_child(o, c) ==
    LET worst == Strongest(_opposing_citations(o), 1)
    IN IF worst = {} THEN [c EXCEPT !.strongest = Unnamed]
       ELSE [c EXCEPT !.counters = @ \cup worst,
                      !.strongest = CHOOSE i \in worst : TRUE]

\* _rank: best first, equal scores by name. First(S, k): its first k branches.
Ranks(score, o, p) == \/ score[o] > score[p]
                      \/ score[o] = score[p] /\ Place(o) < Place(p)
First(score, S, k) ==
    {o \in S : Cardinality({p \in S : Ranks(score, p, o)}) < k}

Abstains(children, voted) ==
    [winner |-> "none", survivors |-> children, voted |-> voted]
Selects(o, children, voted) ==
    [winner |-> o, survivors |-> children, voted |-> voted]

\* Mutant: the re-scored leader is released whatever the gap.
_consistency_vote_any(lead, leader, children) == Selects(leader, children, TRUE)

\* The critic has no position to be biased from: re-scored, the gap is the same.
_consistency_vote(lead, leader, children) ==
    IF lead > TIE_BAND THEN Selects(leader, children, TRUE)
    ELSE Abstains(children, TRUE)

\* A lead of exactly the band is a tie or not as floating point rounds it.
Judged(score, still, children) ==
    LET leader == CHOOSE o \in First(score, still, 1) : TRUE
        lead   == IF Cardinality(still) = 1 THEN TIE_BAND + 1
                  ELSE score[leader] - Max({score[o] : o \in still \ {leader}})
    IN IF score[leader] < MINIMUM_WINNING_SCORE THEN {Abstains(children, FALSE)}
       ELSE (IF lead >= TIE_BAND THEN {Selects(leader, children, FALSE)} ELSE {})
            \cup (IF lead <= TIE_BAND THEN {_consistency_vote(lead, leader, children)}
                  ELSE {})

search(branch) ==
    LET depth_one == [o \in Outcomes |-> evaluate(o, branch[o])]
        valid     == {o \in Outcomes : hard_checks(o, branch[o])}
        beam      == First(depth_one, valid, TOT_BEAM_WIDTH)
        children  == [o \in beam |-> _stress_child(o, branch[o])]
        depth_two == [o \in beam |-> evaluate(o, children[o])]
        still     == {o \in beam : hard_checks(o, children[o])}
    IN IF still = {} THEN {Abstains(children, FALSE)}
       ELSE Judged(depth_two, still, children)

\* _decision_from_candidate: the winner's citations, the bundle's evidence.
FromCandidate(o, c) ==
    [outcome |-> o, cites |-> c.supports \cup c.counters, prose |-> c.prose,
     source |-> c.source, by |-> "tree_of_thought"]

TotAdjudication ==
    /\ pc = "search"
    /\ result' \in search(candidates)
    /\ LET w == result'.winner
       IN IF w = "none" THEN pc' = "abstained" /\ UNCHANGED decision
          ELSE pc' = "verify" /\ decision' = FromCandidate(w, result'.survivors[w])
    /\ UNCHANGED <<inputs, kept, fired, candidates, attempts>>

----------------------------------------------------------------------------
\* The linear narrative, and the replay every narrative goes through.

deterministic_draft(outcome, by) ==
    [outcome |-> outcome, cites |-> cited_document_ids, prose |-> TRUE,
     source |-> "deterministic", by |-> by]

FastAdjudication ==
    /\ pc = "draft"
    /\ \/ decision' = deterministic_draft(predicted, "linear")
       \/ provider /\ \E n \in Narratives :
             decision' = [outcome |-> predicted, cites |-> n.cites, prose |-> n.prose,
                          source |-> "model", by |-> "linear"]
    /\ pc' = "verify"
    /\ UNCHANGED <<inputs, kept, fired, search_, attempts>>

verify_output(d) ==
    /\ is_verified(d)
    /\ d.cites \subseteq cited_document_ids
    /\ cited_document_ids # {} => d.cites # {}

\* A winner of the search is never drafted again: its outcome would be lost.
Verify ==
    /\ pc = "verify"
    /\ attempts' = attempts + 1
    /\ pc' = IF verify_output(decision) THEN "released"
             ELSE IF decision.by = "linear" /\ attempts' <= MAX_OUTPUT_REGENERATIONS
             THEN "draft" ELSE "fallback"
    /\ UNCHANGED <<inputs, kept, fired, search_, decision>>

SafeFallback ==
    /\ pc = "fallback"
    /\ decision' = deterministic_draft(decision.outcome, decision.by)
    /\ pc' = "released"
    /\ UNCHANGED <<inputs, kept, fired, search_, attempts>>

Settled == pc \in {"degraded", "abstained", "released"}
Finished == Settled /\ UNCHANGED deliberation_vars

DeliberationNext ==
    \/ Screen \/ ConflictGate \/ GenerateFloor \/ GenerateArgued
    \/ TotAdjudication \/ FastAdjudication \/ Verify \/ SafeFallback
    \/ Finished

DeliberationSpec == DeliberationInit /\ [][DeliberationNext]_deliberation_vars

----------------------------------------------------------------------------
\* Properties.

Won == result.winner # "none"
Winner == result.survivors[result.winner]

\* A selected outcome has been made to face the evidence against it: it rests
\* on screened evidence only, and the most relevant citation pointing the other
\* way, whatever the model argued, is named among its counterevidence.
WinnerFacesItsCounterargument ==
    Won => /\ Winner.prose /\ CitesRetrieved(Winner)
           /\ \A i \in _opposing_citations(result.winner) :
                 \E j \in Winner.counters \cap _opposing_citations(result.winner) :
                    /\ retrieved[j].score >= retrieved[i].score
                    /\ Winner.strongest = j

\* A selected outcome leads every branch that passed the hard checks by the tie
\* band, the branches the beam dropped before their stress test included, and
\* no outcome is ever released after a consistency vote.
WinnerLeadsEveryBranch ==
    Won => /\ ~result.voted
           /\ \A o \in Outcomes \ {result.winner} :
                 hard_checks(o, candidates[o]) =>
                    evaluate(result.winner, Winner)
                        >= evaluate(o, candidates[o]) + TIE_BAND

\* With deterministic candidates the search overrules the forecaster only for
\* the other side, and only when a verified citation points that way.
OverruledOnEvidence ==
    Won /\ (\A o \in Outcomes : candidates[o].source = "deterministic")
        /\ result.winner # predicted
        => /\ result.winner \in ADVERSE_OUTCOMES <=> predicted \notin ADVERSE_OUTCOMES
           /\ _agreeing_citations(result.winner) # {}

\* What is composed from verified values is never rejected: no deterministic
\* branch fails a hard check, and no deterministic narrative needs replacing.
FloorHolds ==
    /\ candidates # NoOne =>
          \A o \in Outcomes : candidates[o].source = "deterministic"
                              => hard_checks(o, candidates[o])
    /\ pc \in {"draft", "fallback"} => decision.source # "deterministic"
=============================================================================
