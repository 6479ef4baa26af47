------------------------ MODULE StructuredGeneration ------------------------
(***************************************************************************)
(* Structured generation over one shared provider object: the ladder of    *)
(* output modes an OpenAICompatibleGenerator walks, the single repair of   *)
(* generate_structured, what a failure is charged, and the three callers   *)
(* that fall back to deterministic text (llm/openai_compatible.py,         *)
(* llm/base.py, agents/orchestrator.py, agents/forecast_adjudicator.py).   *)
(*                                                                         *)
(* Runs and scan workers are threads that share the generator. _mode is    *)
(* read and written without a lock, once per action below: by _messages,   *)
(* by _response_format, twice by _step_down, and by _create.               *)
(***************************************************************************)
EXTENDS Integers, Sequences, FiniteSets, SequencesExt

CONSTANTS
    Threads,
    PlanDrafts,     \* the kinds a planner's reply may name, in order
    CandidateDrafts,\* the outcomes a candidate reply may argue, in order
    OutcomeClasses, \* the outcomes a candidate may be argued for
    MAX_SUB_GOALS,
    MaxCalls        \* bound: generations begun

ASSUME CallsAssumption == MaxCalls \in Nat
ASSUME SubGoalsAssumption == MAX_SUB_GOALS \in Nat \ {0}

_LADDER == <<"json_schema", "json_object", "prompt">>
Modes   == {"json_schema", "json_object", "prompt"}
Rank    == [m \in Modes |-> CASE m = "json_schema" -> 1
                              [] m = "json_object" -> 2
                              [] m = "prompt" -> 3]
MAX_REPAIR_ATTEMPTS == 1

VARIABLES
    requested,  \* structured_output: "auto" or an explicit mode
    mode,       \* _mode, shared
    gen,        \* [thread -> its generation in hand or last ended]
    refused,    \* history: modes the provider has refused
    contended,  \* history: two generations have overlapped
    calls       \* generations begun

vars == <<requested, mode, gen, refused, contended, calls>>

Fresh == [at      |-> "idle",      \* what the thread does next
          role    |-> "draft",     \* the planner, candidate generation, the drafter
          attempt |-> 1,           \* 2 for the repair
          told    |-> FALSE,       \* the messages carry the schema
          format  |-> "prompt",    \* the response_format sent
          next    |-> "prompt",    \* what _step_down returned
          total   |-> 0,           \* replies generate_structured added up
          billed  |-> 0,           \* external: replies the provider billed
          last    |-> "none",      \* external: how the last request ended
          charged |-> 0,           \* the usage the caller returns, in replies
          result  |-> "none",      \* then "model", "deterministic" or "raised"
          plan    |-> <<>>,        \* what a planner returned
          alone   |-> TRUE]        \* history: no other generation ran meanwhile

Running(t) == gen[t].at # "idle"

\* What is left of a generation once it has ended.
Ended(g, result, charge) ==
    [Fresh EXCEPT !.role = g.role, !.billed = g.billed, !.last = g.last,
                  !.alone = g.alone, !.result = result, !.charged = charge]

Init ==
    /\ requested \in Modes \cup {"auto"}
    /\ mode = IF requested = "auto" THEN _LADDER[1] ELSE requested
    /\ gen = [t \in Threads |-> Fresh]
    /\ refused = {} /\ contended = FALSE
    /\ calls = 0

----------------------------------------------------------------------------
\* orchestrator.py: the plan of a profile, and the plan of a reply. A kind
\* named twice and the guidance the planner may not drop are skipped.

DeterministicPlans ==
    {<<"adoption", "support", third, "playbook_guidance">> :
        third \in {"relationship", "external_context"}}

Chosen(draft) ==
    {i \in DOMAIN draft : /\ draft[i] # "playbook_guidance"
                          /\ \A j \in 1..(i - 1) : draft[j] # draft[i]}

PlanOf(draft) ==
    LET order == SetToSortSeq(Chosen(draft), <)
        kept  == [i \in DOMAIN order |-> draft[order[i]]]
    IN  Append(SubSeq(kept, 1, IF Len(kept) < MAX_SUB_GOALS THEN Len(kept)
                                                           ELSE MAX_SUB_GOALS - 1),
               "playbook_guidance")

----------------------------------------------------------------------------
\* The three callers.

\* What a caller falls back to; only a planner returns a plan.
Fallback(g, charge) ==
    {[Ended(g, "deterministic", charge) EXCEPT !.plan = p] :
        p \in IF g.role = "plan" THEN DeterministicPlans ELSE {<<>>}}

\* What a caller makes of a validated reply. A planner's reply with no usable
\* goal and a candidate reply that argues no known outcome fall back.
Accepted(g, total) ==
    CASE g.role = "draft" -> {Ended(g, "model", total)}
      [] g.role = "candidates" ->
            {Ended(g, IF ToSet(draft) \cap OutcomeClasses # {} THEN "model" ELSE "deterministic",
                   total) : draft \in CandidateDrafts}
      [] g.role = "plan" ->
            {[Ended(g, "model", total) EXCEPT !.plan = PlanOf(draft)] :
                draft \in {d \in PlanDrafts : Chosen(d) # {}}}
            \cup IF \E d \in PlanDrafts : Chosen(d) = {} THEN Fallback(g, total) ELSE {}

\* use_model is false once the run's budget is spent: nothing is asked.
Unasked(t, who) ==
    /\ \E g \in Fallback([Fresh EXCEPT !.role = who], 0) : gen' = [gen EXCEPT ![t] = g]
    /\ UNCHANGED contended

Ask(t, who) ==
    LET Others == {u \in Threads : Running(u)}
    IN  /\ gen' = [u \in Threads |->
                      IF u = t THEN [Fresh EXCEPT !.role = who, !.at = "messages",
                                                  !.alone = Others = {}]
                      ELSE IF u \in Others THEN [gen[u] EXCEPT !.alone = FALSE]
                      ELSE gen[u]]
        /\ contended' = (contended \/ Others # {})

Begin(t) ==
    /\ ~Running(t) /\ calls < MaxCalls
    /\ calls' = calls + 1
    /\ \E who \in {"plan", "candidates", "draft"} : Unasked(t, who) \/ Ask(t, who)
    /\ UNCHANGED <<requested, mode, refused>>

----------------------------------------------------------------------------
\* One request. The repair quotes the schema in its input whatever the mode.

\* Mutant: only the weakest mode writes the schema into the messages.
_messages_prompt_only(t) ==
    /\ gen[t].at = "messages"
    /\ gen' = [gen EXCEPT ![t].told = gen[t].attempt = 2 \/ mode = "prompt",
                          ![t].at = "format"]
    /\ UNCHANGED <<requested, mode, refused, contended, calls>>

_messages(t) ==
    /\ gen[t].at = "messages"
    /\ gen' = [gen EXCEPT ![t].told = gen[t].attempt = 2 \/ mode # "json_schema",
                          ![t].at = "format"]
    /\ UNCHANGED <<requested, mode, refused, contended, calls>>

_response_format(t) ==
    /\ gen[t].at = "format"
    /\ gen' = [gen EXCEPT ![t].format = mode, ![t].at = "asked"]
    /\ UNCHANGED <<requested, mode, refused, contended, calls>>

\* External: the server refuses the format, or the request in words that the
\* signals take for that.
Refuse(t) ==
    /\ gen[t].at = "asked"
    /\ refused' = refused \cup {gen[t].format}
    /\ gen' = [gen EXCEPT ![t].last = "refused", ![t].at = "check"]
    /\ UNCHANGED <<requested, mode, contended, calls>>

\* GenerationError of the provider, of a reply without choices and of an empty
\* one: it carries no usage, and the replies added up so far are lost with it.
Fails(t, how, bill) ==
    /\ \E g \in Fallback([gen[t] EXCEPT !.last = how, !.billed = @ + bill], 0) :
          gen' = [gen EXCEPT ![t] = g]
    /\ UNCHANGED <<requested, mode, refused, contended, calls>>

\* A failure whose text is not a refusal, a timeout included.
Break(t) == gen[t].at = "asked" /\ Fails(t, "error", 0)

Empty(t) ==
    /\ gen[t].at = "asked"
    /\ Fails(t, "empty", 1)

\* A model that was never shown the schema cannot satisfy it.
Valid(t) ==
    /\ gen[t].at = "asked"
    /\ gen[t].told \/ gen[t].format = "json_schema"
    /\ LET g == [gen[t] EXCEPT !.last = "valid", !.billed = @ + 1]
       IN  \E accepted \in Accepted(g, g.total + 1) :
              gen' = [gen EXCEPT ![t] = accepted]
    /\ UNCHANGED <<requested, mode, refused, contended, calls>>

\* Mutant: the first reply's usage is not added to the second's.
Invalid_unsummed(t) ==
    /\ gen[t].at = "asked"
    /\ LET g == [gen[t] EXCEPT !.last = "invalid", !.billed = @ + 1, !.total = 1]
       IN  IF g.attempt <= MAX_REPAIR_ATTEMPTS
           THEN gen' = [gen EXCEPT ![t] = [g EXCEPT !.attempt = @ + 1, !.at = "messages"]]
           ELSE \E f \in Fallback(g, g.total) : gen' = [gen EXCEPT ![t] = f]
    /\ UNCHANGED <<requested, mode, refused, contended, calls>>

\* generate_structured: one repair, then StructuredOutputError with the bill.
Invalid(t) ==
    /\ gen[t].at = "asked"
    /\ LET g == [gen[t] EXCEPT !.last = "invalid", !.billed = @ + 1, !.total = @ + 1]
       IN  IF g.attempt <= MAX_REPAIR_ATTEMPTS
           THEN gen' = [gen EXCEPT ![t] = [g EXCEPT !.attempt = @ + 1, !.at = "messages"]]
           ELSE \E f \in Fallback(g, g.total) : gen' = [gen EXCEPT ![t] = f]
    /\ UNCHANGED <<requested, mode, refused, contended, calls>>

----------------------------------------------------------------------------
\* Stepping down after a refusal: the guard, the index and the write each
\* find _mode as the other threads left it.

CheckStep(t) ==
    /\ gen[t].at = "check"
    /\ IF requested # "auto" \/ mode = "prompt"
       THEN Fails(t, "refused", 0)
       ELSE /\ gen' = [gen EXCEPT ![t].at = "index"]
            /\ UNCHANGED <<requested, mode, refused, contended, calls>>

\* Mutant: the step down skips a mode.
IndexStep_skips(t) ==
    /\ gen[t].at = "index"
    /\ gen' = [gen EXCEPT ![t].next = "prompt", ![t].at = "write"]
    /\ UNCHANGED <<requested, mode, refused, contended, calls>>

\* Past the end of the ladder the subscript raises IndexError, which no caller
\* catches: the run that asked fails.
IndexStep(t) ==
    /\ gen[t].at = "index"
    /\ IF mode = "prompt"
       THEN gen' = [gen EXCEPT ![t] = Ended(gen[t], "raised", 0)]
       ELSE gen' = [gen EXCEPT ![t].next = _LADDER[Rank[mode] + 1], ![t].at = "write"]
    /\ UNCHANGED <<requested, mode, refused, contended, calls>>

\* Mutant: the next mode is asked for without being remembered.
WriteStep_forgets(t) ==
    /\ gen[t].at = "write"
    /\ gen' = [gen EXCEPT ![t].at = "messages"]
    /\ UNCHANGED <<requested, mode, refused, contended, calls>>

WriteStep(t) ==
    /\ gen[t].at = "write"
    /\ mode' = gen[t].next
    /\ gen' = [gen EXCEPT ![t].at = "messages"]
    /\ UNCHANGED <<requested, refused, contended, calls>>

Step(t) == \/ _messages(t) \/ _response_format(t)
           \/ Refuse(t) \/ Break(t) \/ Empty(t) \/ Valid(t) \/ Invalid(t)
           \/ CheckStep(t) \/ IndexStep(t) \/ WriteStep(t)

Next == \E t \in Threads : Begin(t) \/ Step(t)

\* A thread runs on, and the client's timeout makes the server answer.
Spec == Init /\ [][Next]_vars /\ \A t \in Threads : WF_vars(Step(t))

----------------------------------------------------------------------------
\* Properties.

\* A generation that overlaps no other sends the schema with every request, in
\* the messages or in the format, and is never killed by the ladder: it ends
\* in the model's text or in the deterministic one (openai_compatible.py:155).
LoneCallIsTold ==
    \A t \in Threads : gen[t].alone =>
        /\ gen[t].at = "asked" => gen[t].told \/ gen[t].format = "json_schema"
        /\ gen[t].result # "raised"

\* Until two generations have overlapped, the mode in use is the strongest one
\* the provider has not refused; an explicit mode is never left at all.
LadderIsEarned ==
    IF requested # "auto" THEN mode = requested
    ELSE ~contended => \A m \in Modes : Rank[m] < Rank[mode] => m \in refused

\* What a caller charges its run for is what the provider billed it, through
\* the repair and the fallbacks, unless the last request broke off without a
\* usable reply; and it is never more (base.py:137, 195).
BillIsComplete ==
    \A t \in Threads :
        /\ gen[t].charged <= gen[t].billed
        /\ gen[t].result \in {"model", "deterministic"} /\ gen[t].last \in {"valid", "invalid"} =>
              gen[t].charged = gen[t].billed

\* Every generation ends, however the threads rewrite each other's mode: a
\* stale write can climb the ladder again, but only so often.
CallsEnd == \A t \in Threads : Running(t) ~> ~Running(t)
=============================================================================
