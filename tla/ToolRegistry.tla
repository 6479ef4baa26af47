---------------------------- MODULE ToolRegistry ----------------------------
(***************************************************************************)
(* Tool calls: ToolRegistry.call of tools/registry.py, on behalf of the    *)
(* agents and of MCP sessions, and the lazily built retrieval service of   *)
(* tools/services.py that all calls of a process share.                    *)
(*                                                                         *)
(* A call runs its handler in an executor of its own.  The time a caller   *)
(* is prepared to wait may run out at any moment (Expire), but leaving the *)
(* executor's block still waits for the handler.                           *)
(***************************************************************************)
EXTENDS Integers, Sequences, FiniteSets, SequencesExt

CONSTANTS
    Calls,    \* calls of ToolRegistry.call, from any threads
    Requests, \* what they ask: [role, tool, agent, valid]
    Retries   \* retries after a transient error

ASSUME RetriesAssumption == Retries \in Nat

Attempts == 1..(Retries + 1)

DataTools == {"compute_account_metrics", "get_usage_series", "get_support_summary",
              "get_external_events"}
RetrievalTools == {"retrieve_account_evidence", "retrieve_knowledge"}
TOOLS == DataTools \cup RetrievalTools \cup {"get_account_profile", "get_prior_assessments"}

ROLE_ALLOWLIST ==
    [orchestrator         |-> {"get_account_profile", "get_prior_assessments"},
     quantitative_analyst |-> DataTools \cup {"get_account_profile"},
     evidence_retriever   |-> RetrievalTools \cup {"get_account_profile"},
     forecast_adjudicator |-> {}]

\* What the agents of the graph call, and under which role.
AgentTools ==
    [orchestrator         |-> {"get_account_profile", "get_prior_assessments"},
     quantitative_analyst |-> DataTools,
     evidence_retriever   |-> RetrievalTools,
     forecast_adjudicator |-> {}]

Request == [role: DOMAIN ROLE_ALLOWLIST, tool: TOOLS \cup {"unknown"},
            agent: BOOLEAN, valid: BOOLEAN]

ASSUME RequestsAssumption ==
    /\ Requests \subseteq Request
    /\ \A q \in Requests : q.agent => q.tool \in AgentTools[q.role]

\* What a handler ends in.  "clash" is the TypeError of calling a service that
\* another thread has just built.
Transient == {"locked", "timeout"}
Answers   == {"ok", "not_found", "unavailable", "internal"} \cup Transient
Endings   == Answers \cup {"clash"}
Handling  == {"started", "found_factory", "building", "using"}
NoRequest == [role |-> "none", tool |-> "none", agent |-> FALSE, valid |-> FALSE]

VARIABLES
    request,    \* each call's arguments
    phase,      \* where its caller is
    attempt,    \* attempts, as call counts them
    job,        \* where the handler of each of its attempts is
    service,    \* ToolServices._retrieval: the factory, or what it built
    overlapped, \* ghost: calls that were in flight with another one
    answer,     \* ghost: what the caller got, an error's category or "ok"
    audit       \* _audit

vars == <<request, phase, attempt, job, service, overlapped, answer, audit>>

Ended(c)   == phase[c] \in {"returned", "raised"}
InFlight   == {c \in Calls : phase[c] \in {"waiting", "expired"}}
Running(c) == {a \in Attempts : job[c][a] \in Handling}
Needs(c)   == request[c].tool \in RetrievalTools

Init ==
    /\ request = [c \in Calls |-> NoRequest]
    /\ phase = [c \in Calls |-> "idle"]
    /\ attempt = [c \in Calls |-> 0]
    /\ job = [c \in Calls |-> [a \in Attempts |-> "none"]]
    /\ service = "factory"
    /\ overlapped = {}
    /\ answer = [c \in Calls |-> "none"]
    /\ audit = <<>>

----------------------------------------------------------------------------
\* Authorisation, then validation.
Refusal(q) ==
    IF q.tool \notin TOOLS THEN "unknown_tool"
    ELSE IF q.tool \notin ROLE_ALLOWLIST[q.role] THEN "forbidden"
    ELSE IF ~q.valid THEN "validation" ELSE "none"

error_category(ending) == IF ending \in {"locked", "clash"} THEN "internal" ELSE ending

\* The audit line of a call that ends as `error`, and the caller's outcome.
Close(c, attempts, error) ==
    /\ audit' = Append(audit, [call |-> c, attempts |-> attempts, error |-> error])
    /\ answer' = [answer EXCEPT ![c] = error]
    /\ phase' = [phase EXCEPT ![c] = IF error = "ok" THEN "returned" ELSE "raised"]

\* A call that reaches no handler counts as one attempt.
Refuse(c, q) ==
    /\ phase[c] = "idle"
    /\ Refusal(q) # "none"
    /\ request' = [request EXCEPT ![c] = q]
    /\ Close(c, 1, Refusal(q))
    /\ UNCHANGED <<attempt, job, service, overlapped>>

Dispatch(c, q) ==
    /\ phase[c] = "idle"
    /\ Refusal(q) = "none"
    /\ request' = [request EXCEPT ![c] = q]
    /\ phase' = [phase EXCEPT ![c] = "waiting"]
    /\ attempt' = [attempt EXCEPT ![c] = 1]
    /\ job' = [job EXCEPT ![c][1] = "started"]
    /\ overlapped' = IF InFlight = {} THEN overlapped ELSE overlapped \cup InFlight \cup {c}
    /\ UNCHANGED <<service, answer, audit>>

----------------------------------------------------------------------------
\* Handlers (external but for _retrieval_service): what they read and compute
\* is free, how they end is not.

Becomes(c, a, stage) == job' = [job EXCEPT ![c][a] = stage]

HandlePlain(c, a) ==
    /\ ~Needs(c) /\ job[c][a] = "started"
    /\ \E ending \in Answers : Becomes(c, a, ending)
    /\ UNCHANGED <<request, phase, attempt, service, overlapped, answer, audit>>

\* if callable(self._retrieval): ...
FindService(c, a) ==
    /\ Needs(c) /\ job[c][a] = "started"
    /\ Becomes(c, a, IF service = "factory" THEN "found_factory" ELSE "using")
    /\ UNCHANGED <<request, phase, attempt, service, overlapped, answer, audit>>

\* ... self._retrieval() reads the attribute a second time.
CallFactory(c, a) ==
    /\ job[c][a] = "found_factory"
    /\ Becomes(c, a, IF service = "factory" THEN "building" ELSE "clash")
    /\ UNCHANGED <<request, phase, attempt, service, overlapped, answer, audit>>

\* The factory turns every failure into ToolUnavailableError, and stays.
Built(c, a) ==
    /\ job[c][a] = "building"
    /\ \/ service' = "built" /\ Becomes(c, a, "using")
       \/ UNCHANGED service /\ Becomes(c, a, "unavailable")
    /\ UNCHANGED <<request, phase, attempt, overlapped, answer, audit>>

UseService(c, a) ==
    /\ job[c][a] = "using"
    /\ \E ending \in Answers \ {"unavailable"} : Becomes(c, a, ending)
    /\ UNCHANGED <<request, phase, attempt, service, overlapped, answer, audit>>

Handler(c) ==
    \E a \in Attempts :
        \/ HandlePlain(c, a) \/ FindService(c, a) \/ CallFactory(c, a)
        \/ Built(c, a) \/ UseService(c, a)

----------------------------------------------------------------------------
\* The caller: _run_with_timeout and the retry loop around it.

Expire(c) ==
    /\ phase[c] = "waiting"
    /\ job[c][attempt[c]] \in Handling
    /\ phase' = [phase EXCEPT ![c] = "expired"]
    /\ UNCHANGED <<request, attempt, job, service, overlapped, answer, audit>>

\* Mutant: the executor is left without waiting for the handler.
Collectable_abandons(c) ==
    \/ phase[c] = "waiting" /\ job[c][attempt[c]] \in Endings
    \/ phase[c] = "expired"

\* The attempt is over: the executor's block is left when the handler is done.
Collectable(c) == c \in InFlight /\ job[c][attempt[c]] \in Endings

\* What the attempt amounts to for the caller; a late answer is dropped.
Ending(c) == IF phase[c] = "expired" THEN "timeout" ELSE job[c][attempt[c]]

\* Mutant: the retries are not counted.
Retry_uncounted(c) ==
    /\ Collectable(c)
    /\ Ending(c) \in Transient
    /\ job' = [job EXCEPT ![c][attempt[c]] = "started"]
    /\ phase' = [phase EXCEPT ![c] = "waiting"]
    /\ UNCHANGED <<request, attempt, service, overlapped, answer, audit>>

Retry(c) ==
    /\ Collectable(c)
    /\ Ending(c) \in Transient /\ attempt[c] <= Retries
    /\ attempt' = [attempt EXCEPT ![c] = @ + 1]
    /\ job' = [job EXCEPT ![c][attempt[c] + 1] = "started"]
    /\ phase' = [phase EXCEPT ![c] = "waiting"]
    /\ UNCHANGED <<request, service, overlapped, answer, audit>>

\* Mutant: the last attempt is not in the count yet when the call is audited.
Finish_undercounts(c) ==
    /\ Collectable(c)
    /\ Ending(c) \notin Transient \/ attempt[c] > Retries
    /\ Close(c, IF Ending(c) = "ok" \/ attempt[c] = 1 THEN attempt[c] ELSE attempt[c] - 1,
             error_category(Ending(c)))
    /\ UNCHANGED <<request, attempt, job, service, overlapped>>

Finish(c) ==
    /\ Collectable(c)
    /\ Ending(c) \notin Transient \/ attempt[c] > Retries
    /\ Close(c, attempt[c], error_category(Ending(c)))
    /\ UNCHANGED <<request, attempt, job, service, overlapped>>

Caller(c) == Expire(c) \/ Retry(c) \/ Finish(c)

Next == \E c \in Calls :
           \/ \E q \in Requests : Refuse(c, q) \/ Dispatch(c, q)
           \/ Handler(c) \/ Caller(c)

Spec == Init /\ [][Next]_vars
             /\ \A c \in Calls : WF_vars(Caller(c)) /\ WF_vars(Handler(c))
----------------------------------------------------------------------------
TypeOK ==
    /\ request \in [Calls -> Requests \cup {NoRequest}]
    /\ phase \in [Calls -> {"idle", "waiting", "expired", "returned", "raised"}]
    /\ attempt \in [Calls -> 0..(Retries + 1)]
    /\ job \in [Calls -> [Attempts -> {"none"} \cup Handling \cup Endings]]
    /\ service \in {"factory", "built"}
    /\ overlapped \subseteq Calls

\* The audit trail tells the truth however the calls of several threads
\* interleave: one line for each call that ended, none for one in flight, with
\* the attempts whose handler really was started and the outcome its caller got.
Started(c) == Cardinality({a \in Attempts : job[c][a] # "none"})
AuditIsFaithful ==
    /\ \A c \in Calls : Ended(c) <=> \E i \in DOMAIN audit : audit[i].call = c
    /\ \A i, j \in DOMAIN audit : audit[i].call = audit[j].call => i = j
    /\ \A i \in DOMAIN audit :
          LET c == audit[i].call
          IN /\ audit[i].error = answer[c]
             /\ audit[i].attempts = IF Started(c) = 0 THEN 1 ELSE Started(c)

\* A retry never runs beside the attempt it replaces, and no handler outlives
\* its call (_run_with_timeout leaves the executor's block only when it is done).
NoOrphanedWork ==
    \A c \in Calls : Cardinality(Running(c)) <= (IF c \in InFlight THEN 1 ELSE 0)

\* A call that was never in flight with another cannot fall into the race of
\* the lazily built service, whatever timed out and was retried.
LoneCallNeverClashes ==
    \A c \in Calls : (\E a \in Attempts : job[c][a] = "clash") => c \in overlapped

\* The allowlist covers what the agents call: no agent is ever turned away.
AgentsAreAuthorised ==
    \A c \in Calls : request[c].agent => answer[c] \notin {"forbidden", "unknown_tool"}

\* Every call ends, provided its handlers do.
CallsEnd == \A c \in Calls : phase[c] = "waiting" ~> Ended(c)

=============================================================================
