--------------------------- MODULE EvidenceProofs ---------------------------
(***************************************************************************)
(* Theorems about what the evidence of an assessment comes from: any       *)
(* number of tool calls with their retries and roles (ToolRegistry), and   *)
(* the two lanes for any account, request and drafted plan (EvidenceLanes).*)
(*                                                                         *)
(* ToolRegistry: IInv says that attempts are made in order, that calls in  *)
(* flight together know it, and that the trail agrees with the counts.     *)
(*                                                                         *)
(* EvidenceLanes: LanesInv says that the telemetry answers are the first   *)
(* of their list, cut at the date asked for, that what is left to search   *)
(* is the tail of the plan and what was found follows its head, and that   *)
(* the retry searches nothing the first round covered.                     *)
(***************************************************************************)
EXTENDS ToolRegistry, EvidenceLanes, FiniteSetTheorems, TLAPS

(***************************************************************************)
(* Tool calls.                                                             *)
(***************************************************************************)

\* Attempts are made in order, and only the last attempt of a call in flight
\* can have its handler running.
Jobs ==
    /\ \A c \in Calls, a \in Attempts : job[c][a] # "none" <=> a <= attempt[c]
    /\ \A c \in Calls, a \in Attempts :
          job[c][a] \in Handling => c \in InFlight /\ a = attempt[c]
    /\ \A c \in InFlight : attempt[c] >= 1
    /\ \A c \in Calls : phase[c] = "idle" => attempt[c] = 0

\* Calls that are in flight together know it, and so does one that found the
\* factory and will find what another call built of it.
Race ==
    /\ \A c, d \in InFlight : c # d => c \in overlapped
    /\ \A c \in Calls, a \in Attempts :
          service = "built" /\ job[c][a] = "found_factory" => c \in overlapped
    /\ LoneCallNeverClashes

\* What the trail says of the calls that ended.
CallOutcomes == {"none", "ok", "unknown_tool", "forbidden", "validation", "not_found",
             "unavailable", "internal", "timeout"}
Line == [call: Calls, attempts: Nat, error: CallOutcomes]
Trail ==
    /\ audit \in Seq(Line)
    /\ answer \in [Calls -> CallOutcomes]
    /\ \A c \in Calls : Ended(c) \/ answer[c] = "none"
    /\ \A c \in Calls : Ended(c) <=> \E i \in DOMAIN audit : audit[i].call = c
    /\ \A i, j \in DOMAIN audit : audit[i].call = audit[j].call => i = j
    /\ \A i \in DOMAIN audit :
          LET c == audit[i].call
          IN /\ audit[i].error = answer[c]
             /\ audit[i].attempts = IF attempt[c] = 0 THEN 1 ELSE attempt[c]

IInv == TypeOK /\ Jobs /\ Race /\ Trail /\ AgentsAreAuthorised

LEMMA Appended ==
    ASSUME NEW S, NEW s \in Seq(S), NEW e \in S
    PROVE  /\ Append(s, e) \in Seq(S)
           /\ DOMAIN Append(s, e) = DOMAIN s \cup {Len(s) + 1}
           /\ Len(s) + 1 \notin DOMAIN s
           /\ \A i \in DOMAIN s : Append(s, e)[i] = s[i]
           /\ Append(s, e)[Len(s) + 1] = e
  OBVIOUS

LEMMA InitInv == Init => IInv
  <1> SUFFICES ASSUME Init PROVE IInv
    OBVIOUS
  <1> USE RetriesAssumption
  <1>1. TypeOK
    BY DEF Init, TypeOK, Attempts
  <1>2. Jobs
    BY DEF Init, Jobs, Attempts, InFlight, Handling
  <1>3. Race
    BY DEF Init, Race, InFlight, LoneCallNeverClashes
  <1>4. Trail
    <2>1. audit \in Seq(Line) /\ \A i \in DOMAIN audit : FALSE
      BY DEF Init
    <2>2. answer \in [Calls -> CallOutcomes] /\ \A c \in Calls : answer[c] = "none" /\ ~Ended(c)
      BY DEF Init, Ended, CallOutcomes
    <2>3. \A c \in Calls : Ended(c) <=> \E i \in DOMAIN audit : audit[i].call = c
      BY <2>1, <2>2
    <2> QED BY <2>1, <2>2, <2>3 DEF Trail
  <1>5. AgentsAreAuthorised
    BY DEF Init, AgentsAreAuthorised
  <1> QED
    BY <1>1, <1>2, <1>3, <1>4, <1>5 DEF IInv

----------------------------------------------------------------------------
\* A line is added for a call that was not ended, with the attempts it made.
LEMMA Closing ==
    ASSUME IInv, NEW c \in Calls, NEW n \in Nat, NEW error \in CallOutcomes, Close(c, n, error),
           ~Ended(c), UNCHANGED attempt, n = IF attempt[c] = 0 THEN 1 ELSE attempt[c]
    PROVE  Trail'
  <1> DEFINE line == [call |-> c, attempts |-> n, error |-> error]
  <1>1. line \in Line
    BY DEF Line
  <1>2. /\ audit \in Seq(Line) /\ answer \in [Calls -> CallOutcomes]
        /\ audit' = Append(audit, line) /\ answer' = [answer EXCEPT ![c] = error]
        /\ phase' = [phase EXCEPT ![c] = IF error = "ok" THEN "returned" ELSE "raised"]
        /\ phase \in [Calls -> {"idle", "waiting", "expired", "returned", "raised"}]
    BY DEF IInv, Trail, TypeOK, Close
  <1>3. /\ audit' \in Seq(Line) /\ DOMAIN audit' = DOMAIN audit \cup {Len(audit) + 1}
        /\ Len(audit) + 1 \notin DOMAIN audit
        /\ \A i \in DOMAIN audit : audit'[i] = audit[i] /\ audit[i] \in Line
        /\ audit'[Len(audit) + 1] = line
    BY <1>1, <1>2, Appended
  <1>4. \A i \in DOMAIN audit : audit[i].call # c /\ audit[i].call \in Calls
    BY <1>2, <1>3 DEF IInv, Trail, Line
  <1>5. \A d \in Calls : Ended(d)' <=> Ended(d) \/ d = c
    BY <1>2 DEF Ended
  <1> HIDE DEF line
  <1>6. line.call = c /\ line.attempts = n /\ line.error = error
    BY DEF line
  <1>7. (\A d \in Calls : Ended(d) <=> \E i \in DOMAIN audit : audit[i].call = d)'
    <2> SUFFICES ASSUME NEW d \in Calls
                 PROVE  Ended(d)' <=> \E i \in DOMAIN audit' : audit'[i].call = d
      OBVIOUS
    <2>1. Ended(d) <=> \E i \in DOMAIN audit : audit[i].call = d
      BY DEF IInv, Trail
    <2>2. (\E i \in DOMAIN audit' : audit'[i].call = d)
             <=> (\E i \in DOMAIN audit : audit[i].call = d) \/ d = c
      BY <1>3, <1>6
    <2> QED BY <2>1, <2>2, <1>5
  <1>8. (\A i, j \in DOMAIN audit : audit[i].call = audit[j].call => i = j)'
    BY <1>3, <1>4, <1>6 DEF IInv, Trail
  <1>9. ASSUME NEW i \in DOMAIN audit'
        PROVE  /\ audit'[i].error = answer'[audit'[i].call]
               /\ audit'[i].attempts = IF attempt[audit'[i].call] = 0 THEN 1
                                       ELSE attempt[audit'[i].call]
    <2>1. CASE i \in DOMAIN audit
      <3>1. audit'[i] = audit[i] /\ answer'[audit[i].call] = answer[audit[i].call]
        BY <2>1, <1>2, <1>3, <1>4
      <3> QED BY <2>1, <3>1 DEF IInv, Trail
    <2>2. CASE i = Len(audit) + 1
      <3>1. answer'[c] = error
        BY <1>2
      <3> QED BY <2>2, <3>1, <1>3, <1>6
    <2> QED BY <1>3, <2>1, <2>2
  <1>10. answer' \in [Calls -> CallOutcomes]
    BY <1>2
  <1>11. (\A d \in Calls : Ended(d) \/ answer[d] = "none")'
    BY <1>2, <1>5 DEF IInv, Trail
  <1> QED
    BY <1>3, <1>7, <1>8, <1>9, <1>10, <1>11 DEF Trail

\* The trail does not notice what happens to a call in flight.
LEMMA CallsOfLines ==
    ASSUME audit \in Seq(Line)
    PROVE  \A i \in DOMAIN audit : audit[i].call \in Calls
  <1>1. \A i \in DOMAIN audit : audit[i] \in Line
    OBVIOUS
  <1> QED BY <1>1 DEF Line

LEMMA TrailKept ==
    ASSUME IInv, UNCHANGED <<audit, answer>>,
           \A d \in Calls : Ended(d)' <=> Ended(d),
           \A d \in Calls : Ended(d) => attempt'[d] = attempt[d]
    PROVE  Trail'
  <1>1. \A i \in DOMAIN audit : audit[i].call \in Calls
    BY CallsOfLines DEF IInv, Trail
  <1>2. \A i \in DOMAIN audit : attempt'[audit[i].call] = attempt[audit[i].call]
    BY <1>1 DEF IInv, Trail
  <1> QED
    BY <1>1, <1>2 DEF IInv, Trail

----------------------------------------------------------------------------
\* An agent's request is never refused for its tool.
LEMMA AgentTurnedAway ==
    ASSUME NEW q \in Requests, q.agent
    PROVE  Refusal(q) \in {"validation", "none"}
  <1>1. /\ q.role \in {"orchestrator", "quantitative_analyst", "evidence_retriever",
                       "forecast_adjudicator"}
        /\ q.tool \in AgentTools[q.role]
    BY RequestsAssumption DEF Request, ROLE_ALLOWLIST
  <1>2. q.tool \in TOOLS /\ q.tool \in ROLE_ALLOWLIST[q.role]
    BY <1>1 DEF AgentTools, ROLE_ALLOWLIST, TOOLS, DataTools, RetrievalTools
  <1> QED
    BY <1>2 DEF Refusal

LEMMA RefuseStep ==
    ASSUME IInv, NEW c \in Calls, NEW q \in Requests, Refuse(c, q) PROVE IInv'
  <1>1. /\ phase[c] = "idle" /\ Refusal(q) \in {"unknown_tool", "forbidden", "validation"}
        /\ request' = [request EXCEPT ![c] = q]
        /\ phase' = [phase EXCEPT ![c] = "raised"]
        /\ answer' = [answer EXCEPT ![c] = Refusal(q)]
        /\ Close(c, 1, Refusal(q))
        /\ UNCHANGED <<attempt, job, service, overlapped>>
    BY DEF Refuse, Close, Refusal
  <1>2. TypeOK'
    BY <1>1 DEF IInv, TypeOK
  <1>3. InFlight' = InFlight
    BY <1>1 DEF IInv, TypeOK, InFlight
  <1>4. Jobs'
    BY <1>1, <1>3 DEF IInv, Jobs, TypeOK
  <1>5. Race'
    BY <1>1, <1>3 DEF IInv, Race, LoneCallNeverClashes
  <1>6. Trail'
    <2>1. attempt[c] = 0 /\ ~Ended(c)
      BY <1>1 DEF IInv, Jobs, Ended
    <2>2. Refusal(q) \in CallOutcomes /\ 1 \in Nat /\ UNCHANGED attempt
      BY <1>1 DEF CallOutcomes
    <2>3. 1 = IF attempt[c] = 0 THEN 1 ELSE attempt[c]
      BY <2>1
    <2>4. PICK n \in Nat, error \in CallOutcomes :
              Close(c, n, error) /\ n = IF attempt[c] = 0 THEN 1 ELSE attempt[c]
      BY <1>1, <2>2, <2>3, Zenon
    <2> QED BY <2>1, <2>2, <2>4, Closing
  <1>7. AgentsAreAuthorised'
    BY <1>1, AgentTurnedAway DEF IInv, AgentsAreAuthorised, TypeOK, Trail
  <1> QED
    BY <1>2, <1>4, <1>5, <1>6, <1>7 DEF IInv

LEMMA DispatchStep ==
    ASSUME IInv, NEW c \in Calls, NEW q \in Requests, Dispatch(c, q) PROVE IInv'
  <1> USE RetriesAssumption
  <1>1. /\ phase[c] = "idle" /\ attempt[c] = 0 /\ Refusal(q) = "none"
        /\ request' = [request EXCEPT ![c] = q]
        /\ phase' = [phase EXCEPT ![c] = "waiting"]
        /\ attempt' = [attempt EXCEPT ![c] = 1]
        /\ job' = [job EXCEPT ![c][1] = "started"]
        /\ overlapped' = IF InFlight = {} THEN overlapped
                         ELSE overlapped \cup InFlight \cup {c}
        /\ UNCHANGED <<service, answer, audit>>
    BY DEF Dispatch, IInv, Jobs
  <1>2. InFlight' = InFlight \cup {c} /\ InFlight \subseteq Calls
    BY <1>1 DEF IInv, TypeOK, InFlight
  <1>3. TypeOK'
    BY <1>1, <1>2 DEF IInv, TypeOK, Attempts, Handling
  <1>4. 1 \in Attempts /\ \A d \in Calls, a \in Attempts :
            job'[d][a] = IF d = c /\ a = 1 THEN "started" ELSE job[d][a]
    BY <1>1 DEF IInv, TypeOK, Attempts
  <1>5. Jobs'
    BY <1>1, <1>2, <1>4 DEF IInv, Jobs, TypeOK, Attempts, Handling
  <1>6. Race'
    <2>1. overlapped \subseteq overlapped'
      BY <1>1
    <2>2. (\A d, e \in InFlight : d # e => d \in overlapped)'
      BY <1>1, <1>2 DEF IInv, Race
    <2>3. (\A d \in Calls, a \in Attempts :
              service = "built" /\ job[d][a] = "found_factory" => d \in overlapped)'
      BY <1>1, <1>4, <2>1 DEF IInv, Race
    <2>4. LoneCallNeverClashes'
      BY <1>4, <2>1 DEF IInv, Race, LoneCallNeverClashes
    <2> QED BY <2>2, <2>3, <2>4 DEF Race
  <1>7. Trail'
    BY <1>1, TrailKept DEF IInv, TypeOK, Ended
  <1>8. AgentsAreAuthorised'
    <2>1. answer[c] \notin {"forbidden", "unknown_tool"}
      BY <1>1 DEF IInv, Trail, Ended
    <2> QED BY <1>1, <2>1 DEF IInv, AgentsAreAuthorised, TypeOK
  <1> QED
    BY <1>3, <1>5, <1>6, <1>7, <1>8 DEF IInv

----------------------------------------------------------------------------
\* A handler moves: its call is in flight, and stays what it is to everyone else.
LEMMA HandlerStep ==
    ASSUME IInv, NEW c \in Calls, NEW a \in Attempts, NEW reached,
           job[c][a] \in Handling,
           reached \in (Handling \ {"started"}) \cup Endings,
           Becomes(c, a, reached),
           UNCHANGED <<request, phase, attempt, overlapped, answer, audit>>,
           service' \in {"factory", "built"},
           reached = "found_factory" => service' = "factory",
           reached = "clash" => c \in overlapped,
           service' = "built" => service = "built" \/ job[c][a] = "building"
    PROVE  IInv'
  <1>1. /\ c \in InFlight /\ a = attempt[c] /\ reached # "none"
        /\ InFlight' = InFlight /\ InFlight \subseteq Calls
    BY DEF IInv, Jobs, InFlight, Handling, Endings, Answers, Transient
  <1>2. \A d \in Calls, b \in Attempts :
            job'[d][b] = IF d = c /\ b = a THEN reached ELSE job[d][b]
    BY DEF Becomes, IInv, TypeOK
  <1>3. TypeOK'
    BY DEF Becomes, IInv, TypeOK
  <1>4. Jobs'
    <2>1. (\A d \in Calls, b \in Attempts : job[d][b] # "none" <=> b <= attempt[d])'
      <3>1. job[c][a] # "none"
        BY DEF Handling
      <3>2. \A d \in Calls, b \in Attempts : job'[d][b] # "none" <=> job[d][b] # "none"
        BY <1>1, <1>2, <3>1
      <3> QED BY <3>2 DEF IInv, Jobs
    <2>2. (\A d \in Calls, b \in Attempts :
              job[d][b] \in Handling => d \in InFlight /\ b = attempt[d])'
      BY <1>1, <1>2 DEF IInv, Jobs
    <2> QED BY <2>1, <2>2, <1>1 DEF IInv, Jobs
  <1>5. Race'
    <2>1. (\A d, e \in InFlight : d # e => d \in overlapped)'
      BY <1>1 DEF IInv, Race
    <2>2. (\A d \in Calls, b \in Attempts :
              service = "built" /\ job[d][b] = "found_factory" => d \in overlapped)'
      <3> SUFFICES ASSUME NEW d \in Calls, NEW b \in Attempts,
                          service' = "built", job'[d][b] = "found_factory"
                   PROVE  d \in overlapped
        OBVIOUS
      <3>1. ~(d = c /\ b = a) /\ job[d][b] = "found_factory"
        BY <1>2
      <3>2. d \in InFlight /\ b = attempt[d]
        BY <3>1 DEF IInv, Jobs, Handling
      <3> QED BY <3>1, <3>2, <1>1 DEF IInv, Race
    <2>3. LoneCallNeverClashes'
      BY <1>2 DEF IInv, Race, LoneCallNeverClashes
    <2> QED BY <2>1, <2>2, <2>3 DEF Race
  <1>6. Trail'
    BY TrailKept DEF Ended
  <1>7. AgentsAreAuthorised'
    BY DEF IInv, AgentsAreAuthorised
  <1> QED
    BY <1>3, <1>4, <1>5, <1>6, <1>7 DEF IInv

LEMMA HandlerInv ==
    ASSUME IInv, NEW c \in Calls, Handler(c) PROVE IInv'
  <1>0. service \in {"factory", "built"}
    BY DEF IInv, TypeOK
  <1>1. PICK a \in Attempts : \/ HandlePlain(c, a) \/ FindService(c, a) \/ CallFactory(c, a)
                             \/ Built(c, a) \/ UseService(c, a)
    BY DEF Handler
  <1>2. CASE HandlePlain(c, a)
    <2>1. PICK ending \in Answers : Becomes(c, a, ending)
      BY <1>2 DEF HandlePlain
    <2>2. ending \in Endings /\ ending # "clash" /\ ending # "found_factory"
      BY DEF Answers, Endings, Transient
    <2>3. /\ job[c][a] \in Handling
          /\ UNCHANGED <<request, phase, attempt, service, overlapped, answer, audit>>
      BY <1>2 DEF HandlePlain, Handling
    <2> QED BY <1>0, <2>1, <2>2, <2>3, HandlerStep
  <1>3. CASE FindService(c, a)
    <2>1. PICK reached \in {"found_factory", "using"} :
              Becomes(c, a, reached) /\ (reached = "found_factory" => service = "factory")
      BY <1>3 DEF FindService
    <2>2. /\ job[c][a] \in Handling
          /\ UNCHANGED <<request, phase, attempt, service, overlapped, answer, audit>>
          /\ reached \in Handling \ {"started"} /\ reached # "clash"
      BY <1>3, <2>1 DEF FindService, Handling
    <2> QED BY <1>0, <2>1, <2>2, HandlerStep
  <1>4. CASE CallFactory(c, a)
    <2>1. PICK reached \in {"building", "clash"} :
              Becomes(c, a, reached) /\ (reached = "clash" => service # "factory")
      BY <1>4 DEF CallFactory
    <2>2. /\ job[c][a] = "found_factory"
          /\ UNCHANGED <<request, phase, attempt, service, overlapped, answer, audit>>
      BY <1>4 DEF CallFactory
    <2>3. reached = "clash" => c \in overlapped
      BY <1>0, <2>1, <2>2 DEF IInv, Race
    <2>4. /\ job[c][a] \in Handling /\ reached # "found_factory"
          /\ reached \in (Handling \ {"started"}) \cup Endings
      BY <2>1, <2>2 DEF Handling, Endings
    <2> QED BY <1>0, <2>1, <2>2, <2>3, <2>4, HandlerStep
  <1>5. CASE Built(c, a)
    <2>1. PICK reached \in {"using", "unavailable"} : Becomes(c, a, reached)
      BY <1>5 DEF Built
    <2>2. /\ job[c][a] = "building" /\ (service' = "built" \/ service' = service)
          /\ UNCHANGED <<request, phase, attempt, overlapped, answer, audit>>
      BY <1>5 DEF Built
    <2>3. /\ job[c][a] \in Handling /\ reached # "found_factory" /\ reached # "clash"
          /\ reached \in (Handling \ {"started"}) \cup Endings
      BY <2>1, <2>2 DEF Handling, Endings, Answers
    <2> QED BY <1>0, <2>1, <2>2, <2>3, HandlerStep
  <1>6. CASE UseService(c, a)
    <2>1. PICK ending \in Answers : Becomes(c, a, ending)
      BY <1>6 DEF UseService
    <2>2. ending \in Endings /\ ending # "clash" /\ ending # "found_factory"
      BY DEF Answers, Endings, Transient
    <2>3. /\ job[c][a] \in Handling
          /\ UNCHANGED <<request, phase, attempt, service, overlapped, answer, audit>>
      BY <1>6 DEF UseService, Handling
    <2> QED BY <1>0, <2>1, <2>2, <2>3, HandlerStep
  <1> QED BY <1>1, <1>2, <1>3, <1>4, <1>5, <1>6

----------------------------------------------------------------------------
LEMMA ExpireStep ==
    ASSUME IInv, NEW c \in Calls, Expire(c) PROVE IInv'
  <1>1. /\ phase[c] = "waiting" /\ phase' = [phase EXCEPT ![c] = "expired"]
        /\ UNCHANGED <<request, attempt, job, service, overlapped, answer, audit>>
    BY DEF Expire
  <1>2. InFlight' = InFlight
    BY <1>1 DEF IInv, TypeOK, InFlight
  <1>3. TypeOK'
    BY <1>1 DEF IInv, TypeOK
  <1>4. Jobs'
    BY <1>1, <1>2 DEF IInv, Jobs, TypeOK
  <1>5. Race'
    BY <1>1, <1>2 DEF IInv, Race, LoneCallNeverClashes
  <1>6. Trail'
    BY <1>1, TrailKept DEF IInv, TypeOK, Ended
  <1>7. AgentsAreAuthorised'
    BY <1>1 DEF IInv, AgentsAreAuthorised
  <1> QED
    BY <1>3, <1>4, <1>5, <1>6, <1>7 DEF IInv

LEMMA RetryStep ==
    ASSUME IInv, NEW c \in Calls, Retry(c) PROVE IInv'
  <1> USE RetriesAssumption
  <1>1. /\ c \in InFlight /\ job[c][attempt[c]] \in Endings
        /\ attempt[c] \in Nat /\ attempt[c] >= 1 /\ attempt[c] <= Retries
        /\ attempt' = [attempt EXCEPT ![c] = @ + 1]
        /\ job' = [job EXCEPT ![c][attempt[c] + 1] = "started"]
        /\ phase' = [phase EXCEPT ![c] = "waiting"]
        /\ UNCHANGED <<request, service, overlapped, answer, audit>>
    BY DEF Retry, Collectable, IInv, TypeOK, Jobs
  <1>2. InFlight' = InFlight /\ InFlight \subseteq Calls /\ ~Ended(c) /\ ~Ended(c)'
    BY <1>1 DEF IInv, TypeOK, InFlight, Ended
  <1>3. attempt[c] \in Attempts /\ attempt[c] + 1 \in Attempts
    BY <1>1 DEF Attempts
  <1>4. TypeOK'
    <2>1. attempt' \in [Calls -> 0..(Retries + 1)]
      BY <1>1 DEF IInv, TypeOK
    <2>2. job' \in [Calls -> [Attempts -> {"none"} \cup Handling \cup Endings]]
      BY <1>1 DEF IInv, TypeOK, Handling
    <2> QED BY <1>1, <2>1, <2>2 DEF IInv, TypeOK
  <1>5. \A d \in Calls, b \in Attempts :
            job'[d][b] = IF d = c /\ b = attempt[c] + 1 THEN "started" ELSE job[d][b]
    BY <1>1 DEF IInv, TypeOK
  <1>6. \A b \in Attempts : job[c][b] \notin Handling
    BY <1>1 DEF IInv, Jobs, Handling, Endings, Answers, Transient
  <1>7. \A d \in Calls : attempt'[d] = IF d = c THEN attempt[c] + 1 ELSE attempt[d]
    BY <1>1 DEF IInv, TypeOK
  <1>8. Jobs'
    <2>1. (\A d \in Calls, b \in Attempts : job[d][b] # "none" <=> b <= attempt[d])'
      BY <1>1, <1>3, <1>5, <1>7 DEF IInv, Jobs, TypeOK, Attempts
    <2>2. (\A d \in Calls, b \in Attempts :
              job[d][b] \in Handling => d \in InFlight /\ b = attempt[d])'
      BY <1>1, <1>2, <1>5, <1>6, <1>7 DEF IInv, Jobs
    <2>3. (\A d \in InFlight : attempt[d] >= 1)'
      BY <1>1, <1>2, <1>7 DEF IInv, Jobs
    <2>4. (\A d \in Calls : phase[d] = "idle" => attempt[d] = 0)'
      BY <1>1, <1>7 DEF IInv, Jobs, TypeOK
    <2> QED BY <2>1, <2>2, <2>3, <2>4 DEF Jobs
  <1>9. Race'
    BY <1>1, <1>2, <1>5 DEF IInv, Race, LoneCallNeverClashes
  <1>10. Trail'
    <2>1. \A d \in Calls : Ended(d)' <=> Ended(d)
      BY <1>1, <1>2 DEF IInv, TypeOK, Ended
    <2> QED BY <1>1, <1>2, <1>7, <2>1, TrailKept
  <1>11. AgentsAreAuthorised'
    BY <1>1 DEF IInv, AgentsAreAuthorised
  <1> QED
    BY <1>4, <1>8, <1>9, <1>10, <1>11 DEF IInv

LEMMA FinishStep ==
    ASSUME IInv, NEW c \in Calls, Finish(c) PROVE IInv'
  <1> DEFINE error == error_category(Ending(c))
  <1>1. /\ c \in InFlight /\ job[c][attempt[c]] \in Endings
        /\ Close(c, attempt[c], error)
        /\ attempt[c] \in Nat /\ attempt[c] >= 1 /\ ~Ended(c)
        /\ UNCHANGED <<request, attempt, job, service, overlapped>>
    BY DEF Finish, Collectable, IInv, TypeOK, Jobs, InFlight, Ended
  <1>2. error \in CallOutcomes /\ error \notin {"forbidden", "unknown_tool"}
    <2>1. Ending(c) \in {"ok", "not_found", "unavailable", "internal", "locked", "timeout", "clash"}
      BY <1>1 DEF Ending, Endings, Answers, Transient
    <2>2. error \in {"ok", "not_found", "unavailable", "internal", "timeout"}
      BY <2>1 DEF error_category
    <2> QED BY <2>2 DEF CallOutcomes
  <1> HIDE DEF error
  <1>3. /\ phase' = [phase EXCEPT ![c] = IF error = "ok" THEN "returned" ELSE "raised"]
        /\ answer' = [answer EXCEPT ![c] = error]
    BY <1>1 DEF Close
  <1>4. InFlight' = InFlight \ {c}
    BY <1>1, <1>3 DEF IInv, TypeOK, InFlight
  <1>5. TypeOK'
    BY <1>1, <1>3 DEF IInv, TypeOK
  <1>6. Jobs'
    <2>1. \A b \in Attempts : job[c][b] \notin Handling
      BY <1>1 DEF IInv, Jobs, Handling, Endings, Answers, Transient
    <2> QED BY <1>1, <1>3, <1>4, <2>1 DEF IInv, Jobs, TypeOK
  <1>7. Race'
    BY <1>1, <1>4 DEF IInv, Race, LoneCallNeverClashes
  <1>8. Trail'
    <2>1. attempt[c] = IF attempt[c] = 0 THEN 1 ELSE attempt[c]
      BY <1>1
    <2> QED BY <1>1, <1>2, <2>1, Closing
  <1>9. AgentsAreAuthorised'
    BY <1>1, <1>2, <1>3 DEF IInv, AgentsAreAuthorised, Trail
  <1> QED
    BY <1>5, <1>6, <1>7, <1>8, <1>9 DEF IInv

----------------------------------------------------------------------------
LEMMA StepInv == IInv /\ [Next]_vars => IInv'
  <1> SUFFICES ASSUME IInv, [Next]_vars PROVE IInv'
    OBVIOUS
  <1>1. CASE Next
    <2>1. PICK c \in Calls : \/ \E q \in Requests : Refuse(c, q) \/ Dispatch(c, q)
                            \/ Handler(c) \/ Caller(c)
      BY <1>1 DEF Next
    <2>2. CASE \E q \in Requests : Refuse(c, q) \/ Dispatch(c, q)
      BY <2>2, RefuseStep, DispatchStep
    <2>3. CASE Handler(c)
      BY <2>3, HandlerInv
    <2>4. CASE Caller(c)
      BY <2>4, ExpireStep, RetryStep, FinishStep DEF Caller
    <2> QED BY <2>1, <2>2, <2>3, <2>4
  <1>2. CASE UNCHANGED vars
    <2>1. UNCHANGED <<request, phase, attempt, job, service, overlapped, answer, audit>>
      BY <1>2 DEF vars
    <2>2. InFlight' = InFlight /\ (\A c \in Calls : Ended(c)' <=> Ended(c))
      BY <2>1 DEF InFlight, Ended
    <2>3. TypeOK' /\ Jobs' /\ AgentsAreAuthorised'
      BY <2>1, <2>2 DEF IInv, TypeOK, Jobs, AgentsAreAuthorised
    <2>4. Race'
      BY <2>1, <2>2 DEF IInv, Race, LoneCallNeverClashes
    <2>5. Trail'
      BY <2>1, <2>2, TrailKept
    <2> QED BY <2>3, <2>4, <2>5 DEF IInv
  <1> QED BY <1>1, <1>2

LEMMA AlwaysIInv == Spec => []IInv
  BY InitInv, StepInv, PTL DEF Spec

\* The attempts that were started are those up to the count.
LEMMA StartedCount ==
    ASSUME TypeOK, Jobs, NEW c \in Calls PROVE Started(c) = attempt[c]
  <1>1. attempt[c] \in 0..(Retries + 1)
    BY DEF TypeOK
  <1>2. {a \in Attempts : job[c][a] # "none"} = 1..attempt[c]
    BY <1>1, RetriesAssumption DEF Jobs, Attempts
  <1>3. Cardinality(1..attempt[c]) = attempt[c]
    BY <1>1, RetriesAssumption, FS_Interval
  <1> QED BY <1>2, <1>3 DEF Started

\* Every variable keeps its type; in particular no call makes more attempts
\* than ToolRegistry was given retries.
THEOREM TypeCorrect == Spec => []TypeOK
  <1>1. IInv => TypeOK
    BY DEF IInv
  <1> QED BY <1>1, AlwaysIInv, PTL

\* For any number of concurrent calls: the audit log has one line per ended
\* call, with the attempts really made and the outcome the caller got.
THEOREM Audited == Spec => []AuditIsFaithful
  <1>1. ASSUME IInv PROVE AuditIsFaithful
    <2>1. \A c \in Calls : Started(c) = attempt[c]
      BY <1>1, StartedCount DEF IInv
    <2>2. \A i \in DOMAIN audit : audit[i].call \in Calls
      BY <1>1, CallsOfLines DEF IInv, Trail
    <2>3. Trail
      BY <1>1 DEF IInv
    <2> QED BY <2>1, <2>2, <2>3 DEF Trail, AuditIsFaithful
  <1> QED BY <1>1, AlwaysIInv, PTL

\* For any number of calls and retries: a call has at most one handler running,
\* and none once it has ended.
THEOREM OneHandlerAtATime == Spec => []NoOrphanedWork
  <1>1. ASSUME IInv PROVE NoOrphanedWork
    <2> SUFFICES ASSUME NEW c \in Calls
                 PROVE  Cardinality(Running(c)) <= (IF c \in InFlight THEN 1 ELSE 0)
      BY DEF NoOrphanedWork
    <2>1. CASE c \in InFlight
      <3>1. Running(c) \subseteq {attempt[c]}
        BY <1>1 DEF IInv, Jobs, Running
      <3>2. IsFiniteSet({attempt[c]}) /\ Cardinality({attempt[c]}) = 1
        BY FS_Singleton
      <3>3. Cardinality(Running(c)) <= Cardinality({attempt[c]})
        BY <3>1, <3>2, FS_Subset
      <3> QED BY <2>1, <3>2, <3>3
    <2>2. CASE c \notin InFlight
      <3>1. Running(c) = {}
        BY <1>1, <2>2 DEF IInv, Jobs, Running
      <3> QED BY <2>2, <3>1, FS_EmptySet
    <2> QED BY <2>1, <2>2
  <1> QED BY <1>1, AlwaysIInv, PTL

\* Only calls that were in flight with another one can fall into the race of
\* the lazily built retrieval service.
THEOREM ClashNeedsOverlap == Spec => []LoneCallNeverClashes
  <1>1. IInv => LoneCallNeverClashes
    BY DEF IInv, Race
  <1> QED BY <1>1, AlwaysIInv, PTL

\* No agent is turned away for its role or its tool, whatever else is asked.
THEOREM AgentsPass == Spec => []AgentsAreAuthorised
  <1>1. IInv => AgentsAreAuthorised
    BY DEF IInv
  <1> QED BY <1>1, AlwaysIInv, PTL

(***************************************************************************)
(* The lanes.                                                              *)
(***************************************************************************)

\* A plan ends with the guidance, which comes once, like every other sub-goal.
WellPlanned(p) ==
    /\ Len(p) >= 2
    /\ p[Len(p)] = GUIDANCE_SUB_GOAL
    /\ \A i, j \in DOMAIN p : p[i] = p[j] => i = j

\* The observations are those of the plan, the guidance apart, in its order.
Follows(observations, p) ==
    /\ Len(observations) = Len(p) - 1
    /\ \A i \in DOMAIN observations : observations[i].subGoal = p[i]

\* The sub-goals a second round would search again.
Lacking(evidence) ==
    {evidence.observations[i].subGoal :
       i \in {j \in DOMAIN evidence.observations : ~Covered(evidence.observations[j])}}

Before   == {"validate_request", "load_context", "plan_sub_goals"}
Underway == {"lanes", "targeted_retry", "merge_evidence"}

LanesTyped ==
    /\ data \in Datasets /\ assessment \in Assessments
    /\ plan \in Seq(SubGoals)
    /\ left \in Seq(SubGoals) \cup {None}
    /\ found \in RetrievalEvidence
    /\ retrieval \in RetrievalEvidence \cup {None}
    /\ quant \in QuantitativeEvidence \cup {None}

\* The telemetry tools have answered in their order, for the date asked for.
InTurn ==
    /\ answers \in Seq({Response(TelemetryTools[i], assessment.asOf) : i \in 1..4})
    /\ Len(answers) <= 4
    /\ \A i \in DOMAIN answers :
          answers[i] = Response(TelemetryTools[i], assessment.asOf)

\* What holds by the stage the run is at.
Staged ==
    /\ stage \in Before => /\ quant = None /\ retrieval = None /\ left = None
                           /\ answers = <<>> /\ failed = {}
    /\ stage \in {"load_context", "plan_sub_goals"} \cup Underway => Valid(assessment.asOf)
    /\ stage \in Underway => WellPlanned(plan)
    /\ left # None => stage \in {"lanes", "targeted_retry"}
    /\ stage \in {"targeted_retry", "merge_evidence"} =>
          quant # None /\ retrieval # None /\ retrieval.available

\* The telemetry lane.
TelemetryWhole ==
    stage = "lanes" =>
        IF quant = None THEN "quantitative" \notin failed
        ELSE IF quant.available
        THEN /\ "quantitative" \notin failed
             /\ Len(answers) = Len(TelemetryTools)
             /\ \A i \in DOMAIN answers : answers[i].cutoff = quant.cutoff
        ELSE \/ "quantitative" \in failed \/ ~HasArtifact
             \/ \A d \in data.rows.usage_weekly : d > ExpectedCutoff

\* The retrieval lane: its searches so far are a prefix of the plan.
SearchesInTurn ==
    stage = "lanes" =>
        IF left = None
        THEN /\ retrieval # None
             /\ retrieval.available <=> "retrieval" \notin failed
        ELSE /\ retrieval = None /\ found.available /\ "retrieval" \notin failed
             /\ \E n \in 0..Len(plan) :
                   /\ left = SubSeq(plan, n + 1, Len(plan))
                   /\ Len(found.observations) = IF n = Len(plan) THEN n - 1 ELSE n
                   /\ \A i \in DOMAIN found.observations :
                         found.observations[i].subGoal = plan[i]

RetrievalWhole ==
    stage \in Underway /\ retrieval # None =>
        (retrieval.available => Follows(retrieval.observations, plan))

\* The retry searches only what the first round left without evidence.
RetryIsTargeted ==
    stage = "targeted_retry" =>
        /\ Lacking(retrieval) # {}
        /\ left # None =>
              /\ found.available
              /\ \A i \in DOMAIN left : left[i] \in Lacking(retrieval)
              /\ \A i \in DOMAIN found.observations :
                    found.observations[i].subGoal \in Lacking(retrieval)

\* Evidence dated no later than a cutoff.
Dated(evidence, cutoff) ==
    \A i \in DOMAIN evidence.observations :
       \A c \in evidence.observations[i].citations : c.date <= cutoff

SearchesDated ==
    /\ Dated(found, ExpectedCutoff)
    /\ retrieval # None => Dated(retrieval, ExpectedCutoff)

LanesInv == /\ LanesTyped /\ InTurn /\ Staged /\ TelemetryWhole /\ SearchesInTurn
            /\ RetrievalWhole /\ RetryIsTargeted /\ SearchesDated
----------------------------------------------------------------------------
\* Positions and the members a sequence has at them.

\* The ranks of a finite set of numbers run from one to its size.
LEMMA NthHasRank ==
    ASSUME NEW I \in SUBSET Int, IsFiniteSet(I), NEW k \in 1..Cardinality(I)
    PROVE  /\ Nth(I, k) \in I
           /\ Cardinality({j \in I : j <= Nth(I, k)}) = k
  <1> DEFINE upTo(i) == {j \in I : j <= i}
             rank == [i \in I |-> Cardinality(upTo(i))]
             N == Cardinality(I)
  <1>1. N \in Nat
    BY FS_CardinalityType
  <1>2. ASSUME NEW i \in I
        PROVE  /\ IsFiniteSet(upTo(i)) /\ Cardinality(upTo(i)) \in 1..N
    <2>1. upTo(i) \in SUBSET I
      OBVIOUS
    <2>2. {i} \in SUBSET upTo(i)
      OBVIOUS
    <2> HIDE DEF upTo
    <2>3. /\ IsFiniteSet(upTo(i)) /\ Cardinality(upTo(i)) \in Nat
          /\ Cardinality(upTo(i)) <= N
      BY <2>1, FS_Subset, FS_CardinalityType
    <2>4. Cardinality({i}) <= Cardinality(upTo(i)) /\ Cardinality({i}) = 1
      BY <2>2, <2>3, FS_Subset, FS_Singleton
    <2> QED
      BY <1>1, <2>3, <2>4
  <1>3. ASSUME NEW a \in I, NEW b \in I, a < b
        PROVE  Cardinality(upTo(a)) # Cardinality(upTo(b))
    <2>1. upTo(a) \in SUBSET upTo(b) /\ upTo(a) # upTo(b)
      <3>1. b \in upTo(b) /\ b \notin upTo(a)
        BY <1>3
      <3>2. ASSUME NEW j \in I, j <= a PROVE j <= b
        BY <1>3, <3>2
      <3> QED
        BY <3>1, <3>2
    <2>2. IsFiniteSet(upTo(b))
      BY <1>2
    <2> HIDE DEF upTo
    <2> QED
      BY <2>1, <2>2, FS_Subset
  <1>4. rank \in [I -> 1..N]
    BY <1>2
  <1>5. ASSUME NEW a \in I, NEW b \in I, rank[a] = rank[b] PROVE a = b
    <2>1. ~(a < b) /\ ~(b < a)
      BY <1>3, <1>5
    <2> QED
      BY <2>1
  <1> HIDE DEF rank
  <1>6. rank \in Injection(I, 1..N)
    BY <1>4, <1>5 DEF Injection, IsInjective
  <1>7. IsFiniteSet(1..N) /\ Cardinality(1..N) = N
    BY <1>1, FS_Interval
  <1> HIDE DEF N
  <1>8. rank \in Surjection(I, 1..N)
    BY <1>6, <1>7, FS_Injection DEF N
  <1>9. PICK i \in I : rank[i] = k
    BY <1>8 DEF Surjection, N
  <1>10. Cardinality(upTo(i)) = k
    BY <1>9 DEF rank
  <1> QED
    BY <1>10 DEF Nth

\* A finite set of numbers has a greatest element.
LEMMA HasGreatest ==
    ASSUME NEW I \in SUBSET Int, IsFiniteSet(I), I # {}
    PROVE  \E i \in I : \A j \in I : j <= i
  <1>1. Cardinality(I) \in Nat /\ Cardinality(I) # 0
    BY FS_CardinalityType, FS_EmptySet
  <1>2. PICK i \in I : Cardinality({j \in I : j <= i}) = Cardinality(I)
    <2>1. Cardinality(I) \in 1..Cardinality(I)
      BY <1>1
    <2> QED
      BY <2>1, NthHasRank
  <1>3. {j \in I : j <= i} = I
    BY <1>2, FS_Subset
  <1> QED
    BY <1>3

\* Picked returns the members at the positions and no others, each once.
LEMMA PickedMembers ==
    ASSUME NEW T, NEW s \in Seq(T), NEW I \in SUBSET DOMAIN s
    PROVE  /\ IsFiniteSet(I) /\ Cardinality(I) \in Nat
           /\ Picked(s, I) \in Seq(T)
           /\ Len(Picked(s, I)) = Cardinality(I)
           /\ \A k \in 1..Cardinality(I) : /\ Picked(s, I)[k] = s[Nth(I, k)]
                                           /\ Nth(I, k) \in I
           /\ \A k, l \in 1..Cardinality(I) : Nth(I, k) = Nth(I, l) => k = l
           /\ I # {} => Cardinality(I) >= 1
  <1>1. I \in SUBSET (1..Len(s)) /\ IsFiniteSet(1..Len(s))
    BY FS_Interval
  <1>2. I \in SUBSET Int /\ IsFiniteSet(I) /\ Cardinality(I) \in Nat
    BY <1>1, FS_Subset, FS_CardinalityType
  <1>3. \A k \in 1..Cardinality(I) : Nth(I, k) \in I
    BY <1>2, NthHasRank
  <1>4. \A k, l \in 1..Cardinality(I) : Nth(I, k) = Nth(I, l) => k = l
    <2>1. \A k \in 1..Cardinality(I) : Cardinality({j \in I : j <= Nth(I, k)}) = k
      BY <1>2, NthHasRank
    <2> QED
      BY <2>1
  <1>5. I # {} => Cardinality(I) >= 1
    BY <1>2, FS_EmptySet
  <1>6. \A k \in 1..Cardinality(I) : s[Nth(I, k)] \in T
    BY <1>1, <1>3
  <1>7. /\ Picked(s, I) \in Seq(T) /\ Len(Picked(s, I)) = Cardinality(I)
        /\ \A k \in 1..Cardinality(I) : Picked(s, I)[k] = s[Nth(I, k)]
    BY <1>2, <1>6 DEF Picked
  <1> QED
    BY <1>2, <1>3, <1>4, <1>5, <1>7

----------------------------------------------------------------------------
\* The cutoff and what a tool reads under it.

LEMMA Cutoffs ==
    ASSUME data \in Datasets, assessment \in Assessments
    PROVE  /\ effective_cutoff \in Int /\ ExpectedCutoff \in Int
           /\ _cutoff_for(assessment.asOf) = ExpectedCutoff
           /\ ExpectedCutoff <= effective_cutoff
           /\ effective_cutoff <= DATASET_AS_OF_DATE
           /\ Earlier(ExpectedCutoff, effective_cutoff) = ExpectedCutoff
           /\ assessment.asOf # None => assessment.asOf \in Int
  BY DatasetsAssumption, AsOfAssumption, HorizonAssumption
     DEF effective_cutoff, ExpectedCutoff, _cutoff_for, Earlier

LEMMA Facts ==
    ASSUME data \in Datasets, NEW f \in FactFamilies
    PROVE  /\ data.rows[f] \in SUBSET Int /\ IsFiniteSet(data.rows[f])
           /\ _account_facts(f) \in SUBSET data.rows[f]
           /\ \A d \in _account_facts(f) : d <= effective_cutoff
  BY DatasetsAssumption DEF _account_facts

\* A tool's rows: finite sets of dates no later than the cutoff it was cut at.
InTime(given) ==
    /\ given.cutoff = ExpectedCutoff
    /\ DOMAIN given.rows \in SUBSET FactFamilies
    /\ \A f \in DOMAIN given.rows : /\ given.rows[f] \in SUBSET data.rows[f]
                                    /\ \A d \in given.rows[f] : d <= ExpectedCutoff

LEMMA Read ==
    ASSUME data \in Datasets, assessment \in Assessments, NEW i \in 1..4
    PROVE  InTime(Response(TelemetryTools[i], assessment.asOf))
  <1> DEFINE asOf == assessment.asOf
  <1>1. CASE i = 1
    <2>1. Response(TelemetryTools[1], asOf) = build_features(ExpectedCutoff)
      BY Cutoffs DEF Response, TelemetryTools, compute_account_metrics
    <2>2. build_features(ExpectedCutoff).cutoff = ExpectedCutoff
      BY Cutoffs DEF build_features
    <2>3. DOMAIN build_features(ExpectedCutoff).rows = FactFamilies
      BY DEF build_features
    <2>4. ASSUME NEW f \in FactFamilies
          PROVE  /\ build_features(ExpectedCutoff).rows[f] \in SUBSET data.rows[f]
                 /\ \A d \in build_features(ExpectedCutoff).rows[f] : d <= ExpectedCutoff
      <3>1. build_features(ExpectedCutoff).rows[f]
              \in SUBSET {d \in _account_facts(f) : d <= ExpectedCutoff}
        BY Cutoffs DEF build_features, Newest
      <3> QED
        BY <3>1, Facts
    <2> QED
      BY <1>1, <2>1, <2>2, <2>3, <2>4 DEF InTime
  <1>2. ASSUME NEW family \in FactFamilies
        PROVE  InTime(Windowed(family, asOf))
    <2>1. /\ Windowed(family, asOf).cutoff = ExpectedCutoff
          /\ DOMAIN Windowed(family, asOf).rows = {family}
          /\ Windowed(family, asOf).rows[family] =
                _within(_account_facts(family), ExpectedCutoff)
      BY Cutoffs DEF Windowed
    <2>2. /\ _within(_account_facts(family), ExpectedCutoff) \in SUBSET data.rows[family]
          /\ \A d \in _within(_account_facts(family), ExpectedCutoff) : d <= ExpectedCutoff
      BY Facts DEF _within
    <2> QED
      BY <2>1, <2>2 DEF InTime
  <1>3. CASE i = 2
    BY <1>2, <1>3 DEF Response, TelemetryTools, FactFamilies
  <1>4. CASE i = 3
    BY <1>2, <1>4 DEF Response, TelemetryTools, FactFamilies
  <1>5. CASE i = 4
    BY <1>2, <1>5 DEF Response, TelemetryTools, FactFamilies
  <1> QED
    BY <1>1, <1>3, <1>4, <1>5
----------------------------------------------------------------------------
\* The telemetry lane's analysis.

LEMMA NewestOfSome ==
    ASSUME NEW S \in SUBSET Int, IsFiniteSet(S), NEW n \in Nat \ {0}, S # {}
    PROVE  Newest(S, n) # {}
  <1>1. PICK d \in S : \A e \in S : e <= d
    BY HasGreatest
  <1>2. {e \in S : e > d} = {}
    <2>1. ASSUME NEW e \in S PROVE ~(e > d)
      <3>1. e \in Int /\ d \in Int /\ e <= d
        BY <1>1
      <3> QED
        BY <3>1
    <2> QED
      BY <2>1
  <1>3. Cardinality({e \in S : e > d}) = 0
    BY <1>2, FS_EmptySet
  <1>4. d \in Newest(S, n)
    BY <1>3 DEF Newest
  <1> QED
    BY <1>4

\* compute_account_metrics reads every family, and is without a week of usage
\* only if the account has none in time.
LEMMA MetricsRead ==
    ASSUME data \in Datasets, assessment \in Assessments,
           NEW given, given = Response(TelemetryTools[1], assessment.asOf)
    PROVE  /\ DOMAIN given.rows = FactFamilies
           /\ \A f \in FactFamilies : IsFiniteSet(given.rows[f])
           /\ given.rows.usage_weekly = {} =>
                 \A d \in data.rows.usage_weekly : d > ExpectedCutoff
  <1>1. given = build_features(ExpectedCutoff)
    BY Cutoffs DEF Response, TelemetryTools, compute_account_metrics
  <1>2. DOMAIN given.rows = FactFamilies
    BY <1>1 DEF build_features
  <1>3. ASSUME NEW f \in FactFamilies PROVE IsFiniteSet(given.rows[f])
    <2>1. InTime(given)
      BY Read
    <2>2. given.rows[f] \in SUBSET data.rows[f]
      BY <1>2, <2>1 DEF InTime
    <2> QED
      BY <2>2, Facts, FS_Subset
  <1>4. ASSUME given.rows.usage_weekly = {}, NEW d \in data.rows.usage_weekly
        PROVE  d > ExpectedCutoff
    <2>1. PICK S : S = {e \in _account_facts("usage_weekly") : e <= ExpectedCutoff}
      OBVIOUS
    <2>2. "usage_weekly" \in FactFamilies
      BY DEF FactFamilies
    <2>3. given.rows.usage_weekly = Newest(S, ADOPTION_WINDOW_WEEKS)
      BY <1>1, <2>1, <2>2, Cutoffs DEF build_features
    <2>4. S \in SUBSET data.rows.usage_weekly
      BY <2>1, <2>2, Facts
    <2>5. S \in SUBSET Int /\ IsFiniteSet(S)
      BY <2>2, <2>4, Facts, FS_Subset
    <2>6. S = {}
      BY <1>4, <2>3, <2>5, NewestOfSome, WindowsAssumption
    <2>7. d \in Int /\ (d <= ExpectedCutoff => d <= effective_cutoff)
      BY <1>4, <2>2, Facts, Cutoffs
    <2>8. d <= effective_cutoff => d \in _account_facts("usage_weekly")
      BY <1>4 DEF _account_facts
    <2>9. ~(d <= ExpectedCutoff)
      BY <2>1, <2>6, <2>7, <2>8
    <2> QED
      BY <2>7, <2>9, Cutoffs
  <1> QED
    BY <1>2, <1>3, <1>4

\* The analysis of the four responses is whole, or says what it lacked.
LEMMA Analysed ==
    ASSUME data \in Datasets, assessment \in Assessments, NEW given,
           Len(given) = 4,
           \A i \in 1..4 : given[i] = Response(TelemetryTools[i], assessment.asOf)
    PROVE  /\ analyse(given) \in QuantitativeEvidence
           /\ analyse(given).cutoff = ExpectedCutoff
           /\ ~analyse(given).available =>
                 \/ ~HasArtifact
                 \/ \A d \in data.rows.usage_weekly : d > ExpectedCutoff
  <1>1. PICK m : m = given[1]
    OBVIOUS
  <1>2. PICK u : u = given[2]
    OBVIOUS
  <1>3. m = Response(TelemetryTools[1], assessment.asOf) /\ InTime(m)
    BY <1>1, Read
  <1>4. u = Response(TelemetryTools[2], assessment.asOf) /\ InTime(u)
    BY <1>2, Read
  <1>5. /\ DOMAIN m.rows = FactFamilies
        /\ \A f \in FactFamilies : IsFiniteSet(m.rows[f])
        /\ m.rows.usage_weekly = {} => \A d \in data.rows.usage_weekly : d > ExpectedCutoff
    BY <1>3, MetricsRead
  <1>6. /\ Cardinality(m.rows.usage_weekly) \in Nat
        /\ Cardinality(m.rows.support_ticket) \in Nat
        /\ Cardinality(m.rows.csm_note) \in Nat
        /\ Cardinality(m.rows.external_event) \in Nat
    BY <1>5, FS_CardinalityType DEF FactFamilies
  <1>7. _observations(m.rows) \in SUBSET Metrics
    <2>1. \A family \in {"adoption", "support", "external", "account"} :
             _coverage_for(m.rows)[family] \in Nat
      BY <1>6 DEF _coverage_for
    <2> QED
      BY <2>1 DEF _observations, Metrics
  <1>8. PICK report : report = _coverage_report(m, u)
    OBVIOUS
  <1>9. report \in CoverageReports
    <2>1. DOMAIN u.rows \in SUBSET FactFamilies
      BY <1>4 DEF InTime
    <2>2. thin_families(m.rows) \in SUBSET FactFamilies
      BY DEF thin_families, FactFamilies
    <2> QED
      BY <1>6, <1>8, <2>1, <2>2 DEF _coverage_report, CoverageReports
  <1>10. report.critical # {} => m.rows.usage_weekly = {} \/ ~HasArtifact
    BY <1>8 DEF _coverage_report
  <1>11. analyse(given) = [cutoff |-> m.cutoff, available |-> report.critical = {},
                           metrics |-> _observations(m.rows), coverage |-> report]
    BY <1>1, <1>2, <1>8 DEF analyse
  <1>12. m.cutoff = ExpectedCutoff /\ m.cutoff \in Int
    BY <1>3, Cutoffs DEF InTime
  <1>13. PICK ms, whole : ms = _observations(m.rows) /\ whole = (report.critical = {})
    OBVIOUS
  <1>14. ms \in SUBSET Metrics /\ whole \in BOOLEAN
    BY <1>7, <1>13
  <1>15. analyse(given) = [cutoff |-> m.cutoff, available |-> whole,
                           metrics |-> ms, coverage |-> report]
    BY <1>11, <1>13
  <1>16. analyse(given) \in QuantitativeEvidence
    BY <1>9, <1>12, <1>14, <1>15 DEF QuantitativeEvidence
  <1>17. analyse(given).cutoff = ExpectedCutoff /\ analyse(given).available = whole
    BY <1>12, <1>15
  <1> QED
    BY <1>5, <1>10, <1>13, <1>16, <1>17

\* A lane that gave up is typed, and unavailable.
LEMMA NoTelemetryTyped ==
    ASSUME NEW c \in Int
    PROVE  NoTelemetry(c) \in QuantitativeEvidence /\ ~NoTelemetry(c).available
  BY DEF NoTelemetry, QuantitativeEvidence, CoverageReports
----------------------------------------------------------------------------
\* The retrieval lane's evidence.

LEMMA EvidenceFields ==
    ASSUME NEW e \in RetrievalEvidence
    PROVE  /\ e.cutoff \in Int /\ e.available \in BOOLEAN /\ e.guidance \in BOOLEAN
           /\ e.observations \in Seq(Observations)
           /\ Len(e.observations) \in Nat
           /\ DOMAIN e.observations = 1..Len(e.observations)
           /\ \A i \in 1..Len(e.observations) : e.observations[i] \in Observations
  BY DEF RetrievalEvidence

LEMMA DatedCitations ==
    ASSUME NEW e, NEW cutoff
    PROVE  (\A c \in citations(e) : c.date <= cutoff) <=> Dated(e, cutoff)
  BY DEF citations, Dated

\* A search answers for the sub-goal it was made for, with documents in time.
LEMMA SearchIsSound ==
    ASSUME data \in Datasets, assessment \in Assessments, NEW kind \in SubGoals,
           NEW o \in _account_search(kind, assessment.asOf)
    PROVE  /\ o \in Observations /\ o.subGoal = kind
           /\ \A c \in o.citations : c.date <= ExpectedCutoff
  <1>1. SUB_GOAL_SOURCES[kind] \in SUBSET FactFamilies
    BY DEF SubGoals, SUB_GOAL_SOURCES, FactFamilies
  <1>2. ASSUME NEW c \in Documents(kind, assessment.asOf)
        PROVE  c \in [family: FactFamilies, date: Int] /\ c.date <= ExpectedCutoff
    <2>1. PICK f \in SUB_GOAL_SOURCES[kind] :
             \E d \in {e \in _account_facts(f) : e <= _cutoff_for(assessment.asOf)} :
                c = [family |-> f, date |-> d]
      BY <1>2 DEF Documents
    <2>2. PICK d \in _account_facts(f) : d <= ExpectedCutoff /\ c = [family |-> f, date |-> d]
      BY <2>1, Cutoffs
    <2>3. f \in FactFamilies /\ d \in Int
      BY <1>1, <2>1, <2>2, Facts
    <2> QED
      BY <2>2, <2>3
  <1>3. /\ o.subGoal = kind /\ o.insufficient \in BOOLEAN
        /\ o.citations \in SUBSET Documents(kind, assessment.asOf)
        /\ o = [subGoal |-> o.subGoal, citations |-> o.citations,
                insufficient |-> o.insufficient]
    BY DEF _account_search
  <1>4. o.citations \in SUBSET [family: FactFamilies, date: Int]
    BY <1>2, <1>3
  <1>5. o \in Observations
    BY <1>3, <1>4 DEF Observations
  <1> QED
    BY <1>2, <1>3, <1>5

\* One more observation.
LEMMA OneMore ==
    ASSUME NEW e \in RetrievalEvidence, NEW o \in Observations, NEW more,
           more = [e EXCEPT !.observations = Append(@, o)]
    PROVE  /\ more \in RetrievalEvidence /\ more.available = e.available
           /\ Len(more.observations) = Len(e.observations) + 1
           /\ \A i \in 1..Len(e.observations) : more.observations[i] = e.observations[i]
           /\ more.observations[Len(e.observations) + 1] = o
  <1>1. e.observations \in Seq(Observations)
    BY EvidenceFields
  <1>2. PICK s : s = Append(e.observations, o)
    OBVIOUS
  <1>3. /\ s \in Seq(Observations) /\ Len(s) = Len(e.observations) + 1
        /\ \A i \in 1..Len(e.observations) : s[i] = e.observations[i]
        /\ s[Len(e.observations) + 1] = o
    BY <1>1, <1>2
  <1>4. more = [e EXCEPT !.observations = s]
    BY <1>2
  <1>5. more \in RetrievalEvidence /\ more.observations = s /\ more.available = e.available
    BY <1>3, <1>4 DEF RetrievalEvidence
  <1> QED
    BY <1>3, <1>5

LEMMA Concatenated ==
    ASSUME NEW T, NEW s \in Seq(T), NEW t \in Seq(T)
    PROVE  /\ s \o t \in Seq(T) /\ Len(s \o t) = Len(s) + Len(t)
           /\ \A i \in 1..Len(s) : (s \o t)[i] = s[i]
  OBVIOUS

\* Every observation of merge_evidence's result is one of the retry's, or an
\* earlier one where it stood, which it still is when its sub-goal was not
\* searched again; and no sub-goal is added that the first round had.
Replaces(old, new, all) ==
    /\ \A i \in DOMAIN all : \/ i \in DOMAIN old /\ all[i] = old[i]
                             \/ \E j \in DOMAIN new : all[i] = new[j]
    /\ \A i \in DOMAIN old :
          /\ i \in DOMAIN all /\ all[i].subGoal = old[i].subGoal
          /\ (\A j \in DOMAIN new : new[j].subGoal # old[i].subGoal) => all[i] = old[i]
    /\ (\A j \in DOMAIN new : \E i \in DOMAIN old : old[i].subGoal = new[j].subGoal) =>
          Len(all) = Len(old)

LEMMA Merged ==
    ASSUME NEW previous \in RetrievalEvidence, NEW retry \in RetrievalEvidence,
           retry.available, NEW merged, merged = merge_evidence(previous, retry)
    PROVE  /\ merged \in RetrievalEvidence /\ merged.available = previous.available
           /\ previous.guidance => merged.guidance
           /\ Replaces(previous.observations, retry.observations, merged.observations)
  <1>1. PICK old \in Seq(Observations) : old = previous.observations
    BY EvidenceFields
  <1>2. PICK new \in Seq(Observations) : new = retry.observations
    BY EvidenceFields
  <1> DEFINE Again(k) == {i \in DOMAIN new : new[i].subGoal = k}
             Latest(k) == CHOOSE i \in Again(k) : \A j \in Again(k) : j <= i
             Updated(o) == IF Again(o.subGoal) = {} THEN o ELSE new[Latest(o.subGoal)]
             kept == [i \in DOMAIN old |-> Updated(old[i])]
             added == {j \in DOMAIN new : \A i \in DOMAIN old :
                                             old[i].subGoal # new[j].subGoal}
  <1>3. merged = [previous EXCEPT !.observations = kept \o Picked(new, added),
                                  !.guidance = retry.guidance \/ @]
    BY <1>1, <1>2 DEF merge_evidence
  <1>4. ASSUME NEW k, Again(k) # {}
        PROVE  Latest(k) \in DOMAIN new /\ new[Latest(k)].subGoal = k
    <2>1. Again(k) \in SUBSET (1..Len(new)) /\ IsFiniteSet(1..Len(new))
      BY FS_Interval
    <2>2. Again(k) \in SUBSET Int /\ IsFiniteSet(Again(k))
      BY <2>1, FS_Subset
    <2>3. \E i \in Again(k) : \A j \in Again(k) : j <= i
      BY <1>4, <2>2, HasGreatest
    <2>4. Latest(k) \in Again(k)
      BY <2>3
    <2> QED
      BY <2>4
  <1>5. ASSUME NEW i \in DOMAIN old
        PROVE  /\ Updated(old[i]) \in Observations
               /\ Updated(old[i]).subGoal = old[i].subGoal
               /\ \/ Updated(old[i]) = old[i]
                  \/ \E j \in DOMAIN new : Updated(old[i]) = new[j]
               /\ (\A j \in DOMAIN new : new[j].subGoal # old[i].subGoal) =>
                     Updated(old[i]) = old[i]
    <2>1. CASE Again(old[i].subGoal) = {}
      BY <2>1
    <2>2. CASE Again(old[i].subGoal) # {}
      <3>1. /\ Latest(old[i].subGoal) \in DOMAIN new
            /\ new[Latest(old[i].subGoal)].subGoal = old[i].subGoal
        BY <1>4, <2>2
      <3>2. Updated(old[i]) = new[Latest(old[i].subGoal)]
        BY <2>2
      <3> HIDE DEF Updated, Latest
      <3> QED
        BY <3>1, <3>2
    <2> QED
      BY <2>1, <2>2
  <1> HIDE DEF Updated
  <1>6. /\ kept \in Seq(Observations) /\ Len(kept) = Len(old)
        /\ \A i \in DOMAIN old : kept[i] = Updated(old[i])
    BY <1>5
  <1>7. added \in SUBSET DOMAIN new
    OBVIOUS
  <1>8. (\A j \in DOMAIN new : \E i \in DOMAIN old : old[i].subGoal = new[j].subGoal) =>
           added = {}
    OBVIOUS
  <1> HIDE DEF kept, added
  <1>9. PICK tail \in Seq(Observations) : tail = Picked(new, added)
    BY <1>7, PickedMembers
  <1>10. /\ \A k \in DOMAIN tail : \E j \in DOMAIN new : tail[k] = new[j]
         /\ added = {} => Len(tail) = 0
    <2>1. Len(tail) = Cardinality(added)
      BY <1>7, <1>9, PickedMembers
    <2>2. ASSUME NEW k \in DOMAIN tail PROVE \E j \in DOMAIN new : tail[k] = new[j]
      <3>1. k \in 1..Cardinality(added)
        BY <2>1
      <3>2. Picked(new, added)[k] = new[Nth(added, k)] /\ Nth(added, k) \in added
        BY <1>7, <3>1, PickedMembers
      <3> QED
        BY <1>7, <1>9, <3>2
    <2> QED
      BY <2>1, <2>2, FS_EmptySet
  <1>11. PICK all : all = kept \o tail
    OBVIOUS
  <1>12. /\ all \in Seq(Observations) /\ Len(all) = Len(old) + Len(tail)
         /\ \A i \in DOMAIN old : i \in DOMAIN all /\ all[i] = Updated(old[i])
    <2>1. kept \in Seq(Observations) /\ tail \in Seq(Observations) /\ Len(kept) = Len(old)
      BY <1>6
    <2>2. /\ all \in Seq(Observations) /\ Len(all) = Len(kept) + Len(tail)
          /\ \A i \in 1..Len(kept) : all[i] = kept[i]
      BY <1>11, <2>1, Concatenated
    <2>3. DOMAIN all = 1..Len(kept) + Len(tail) /\ Len(kept) \in Nat /\ Len(tail) \in Nat
      BY <2>1, <2>2
    <2> QED
      BY <1>6, <2>1, <2>2, <2>3
  <1>13. ASSUME NEW i \in DOMAIN all
         PROVE  \/ i \in DOMAIN old /\ all[i] = Updated(old[i])
                \/ \E j \in DOMAIN new : all[i] = new[j]
    <2>1. CASE i \in DOMAIN old
      BY <1>12, <2>1
    <2>2. CASE i \notin DOMAIN old
      <3>1. i - Len(old) \in DOMAIN tail /\ all[i] = tail[i - Len(old)]
        BY <1>6, <1>11, <1>12, <2>2
      <3> QED
        BY <1>10, <3>1
    <2> QED
      BY <2>1, <2>2
  <1>14. PICK g \in BOOLEAN : g = (retry.guidance \/ previous.guidance)
    OBVIOUS
  <1>15. merged = [previous EXCEPT !.observations = all, !.guidance = g]
    BY <1>3, <1>9, <1>11, <1>14, EvidenceFields, Zenon
  <1>16. /\ merged \in RetrievalEvidence /\ merged.observations = all
         /\ merged.available = previous.available /\ merged.guidance = g
    BY <1>12, <1>15 DEF RetrievalEvidence
  <1>17. Replaces(old, new, all)
    <2>1. \A i \in DOMAIN all : \/ i \in DOMAIN old /\ all[i] = old[i]
                               \/ \E j \in DOMAIN new : all[i] = new[j]
      BY <1>5, <1>13
    <2>2. \A i \in DOMAIN old :
             /\ i \in DOMAIN all /\ all[i].subGoal = old[i].subGoal
             /\ (\A j \in DOMAIN new : new[j].subGoal # old[i].subGoal) => all[i] = old[i]
      BY <1>5, <1>12
    <2>3. added = {} => Len(all) = Len(old)
      BY <1>10, <1>12
    <2> QED
      BY <1>8, <2>1, <2>2, <2>3 DEF Replaces
  <1> QED
    BY <1>1, <1>2, <1>14, <1>16, <1>17

\* The screen takes citations away and nothing else.
Withheld(e, allowed, g) ==
    [e EXCEPT !.observations = [i \in DOMAIN e.observations |->
                                  [e.observations[i] EXCEPT !.citations = @ \cap allowed]],
              !.guidance = g]

ScreenedFrom(e, screened) ==
    /\ screened \in RetrievalEvidence /\ screened.available = e.available
    /\ Len(screened.observations) = Len(e.observations)
    /\ \A i \in DOMAIN e.observations :
          /\ screened.observations[i].subGoal = e.observations[i].subGoal
          /\ screened.observations[i].citations \in SUBSET e.observations[i].citations

LEMMA Screened ==
    ASSUME NEW e \in RetrievalEvidence, NEW allowed, NEW g \in BOOLEAN
    PROVE  ScreenedFrom(e, Withheld(e, allowed, g))
  <1>0. PICK screened : screened = Withheld(e, allowed, g)
    OBVIOUS
  <1>1. PICK old \in Seq(Observations) : old = e.observations
    BY EvidenceFields
  <1>2. PICK all : all = [i \in DOMAIN e.observations |->
                            [e.observations[i] EXCEPT !.citations = @ \cap allowed]]
    OBVIOUS
  <1>3. ASSUME NEW i \in DOMAIN old
        PROVE  /\ all[i] \in Observations /\ all[i].subGoal = old[i].subGoal
               /\ all[i].citations \in SUBSET old[i].citations
    <2>1. all[i] = [old[i] EXCEPT !.citations = @ \cap allowed]
      BY <1>1, <1>2
    <2>2. old[i] \in Observations
      OBVIOUS
    <2> QED
      BY <2>1, <2>2 DEF Observations
  <1>4. all \in Seq(Observations) /\ Len(all) = Len(old)
    <2>1. DOMAIN all = 1..Len(old) /\ Len(old) \in Nat
      BY <1>1, <1>2
    <2>2. all = [i \in 1..Len(old) |-> all[i]]
      BY <1>2, <2>1
    <2>3. \A i \in 1..Len(old) : all[i] \in Observations
      <3>1. DOMAIN old = 1..Len(old)
        OBVIOUS
      <3> QED
        BY <1>3, <3>1
    <2> QED
      BY <2>1, <2>2, <2>3
  <1>5. screened = [e EXCEPT !.observations = all, !.guidance = g]
    BY <1>0, <1>2 DEF Withheld
  <1>6. /\ screened \in RetrievalEvidence /\ screened.available = e.available
        /\ screened.observations = all
    BY <1>4, <1>5 DEF RetrievalEvidence
  <1> QED
    <2>1. ScreenedFrom(e, screened)
      BY <1>1, <1>3, <1>4, <1>6 DEF ScreenedFrom
    <2> QED
      BY <1>0, <2>1
----------------------------------------------------------------------------
\* The intake's horizon and the orchestrator's plan.

\* A request the intake lets through is one no tool refuses for its date.
LEMMA IntakeHoldsHorizon ==
    ASSUME NEW r \in Assessments, evaluate_intake(r).outcome \notin {"block", "clarify"}
    PROVE  Valid(r.asOf)
  <1>1. SUFFICES ASSUME _horizon_reason(r.question, r.asOf) PROVE FALSE
    BY AsOfAssumption, HorizonAssumption DEF _horizon_reason, Valid
  <1> DEFINE blocks     == Matching(r.question, "block")
             reviews    == Matching(r.question, "review")
             advisories == Matching(r.question, "pass")
  <1>2. PICK checks : checks = <<
          [holds |-> r.question.leaked,
           gives |-> Decision("block", <<"LABEL-LEAK">>)],
          [holds |-> blocks # <<>>,
           gives |-> Decision("block", First(blocks))],
          [holds |-> _horizon_reason(r.question, r.asOf),
           gives |-> Decision("block", <<"HORIZON">>)],
          [holds |-> r.account \notin Accounts,
           gives |-> Decision("block", <<"ACCOUNT-EXISTS">>)],
          [holds |-> reviews # <<>>,
           gives |-> Decision("review", First(reviews) \o advisories)],
          [holds |-> advisories = <<>> /\ _is_underspecified(r.question),
           gives |-> Decision("clarify", <<"SPECIFICITY">>)],
          [holds |-> TRUE,
           gives |-> Decision("pass", advisories)]>>
    OBVIOUS
  <1>3. evaluate_intake(r) = checks[SelectInSeq(checks, LAMBDA c : c.holds)].gives
    BY <1>2 DEF evaluate_intake
  <1>4. /\ Len(checks) = 7 /\ checks[3].holds
        /\ \A i \in 1..3 : checks[i].gives.outcome = "block"
    BY <1>1, <1>2 DEF Decision
  <1>5. PICK I : I = {i \in 1..7 : checks[i].holds}
    OBVIOUS
  <1>6. SelectInSeq(checks, LAMBDA c : c.holds) = Min(I)
    BY <1>4, <1>5 DEF SelectInSeq
  <1>7. \E x \in I : x \in 1..3 /\ \A y \in I : x <= y
    <2>1. 3 \in I /\ I \in SUBSET (1..7)
      BY <1>4, <1>5
    <2>2. CASE 1 \in I
      BY <2>1, <2>2
    <2>3. CASE 1 \notin I /\ 2 \in I
      BY <2>1, <2>3
    <2>4. CASE 1 \notin I /\ 2 \notin I
      BY <2>1, <2>4
    <2> QED
      BY <2>2, <2>3, <2>4
  <1>8. Min(I) \in I /\ \A y \in I : Min(I) <= y
    BY <1>7 DEF Min
  <1>9. Min(I) \in 1..3
    BY <1>4, <1>5, <1>8
  <1> QED
    BY <1>3, <1>4, <1>6, <1>9

LEMMA Prefix ==
    ASSUME NEW T, NEW s \in Seq(T), NEW n \in 0..Len(s)
    PROVE  /\ SubSeq(s, 1, n) \in Seq(T) /\ Len(SubSeq(s, 1, n)) = n
           /\ \A k \in 1..n : SubSeq(s, 1, n)[k] = s[k]
  OBVIOUS

\* Whatever a model drafts, the plan names at least one sub-goal besides the
\* guidance, which comes last, and no sub-goal twice.
LEMMA PlansAreWell ==
    ASSUME NEW draft \in Drafts
    PROVE  PlanOf(draft) \in Seq(SubGoals) /\ WellPlanned(PlanOf(draft))
  <1> DEFINE first == {i \in DOMAIN draft : /\ draft[i] # GUIDANCE_SUB_GOAL
                                            /\ \A j \in 1..i - 1 : draft[j] # draft[i]}
  <1>1. draft \in Seq(SubGoals) /\ GUIDANCE_SUB_GOAL \in SubGoals
    BY DraftsAssumption DEF SubGoals, SUB_GOAL_SOURCES, GUIDANCE_SUB_GOAL
  <1>2. CASE first = {}
    <2>1. PICK relation \in {"relationship", "external_context"} :
             PlanOf(draft) = <<"adoption", "support", relation, "playbook_guidance">>
      BY <1>2 DEF PlanOf, deterministic_plan, GUIDANCE_SUB_GOAL
    <2> QED
      BY <2>1 DEF WellPlanned, GUIDANCE_SUB_GOAL, SubGoals, SUB_GOAL_SOURCES
  <1>3. CASE first # {}
    <2>1. first \in SUBSET DOMAIN draft
      OBVIOUS
    <2>2. \A i, j \in first : draft[i] = draft[j] => i = j
      <3>1. ASSUME NEW i \in first, NEW j \in first, i < j PROVE draft[i] # draft[j]
        BY <1>1, <3>1
      <3> QED
        BY <1>1, <3>1
    <2>3. \A i \in first : draft[i] # GUIDANCE_SUB_GOAL
      OBVIOUS
    <2>4. \A n : n = Earlier(Len(Picked(draft, first)), MAX_SUB_GOALS - 1) =>
             PlanOf(draft) = Append(SubSeq(Picked(draft, first), 1, n), GUIDANCE_SUB_GOAL)
      BY <1>3 DEF PlanOf
    <2> HIDE DEF first
    <2>5. PICK chosen \in Seq(SubGoals) : chosen = Picked(draft, first)
      BY <1>1, <2>1, PickedMembers
    <2>6. /\ Len(chosen) = Cardinality(first) /\ Len(chosen) \in Nat /\ Len(chosen) >= 1
          /\ \A k \in 1..Len(chosen) : /\ chosen[k] = draft[Nth(first, k)]
                                       /\ Nth(first, k) \in first
          /\ \A k, l \in 1..Len(chosen) : Nth(first, k) = Nth(first, l) => k = l
      BY <1>1, <1>3, <2>1, <2>5, PickedMembers
    <2>7. PICK n \in Nat : n = Earlier(Len(chosen), MAX_SUB_GOALS - 1)
      BY <2>6 DEF Earlier, MAX_SUB_GOALS
    <2>8. n >= 1 /\ n <= Len(chosen)
      BY <2>6, <2>7 DEF Earlier, MAX_SUB_GOALS
    <2>9. PlanOf(draft) = Append(SubSeq(chosen, 1, n), GUIDANCE_SUB_GOAL)
      BY <2>4, <2>5, <2>7
    <2>10. PICK kinds \in Seq(SubGoals) : kinds = SubSeq(chosen, 1, n)
      <3>1. n \in 0..Len(chosen)
        BY <2>5, <2>6, <2>7, <2>8
      <3> QED
        BY <3>1, Prefix
    <2>11. Len(kinds) = n /\ \A k \in 1..n : kinds[k] = chosen[k]
      BY <2>6, <2>8, <2>10, Prefix
    <2>12. \A k, l \in 1..n : kinds[k] = kinds[l] => k = l
      BY <2>6, <2>2, <2>8, <2>11
    <2>13. \A k \in 1..n : kinds[k] # GUIDANCE_SUB_GOAL
      BY <2>6, <2>3, <2>8, <2>11
    <2> HIDE DEF GUIDANCE_SUB_GOAL
    <2>14. PICK p : p = Append(kinds, GUIDANCE_SUB_GOAL)
      OBVIOUS
    <2>15. /\ p \in Seq(SubGoals) /\ Len(p) = n + 1
           /\ \A k \in 1..n : p[k] = kinds[k]
           /\ p[n + 1] = GUIDANCE_SUB_GOAL
      BY <1>1, <2>11, <2>14
    <2>16. WellPlanned(p)
      <3>1. ASSUME NEW i \in 1..n + 1, NEW j \in 1..n + 1, p[i] = p[j] PROVE i = j
        <4>1. CASE i \in 1..n /\ j \in 1..n
          BY <2>12, <2>15, <3>1, <4>1
        <4>2. CASE i = n + 1
          BY <2>13, <2>15, <3>1, <4>2
        <4>3. CASE j = n + 1
          BY <2>13, <2>15, <3>1, <4>3
        <4> QED
          BY <4>1, <4>2, <4>3
      <3>2. DOMAIN p = 1..n + 1
        BY <2>15
      <3> QED
        BY <2>8, <2>15, <3>1, <3>2 DEF WellPlanned
    <2> QED
      BY <2>9, <2>10, <2>14, <2>15, <2>16
  <1> QED
    BY <1>2, <1>3

\* uncovered_sub_goals names what is lacking, and nothing only if nothing is.
LEMMA UncoveredIsLacking ==
    ASSUME NEW e \in RetrievalEvidence
    PROVE  /\ ToSet(uncovered_sub_goals(e)) \in SUBSET Lacking(e)
           /\ Lacking(e) # {} => ToSet(uncovered_sub_goals(e)) # {}
           /\ uncovered_sub_goals(e) # <<>> => Lacking(e) # {}
  <1>1. PICK kinds : kinds = [i \in DOMAIN e.observations |-> e.observations[i].subGoal]
    OBVIOUS
  <1>2. PICK bare : bare = {i \in DOMAIN e.observations : ~Covered(e.observations[i])}
    OBVIOUS
  <1>3. kinds \in Seq(SubGoals) /\ bare \in SUBSET DOMAIN kinds
    <2>1. \A i \in 1..Len(e.observations) : e.observations[i].subGoal \in SubGoals
      BY EvidenceFields DEF Observations
    <2> QED
      BY <1>1, <1>2, <2>1, EvidenceFields
  <1>4. PICK open \in Seq(SubGoals) : open = Picked(kinds, bare)
    BY <1>3, PickedMembers
  <1>5. uncovered_sub_goals(e) = open
    BY <1>1, <1>2, <1>4 DEF uncovered_sub_goals
  <1>6. /\ Len(open) = Cardinality(bare)
        /\ bare # {} => Len(open) >= 1
        /\ \A k \in 1..Len(open) : open[k] = kinds[Nth(bare, k)] /\ Nth(bare, k) \in bare
    BY <1>3, <1>4, PickedMembers
  <1>7. Lacking(e) = {kinds[i] : i \in bare}
    BY <1>1, <1>2 DEF Lacking
  <1>8. ToSet(open) = {open[k] : k \in 1..Len(open)}
    BY DEF ToSet
  <1>9. ToSet(open) \in SUBSET Lacking(e)
    BY <1>6, <1>7, <1>8
  <1>10. Lacking(e) # {} => ToSet(open) # {}
    <2>1. ASSUME bare # {} PROVE open[1] \in ToSet(open)
      <3>1. Len(open) \in Nat
        OBVIOUS
      <3>2. Len(open) >= 1
        BY <1>6, <2>1
      <3>3. 1 \in 1..Len(open)
        BY <3>1, <3>2
      <3> QED
        BY <1>8, <3>3
    <2> QED
      BY <1>7, <2>1
  <1>11. open # <<>> => Lacking(e) # {}
    <2>1. ASSUME open # <<>> PROVE Nth(bare, 1) \in bare
      <3>1. Len(open) >= 1
        BY <2>1
      <3> QED
        BY <1>6, <3>1
    <2> QED
      BY <1>7, <2>1
  <1> QED
    BY <1>5, <1>9, <1>10, <1>11
----------------------------------------------------------------------------
\* What no step changes, and what the second round keeps.

LEMMA SameCut ==
    ASSUME UNCHANGED <<data, assessment>>
    PROVE  /\ ExpectedCutoff' = ExpectedCutoff /\ effective_cutoff' = effective_cutoff
           /\ NoRetrieval' = NoRetrieval
  BY DEF ExpectedCutoff, effective_cutoff, NoRetrieval

LEMMA SameResponses ==
    ASSUME UNCHANGED <<data, assessment>>
    PROVE  \A i \in 1..4 : Response(TelemetryTools[i], assessment.asOf)' =
                           Response(TelemetryTools[i], assessment.asOf)
  BY DEF Response, TelemetryTools, compute_account_metrics, build_features, Windowed,
         _cutoff_for, effective_cutoff, _account_facts, _within, Newest

LEMMA InTurnKept ==
    ASSUME InTurn, UNCHANGED <<data, assessment>>, UNCHANGED answers
    PROVE  InTurn'
  <1>1. {Response(TelemetryTools[i], assessment.asOf)' : i \in 1..4} =
        {Response(TelemetryTools[i], assessment.asOf) : i \in 1..4}
    BY SameResponses
  <1>2. \A i \in DOMAIN answers : i \in 1..4
    BY DEF InTurn
  <1> QED
    BY <1>1, <1>2, SameResponses DEF InTurn

LEMMA NothingFound ==
    ASSUME data \in Datasets, assessment \in Assessments
    PROVE  /\ NoRetrieval \in RetrievalEvidence /\ ~NoRetrieval.available
           /\ NoRetrieval.observations = <<>>
           /\ \A cutoff : Dated(NoRetrieval, cutoff)
  BY Cutoffs DEF NoRetrieval, RetrievalEvidence, Dated

\* What a round of searches starts from.
LEMMA FreshSearch ==
    ASSUME data \in Datasets, assessment \in Assessments, NEW e,
           e = [NoRetrieval EXCEPT !.available = TRUE]
    PROVE  /\ e \in RetrievalEvidence /\ e.available
           /\ e.observations = <<>> /\ Len(e.observations) = 0
           /\ \A cutoff : Dated(e, cutoff)
  <1>1. /\ NoRetrieval \in RetrievalEvidence /\ NoRetrieval.observations = <<>>
    BY NothingFound
  <1>2. PICK yes \in BOOLEAN : yes = TRUE
    OBVIOUS
  <1>3. e = [NoRetrieval EXCEPT !.available = yes]
    BY <1>2
  <1>4. e \in RetrievalEvidence /\ e.observations = <<>> /\ e.available = yes
    BY <1>1, <1>3 DEF RetrievalEvidence
  <1> QED
    BY <1>2, <1>4 DEF Dated

\* The result of the retry, whatever it found, is the first round's evidence at
\* least: every sub-goal once, and what was covered unchanged (merge_evidence).
LEMMA SecondRound ==
    ASSUME LanesInv, stage = "targeted_retry",
           NEW e \in RetrievalEvidence, Dated(e, ExpectedCutoff),
           e.available => \A i \in DOMAIN e.observations :
                             e.observations[i].subGoal \in Lacking(retrieval),
           NEW r, r = merge_evidence(retrieval, e)
    PROVE  /\ r \in RetrievalEvidence /\ r.available
           /\ Follows(r.observations, plan) /\ Dated(r, ExpectedCutoff)
           /\ covered_sub_goals(retrieval) \subseteq covered_sub_goals(r)
           /\ retrieval.guidance => r.guidance
  <1>1. /\ retrieval \in RetrievalEvidence /\ retrieval.available
        /\ Follows(retrieval.observations, plan) /\ Dated(retrieval, ExpectedCutoff)
        /\ WellPlanned(plan) /\ plan \in Seq(SubGoals)
    BY DEF LanesInv, LanesTyped, Staged, RetrievalWhole, SearchesDated, Underway
  <1>2. CASE ~e.available
    <2>1. r = retrieval
      BY <1>2 DEF merge_evidence
    <2> QED
      BY <1>1, <2>1
  <1>3. CASE e.available
    <2>1. PICK old \in Seq(Observations) : old = retrieval.observations
      BY <1>1, EvidenceFields
    <2>2. PICK new \in Seq(Observations) : new = e.observations
      BY EvidenceFields
    <2>3. /\ r \in RetrievalEvidence /\ r.available = retrieval.available
          /\ retrieval.guidance => r.guidance
          /\ Replaces(old, new, r.observations)
      BY <1>1, <1>3, <2>1, <2>2, Merged
    <2>4. PICK all \in Seq(Observations) : all = r.observations
      BY <2>3, EvidenceFields
    <2>5. /\ DOMAIN old = 1..Len(old) /\ DOMAIN all = 1..Len(all) /\ Len(old) \in Nat
          /\ Len(old) = Len(plan) - 1 /\ \A i \in DOMAIN old : old[i].subGoal = plan[i]
      BY <1>1, <2>1 DEF Follows
    <2>6. \A j \in DOMAIN new : \E i \in DOMAIN old :
             old[i].subGoal = new[j].subGoal /\ ~Covered(old[i])
      BY <1>3, <2>1, <2>2 DEF Lacking
    <2>7. Len(all) = Len(old) /\ \A i \in DOMAIN old : all[i].subGoal = old[i].subGoal
      BY <2>3, <2>4, <2>6 DEF Replaces
    <2>8. Follows(all, plan)
      BY <2>5, <2>7 DEF Follows
    <2>9. Dated(r, ExpectedCutoff)
      <3>1. ASSUME NEW i \in DOMAIN all, NEW c \in all[i].citations
            PROVE  c.date <= ExpectedCutoff
        <4>1. \/ i \in DOMAIN old /\ all[i] = old[i]
              \/ \E j \in DOMAIN new : all[i] = new[j]
          BY <2>3, <2>4 DEF Replaces
        <4> QED
          BY <1>1, <2>1, <2>2, <3>1, <4>1 DEF Dated
      <3> QED
        BY <2>4, <3>1 DEF Dated
    <2>10. ASSUME NEW i \in DOMAIN old, Covered(old[i]) PROVE i \in DOMAIN all /\ all[i] = old[i]
      <3>1. ASSUME NEW j \in DOMAIN new PROVE new[j].subGoal # old[i].subGoal
        <4>1. PICK m \in DOMAIN old : old[m].subGoal = new[j].subGoal /\ ~Covered(old[m])
          BY <2>6
        <4>2. m # i
          BY <2>10, <4>1
        <4>3. m \in DOMAIN plan /\ i \in DOMAIN plan
          BY <1>1, <2>5
        <4>4. plan[m] # plan[i]
          BY <1>1, <4>2, <4>3 DEF WellPlanned
        <4> QED
          BY <2>5, <4>1, <4>4
      <3> QED
        BY <2>3, <2>4, <3>1 DEF Replaces
    <2>11. covered_sub_goals(retrieval) \subseteq covered_sub_goals(r)
      BY <2>1, <2>4, <2>10 DEF covered_sub_goals
    <2> QED
      BY <1>1, <2>3, <2>4, <2>8, <2>9, <2>11
  <1> QED
    BY <1>2, <1>3
----------------------------------------------------------------------------
\* One lemma per action.

LEMMA LanesInitInv == LanesInit => LanesInv
  <1> SUFFICES ASSUME LanesInit PROVE LanesInv
    OBVIOUS
  <1>1. /\ data \in Datasets /\ assessment \in Assessments
        /\ stage = "validate_request" /\ plan = <<>> /\ answers = <<>>
        /\ quant = None /\ left = None /\ retrieval = None /\ failed = {}
        /\ found = NoRetrieval
    BY DEF LanesInit
  <1>2. /\ found \in RetrievalEvidence /\ Dated(found, ExpectedCutoff)
    BY <1>1, NothingFound
  <1>3. LanesTyped
    BY <1>1, <1>2 DEF LanesTyped
  <1>4. InTurn
    BY <1>1 DEF InTurn
  <1>5. Staged
    BY <1>1 DEF Staged, Before, Underway
  <1>6. TelemetryWhole /\ SearchesInTurn /\ RetrievalWhole /\ RetryIsTargeted
    BY <1>1 DEF TelemetryWhole, SearchesInTurn, RetrievalWhole, RetryIsTargeted, Underway
  <1>7. SearchesDated
    BY <1>1, <1>2 DEF SearchesDated
  <1> QED
    BY <1>3, <1>4, <1>5, <1>6, <1>7 DEF LanesInv

\* A step that reads nothing leaves what has been read as it was.
LEMMA ReadKept ==
    ASSUME LanesInv, UNCHANGED <<data, assessment>>, UNCHANGED answers,
           UNCHANGED found, UNCHANGED retrieval
    PROVE  InTurn' /\ SearchesDated'
  <1>1. InTurn'
    BY InTurnKept DEF LanesInv
  <1>2. SearchesDated'
    BY SameCut DEF LanesInv, SearchesDated, Dated
  <1> QED
    BY <1>1, <1>2

LEMMA ValidateKeeps == ASSUME LanesInv, ValidateRequest PROVE LanesInv'
  <1>1. /\ stage = "validate_request"
        /\ stage' = IF evaluate_intake(assessment).outcome \in {"block", "clarify"}
                    THEN "safe_refusal" ELSE "load_context"
        /\ UNCHANGED <<data, assessment>> /\ UNCHANGED answers /\ UNCHANGED found
        /\ UNCHANGED retrieval /\ UNCHANGED <<plan, quant, left, failed>>
    BY DEF ValidateRequest
  <1>2. LanesTyped'
    BY <1>1 DEF LanesInv, LanesTyped
  <1>3. stage' = "load_context" => Valid(assessment.asOf)
    BY <1>1, IntakeHoldsHorizon DEF LanesInv, LanesTyped
  <1>4. Staged'
    BY <1>1, <1>3 DEF LanesInv, Staged, Before, Underway
  <1>5. TelemetryWhole' /\ SearchesInTurn' /\ RetrievalWhole' /\ RetryIsTargeted'
    BY <1>1 DEF TelemetryWhole, SearchesInTurn, RetrievalWhole, RetryIsTargeted, Underway
  <1> QED
    BY <1>1, <1>2, <1>4, <1>5, ReadKept DEF LanesInv

LEMMA ContextKeeps == ASSUME LanesInv, LoadContext PROVE LanesInv'
  <1>1. /\ stage = "load_context" /\ stage' \in {"plan_sub_goals", "raised"}
        /\ UNCHANGED <<data, assessment>> /\ UNCHANGED answers /\ UNCHANGED found
        /\ UNCHANGED retrieval /\ UNCHANGED <<plan, quant, left, failed>>
    BY DEF LoadContext
  <1>2. LanesTyped'
    BY <1>1 DEF LanesInv, LanesTyped
  <1>3. Staged'
    BY <1>1 DEF LanesInv, Staged, Before, Underway
  <1>4. TelemetryWhole' /\ SearchesInTurn' /\ RetrievalWhole' /\ RetryIsTargeted'
    BY <1>1 DEF TelemetryWhole, SearchesInTurn, RetrievalWhole, RetryIsTargeted, Underway
  <1> QED
    BY <1>1, <1>2, <1>3, <1>4, ReadKept DEF LanesInv

LEMMA PlanKeeps == ASSUME LanesInv, PlanSubGoals PROVE LanesInv'
  <1>1. PICK draft \in Drafts : plan' = PlanOf(draft)
    BY DEF PlanSubGoals
  <1>2. /\ stage = "plan_sub_goals" /\ stage' = "lanes" /\ left' = plan'
        /\ found' = [NoRetrieval EXCEPT !.available = TRUE]
        /\ UNCHANGED <<data, assessment>> /\ UNCHANGED answers
        /\ UNCHANGED <<quant, retrieval, failed>>
    BY DEF PlanSubGoals
  <1>3. plan' \in Seq(SubGoals) /\ WellPlanned(plan')
    BY <1>1, PlansAreWell
  <1>4. /\ quant = None /\ retrieval = None /\ left = None /\ failed = {}
        /\ Valid(assessment.asOf)
    BY <1>2 DEF LanesInv, Staged, Before
  <1>5. /\ found' \in RetrievalEvidence /\ found'.available
        /\ Len(found'.observations) = 0 /\ found'.observations = <<>>
        /\ \A cutoff : Dated(found', cutoff)
    BY <1>2, FreshSearch DEF LanesInv, LanesTyped
  <1>6. LanesTyped'
    BY <1>2, <1>3, <1>4, <1>5 DEF LanesInv, LanesTyped
  <1>7. InTurn'
    BY <1>2, InTurnKept DEF LanesInv
  <1>8. Staged'
    BY <1>2, <1>3, <1>4 DEF Staged, Before, Underway
  <1>9. TelemetryWhole'
    BY <1>2, <1>4 DEF TelemetryWhole
  <1>10. SearchesInTurn'
    <2>1. left' # None
      BY <1>2, <1>3, NoneAssumption
    <2>2. left' = SubSeq(plan', 0 + 1, Len(plan')) /\ Len(plan') \in Nat /\ Len(plan') # 0
      BY <1>2, <1>3 DEF WellPlanned
    <2>3. \E n \in 0..Len(plan') :
             /\ left' = SubSeq(plan', n + 1, Len(plan'))
             /\ Len(found'.observations) = IF n = Len(plan') THEN n - 1 ELSE n
             /\ \A i \in DOMAIN found'.observations :
                   found'.observations[i].subGoal = plan'[i]
      <3>1. 0 \in 0..Len(plan')
        BY <2>2
      <3>2. \A i \in DOMAIN found'.observations : FALSE
        BY <1>5
      <3> QED
        BY <1>5, <2>2, <3>1, <3>2
    <2> QED
      BY <1>2, <1>4, <1>5, <2>1, <2>3 DEF SearchesInTurn
  <1>11. RetrievalWhole' /\ RetryIsTargeted'
    BY <1>2, <1>4 DEF RetrievalWhole, RetryIsTargeted
  <1>12. SearchesDated'
    BY <1>2, <1>4, <1>5 DEF SearchesDated
  <1> QED
    BY <1>6, <1>7, <1>8, <1>9, <1>10, <1>11, <1>12 DEF LanesInv

\* A step of the telemetry lane leaves the searches as they were.
LEMMA SearchesKept ==
    ASSUME LanesInv, UNCHANGED <<data, assessment>>, UNCHANGED <<stage, plan>>,
           UNCHANGED left, UNCHANGED found, UNCHANGED retrieval,
           failed' \ {"quantitative"} = failed \ {"quantitative"}
    PROVE  SearchesInTurn' /\ RetrievalWhole' /\ RetryIsTargeted' /\ SearchesDated'
  <1>1. "retrieval" \in failed' <=> "retrieval" \in failed
    OBVIOUS
  <1>2. SearchesInTurn'
    BY <1>1 DEF LanesInv, SearchesInTurn
  <1>3. RetrievalWhole' /\ RetryIsTargeted'
    BY DEF LanesInv, RetrievalWhole, RetryIsTargeted, Lacking
  <1>4. SearchesDated'
    BY SameCut DEF LanesInv, SearchesDated, Dated
  <1> QED
    BY <1>2, <1>3, <1>4

LEMMA TelemetryKeeps ==
    ASSUME LanesInv, NEW outcome \in Outcomes, AskTelemetry(outcome) PROVE LanesInv'
  <1>1. /\ stage = "lanes" /\ quant = None /\ Len(answers) < 4
        /\ UNCHANGED <<data, assessment>> /\ UNCHANGED <<stage, plan>>
        /\ UNCHANGED left /\ UNCHANGED found /\ UNCHANGED retrieval
    BY DEF AskTelemetry, TelemetryTools
  <1>2. /\ Valid(assessment.asOf) /\ "quantitative" \notin failed
        /\ data \in Datasets /\ assessment \in Assessments
        /\ InTurn
    BY <1>1 DEF LanesInv, LanesTyped, Staged, Underway, TelemetryWhole
  <1>3. failed' = IF outcome # "answer" THEN failed \cup {"quantitative"} ELSE failed
    BY <1>2 DEF AskTelemetry
  <1>4. SearchesInTurn' /\ RetrievalWhole' /\ RetryIsTargeted' /\ SearchesDated'
    BY <1>1, <1>3, SearchesKept
  <1>5. CASE outcome = "answer"
    <2>1. /\ quant' = None /\ failed' = failed
          /\ answers' = Append(answers, Response(TelemetryTools[Len(answers) + 1],
                                                 assessment.asOf))
      BY <1>3, <1>5 DEF AskTelemetry
    <2>2. LanesTyped' /\ Staged'
      BY <1>1, <2>1 DEF LanesInv, LanesTyped, Staged, Before, Underway
    <2>3. TelemetryWhole'
      BY <1>2, <2>1 DEF TelemetryWhole
    <2>4. InTurn'
      <3>1. PICK R : R = {Response(TelemetryTools[i], assessment.asOf) : i \in 1..4}
        OBVIOUS
      <3>2. PICK n \in Nat : n = Len(answers) + 1
        BY <1>2 DEF InTurn
      <3>3. answers \in Seq(R) /\ n \in 1..4
        BY <1>1, <1>2, <3>1, <3>2 DEF InTurn
      <3>4. PICK g \in R : g = Response(TelemetryTools[n], assessment.asOf)
        BY <3>1, <3>3
      <3>5. /\ answers' \in Seq(R) /\ Len(answers') = n
            /\ \A i \in 1..n : answers'[i] = Response(TelemetryTools[i], assessment.asOf)
        <4>1. answers' = Append(answers, g)
          BY <2>1, <3>2, <3>4
        <4>2. /\ answers' \in Seq(R) /\ Len(answers') = n /\ answers'[n] = g
              /\ \A i \in DOMAIN answers : answers'[i] = answers[i]
          BY <3>2, <3>3, <4>1
        <4>3. ASSUME NEW i \in 1..n, i # n PROVE i \in DOMAIN answers
          BY <3>2, <3>3, <4>3
        <4> QED
          BY <1>2, <3>4, <4>2, <4>3 DEF InTurn
      <3>6. R = {Response(TelemetryTools[i], assessment.asOf)' : i \in 1..4}
        BY <1>1, <3>1, SameResponses
      <3>7. \A i \in 1..n : answers'[i] = Response(TelemetryTools[i], assessment.asOf)'
        BY <1>1, <3>3, <3>5, SameResponses
      <3>8. DOMAIN answers' = 1..n
        BY <3>5
      <3> QED
        BY <3>3, <3>5, <3>6, <3>7, <3>8 DEF InTurn
    <2> QED
      BY <1>4, <2>2, <2>3, <2>4 DEF LanesInv
  <1>6. CASE outcome # "answer"
    <2>1. UNCHANGED answers /\ failed' = failed \cup {"quantitative"}
      BY <1>3, <1>6 DEF AskTelemetry
    <2>2. PICK c \in Int : quant' = NoTelemetry(c)
      <3>1. effective_cutoff \in Int
        BY <1>2, Cutoffs
      <3>2. outcome \in {"unavailable", "timeout", "error"}
        BY <1>6 DEF Outcomes
      <3>3. CASE outcome = "error"
        BY <3>1, <3>3 DEF AskTelemetry
      <3>4. CASE outcome \in {"unavailable", "timeout"}
        <4>1. (IF assessment.asOf = None THEN DATASET_AS_OF_DATE ELSE assessment.asOf) \in Int
          BY <1>2, AsOfAssumption, HorizonAssumption
        <4> QED
          BY <3>4, <4>1 DEF AskTelemetry
      <3> QED
        BY <3>2, <3>3, <3>4
    <2>3. quant' \in QuantitativeEvidence /\ ~quant'.available /\ quant' # None
      BY <2>2, NoTelemetryTyped, NoneAssumption
    <2>4. LanesTyped'
      BY <1>1, <2>3 DEF LanesInv, LanesTyped
    <2>5. Staged'
      BY <1>1, <2>3 DEF LanesInv, Staged, Before, Underway
    <2>6. TelemetryWhole'
      BY <2>1, <2>3 DEF TelemetryWhole
    <2>7. InTurn'
      BY <1>1, <1>2, <2>1, InTurnKept
    <2> QED
      BY <1>4, <2>4, <2>5, <2>6, <2>7 DEF LanesInv
  <1> QED
    BY <1>5, <1>6

LEMMA AnalyseKeeps == ASSUME LanesInv, Analyse PROVE LanesInv'
  <1>1. /\ stage = "lanes" /\ quant = None /\ Len(answers) = 4
        /\ quant' = analyse(answers) /\ UNCHANGED answers /\ failed' = failed
        /\ UNCHANGED <<data, assessment>> /\ UNCHANGED <<stage, plan>>
        /\ UNCHANGED left /\ UNCHANGED found /\ UNCHANGED retrieval
    BY DEF Analyse, TelemetryTools
  <1>2. /\ "quantitative" \notin failed /\ InTurn
        /\ data \in Datasets /\ assessment \in Assessments
    BY <1>1 DEF LanesInv, LanesTyped, TelemetryWhole
  <1>3. \A i \in 1..4 : answers[i] = Response(TelemetryTools[i], assessment.asOf)
    BY <1>1, <1>2 DEF InTurn
  <1>4. /\ quant' \in QuantitativeEvidence /\ quant'.cutoff = ExpectedCutoff
        /\ ~quant'.available => \/ ~HasArtifact
                                \/ \A d \in data.rows.usage_weekly : d > ExpectedCutoff
    BY <1>1, <1>2, <1>3, Analysed
  <1>5. quant' # None
    BY <1>4, NoneAssumption
  <1>6. \A i \in DOMAIN answers : answers[i].cutoff = ExpectedCutoff
    <2>1. DOMAIN answers = 1..4
      BY <1>1, <1>2 DEF InTurn
    <2> QED
      BY <1>2, <1>3, <2>1, Read DEF InTime
  <1>7. LanesTyped'
    BY <1>1, <1>4 DEF LanesInv, LanesTyped
  <1>8. InTurn'
    BY <1>1, <1>2, InTurnKept
  <1>9. Staged'
    BY <1>1, <1>5 DEF LanesInv, Staged, Before, Underway
  <1>10. TelemetryWhole'
    BY <1>1, <1>2, <1>4, <1>5, <1>6, SameCut DEF TelemetryWhole, TelemetryTools
  <1>11. SearchesInTurn' /\ RetrievalWhole' /\ RetryIsTargeted' /\ SearchesDated'
    BY <1>1, SearchesKept
  <1> QED
    BY <1>7, <1>8, <1>9, <1>10, <1>11 DEF LanesInv

LEMMA EmptySeq ==
    ASSUME NEW T, NEW l \in Seq(T)
    PROVE  Len(l) = 0 <=> l = <<>>
  OBVIOUS

LEMMA EmptyIsPlan == <<>> \in Seq(SubGoals)
  OBVIOUS

LEMMA Suffix ==
    ASSUME NEW T, NEW s \in Seq(T), NEW n \in 0..Len(s), NEW l,
           l = SubSeq(s, n + 1, Len(s))
    PROVE  /\ l = <<>> <=> n = Len(s)
           /\ l # <<>> => /\ Head(l) = s[n + 1] /\ n + 1 \in 0..Len(s)
                          /\ Tail(l) = SubSeq(s, (n + 1) + 1, Len(s))
  <1>1. n \in Nat /\ Len(s) \in Nat /\ n <= Len(s)
    OBVIOUS
  <1>2. l \in Seq(T) /\ Len(l) = Len(s) - n
    BY <1>1
  <1>3. l = <<>> <=> n = Len(s)
    <2>1. Len(l) = 0 <=> n = Len(s)
      BY <1>1, <1>2
    <2>2. Len(l) = 0 <=> l = <<>>
      BY <1>2, EmptySeq
    <2> QED
      BY <2>1, <2>2
  <1>4. ASSUME l # <<>>
        PROVE  /\ Head(l) = s[n + 1] /\ n + 1 \in 0..Len(s)
               /\ Tail(l) = SubSeq(s, (n + 1) + 1, Len(s))
    <2>1. n + 1 \in 1..Len(s) /\ Len(l) >= 1
      BY <1>1, <1>2, <1>3, <1>4
    <2>2. \A k \in 1..Len(l) : l[k] = s[n + k]
      BY <1>1, <1>2
    <2>3. Head(l) = s[n + 1]
      BY <1>2, <2>1, <2>2
    <2>4. PICK r : r = SubSeq(s, (n + 1) + 1, Len(s))
      OBVIOUS
    <2>5. /\ r \in Seq(T) /\ Len(r) = Len(l) - 1
          /\ \A k \in 1..Len(l) - 1 : r[k] = s[(n + 1) + k]
      BY <1>1, <1>2, <2>1, <2>4
    <2>6. PICK t : t = Tail(l)
      OBVIOUS
    <2>7. /\ t \in Seq(T) /\ Len(t) = Len(l) - 1
          /\ \A k \in 1..Len(l) - 1 : t[k] = l[k + 1]
      BY <1>2, <1>4, <2>6
    <2>8. \A k \in 1..Len(l) - 1 : t[k] = r[k]
      <3>1. ASSUME NEW k \in 1..Len(l) - 1 PROVE t[k] = r[k]
        <4>1. k + 1 \in 1..Len(l) /\ n + (k + 1) = (n + 1) + k
          BY <1>1, <1>2
        <4> QED
          BY <2>2, <2>5, <2>7, <4>1
      <3> QED
        BY <3>1
    <2>9. t = r
      BY <2>5, <2>7, <2>8
    <2> QED
      BY <2>1, <2>3, <2>4, <2>6, <2>9
  <1> QED
    BY <1>3, <1>4

LEMMA GuidanceSet ==
    ASSUME NEW e \in RetrievalEvidence, NEW g \in BOOLEAN, NEW more,
           more = [e EXCEPT !.guidance = g]
    PROVE  /\ more \in RetrievalEvidence /\ more.available = e.available
           /\ more.observations = e.observations
  BY DEF RetrievalEvidence

LEMMA AnswerKeeps == ASSUME LanesInv, SearchAnswers PROVE LanesInv'
  <1>1. /\ left # None /\ left # <<>> /\ Valid(assessment.asOf) /\ left' = Tail(left)
        /\ UNCHANGED <<data, assessment>> /\ UNCHANGED <<stage, plan>>
        /\ UNCHANGED answers /\ UNCHANGED <<quant, failed>> /\ UNCHANGED retrieval
    BY DEF SearchAnswers, Searching
  <1>2. /\ stage \in {"lanes", "targeted_retry"} /\ left \in Seq(SubGoals)
        /\ found \in RetrievalEvidence /\ Dated(found, ExpectedCutoff)
        /\ data \in Datasets /\ assessment \in Assessments
        /\ plan \in Seq(SubGoals) /\ WellPlanned(plan)
    BY <1>1 DEF LanesInv, LanesTyped, Staged, SearchesDated, Underway
  <1>3. Head(left) \in SubGoals /\ left' \in Seq(SubGoals)
    BY <1>1, <1>2
  <1>4. left' # None
    BY <1>3, NoneAssumption
  <1>5. \/ /\ Head(left) = GUIDANCE_SUB_GOAL
           /\ \E some \in BOOLEAN : found' = [found EXCEPT !.guidance = some]
        \/ /\ Head(left) # GUIDANCE_SUB_GOAL
           /\ \E o \in _account_search(Head(left), assessment.asOf) :
                 found' = [found EXCEPT !.observations = Append(@, o)]
    BY DEF SearchAnswers
  <1>6. \/ /\ Head(left) = GUIDANCE_SUB_GOAL
           /\ found' \in RetrievalEvidence /\ found'.available = found.available
           /\ found'.observations = found.observations
        \/ /\ Head(left) # GUIDANCE_SUB_GOAL
           /\ \E o \in Observations :
                 /\ o.subGoal = Head(left) /\ \A c \in o.citations : c.date <= ExpectedCutoff
                 /\ found' \in RetrievalEvidence /\ found'.available = found.available
                 /\ Len(found'.observations) = Len(found.observations) + 1
                 /\ \A i \in 1..Len(found.observations) :
                       found'.observations[i] = found.observations[i]
                 /\ found'.observations[Len(found.observations) + 1] = o
    <2>1. CASE Head(left) = GUIDANCE_SUB_GOAL
      <3>1. PICK some \in BOOLEAN : found' = [found EXCEPT !.guidance = some]
        BY <1>5, <2>1
      <3> QED
        BY <1>2, <2>1, <3>1, GuidanceSet
    <2>2. CASE Head(left) # GUIDANCE_SUB_GOAL
      <3>1. PICK o \in _account_search(Head(left), assessment.asOf) :
               found' = [found EXCEPT !.observations = Append(@, o)]
        BY <1>5, <2>2
      <3>2. /\ o \in Observations /\ o.subGoal = Head(left)
            /\ \A c \in o.citations : c.date <= ExpectedCutoff
        BY <1>2, <1>3, <3>1, SearchIsSound
      <3> QED
        BY <1>2, <2>2, <3>1, <3>2, OneMore
    <2> QED
      BY <2>1, <2>2
  <1>7. found' \in RetrievalEvidence /\ found'.available = found.available
    BY <1>6
  <1>8. ASSUME NEW i \in DOMAIN found'.observations
        PROVE  \/ /\ i \in DOMAIN found.observations
                  /\ found'.observations[i] = found.observations[i]
               \/ /\ Head(left) # GUIDANCE_SUB_GOAL /\ i = Len(found.observations) + 1
                  /\ found'.observations[i].subGoal = Head(left)
                  /\ \A c \in found'.observations[i].citations : c.date <= ExpectedCutoff
    <2>1. i \in 1..Len(found'.observations) /\ Len(found.observations) \in Nat
      BY <1>2, <1>7, EvidenceFields
    <2>2. DOMAIN found.observations = 1..Len(found.observations)
      BY <1>2, EvidenceFields
    <2>3. CASE Head(left) = GUIDANCE_SUB_GOAL
      BY <1>6, <2>3
    <2>4. CASE Head(left) # GUIDANCE_SUB_GOAL
      <3>1. Len(found'.observations) = Len(found.observations) + 1
        BY <1>6, <2>4
      <3>2. i \in 1..Len(found.observations) \/ i = Len(found.observations) + 1
        BY <2>1, <3>1
      <3> QED
        BY <1>6, <2>2, <2>4, <3>2
    <2> QED
      BY <2>3, <2>4
  <1>9. Dated(found', ExpectedCutoff)
    BY <1>2, <1>8 DEF Dated
  <1>10. LanesTyped'
    BY <1>1, <1>3, <1>7 DEF LanesInv, LanesTyped
  <1>11. InTurn'
    BY <1>1, InTurnKept DEF LanesInv
  <1>12. Staged'
    BY <1>1, <1>2 DEF LanesInv, Staged, Before, Underway
  <1>13. TelemetryWhole'
    BY <1>1, SameCut DEF LanesInv, TelemetryWhole
  <1>14. SearchesInTurn'
    <2> SUFFICES ASSUME stage = "lanes"
                 PROVE  /\ retrieval = None /\ found'.available /\ "retrieval" \notin failed
                        /\ \E n \in 0..Len(plan) :
                              /\ left' = SubSeq(plan, n + 1, Len(plan))
                              /\ Len(found'.observations) = IF n = Len(plan) THEN n - 1 ELSE n
                              /\ \A i \in DOMAIN found'.observations :
                                    found'.observations[i].subGoal = plan[i]
      BY <1>1, <1>4 DEF SearchesInTurn
    <2>1. retrieval = None /\ found.available /\ "retrieval" \notin failed
      BY <1>1 DEF LanesInv, SearchesInTurn
    <2>2. PICK n \in 0..Len(plan) :
             /\ left = SubSeq(plan, n + 1, Len(plan))
             /\ Len(found.observations) = IF n = Len(plan) THEN n - 1 ELSE n
             /\ \A i \in DOMAIN found.observations : found.observations[i].subGoal = plan[i]
      BY <1>1 DEF LanesInv, SearchesInTurn
    <2>3. /\ n # Len(plan) /\ n + 1 \in 0..Len(plan) /\ Head(left) = plan[n + 1]
          /\ left' = SubSeq(plan, (n + 1) + 1, Len(plan))
      BY <1>1, <1>2, <2>2, Suffix
    <2>4. n \in Nat /\ Len(plan) \in Nat /\ Len(found.observations) = n
          /\ n + 1 \in DOMAIN plan /\ Len(plan) \in DOMAIN plan
      BY <1>2, <2>2, <2>3, SMTT(30)
    <2>5. Head(left) = GUIDANCE_SUB_GOAL <=> n + 1 = Len(plan)
      BY <1>2, <2>3, <2>4 DEF WellPlanned
    <2>6. Len(found'.observations) = IF n + 1 = Len(plan) THEN (n + 1) - 1 ELSE n + 1
      <3>1. CASE Head(left) = GUIDANCE_SUB_GOAL
        BY <1>6, <2>4, <2>5, <3>1
      <3>2. CASE Head(left) # GUIDANCE_SUB_GOAL
        BY <1>6, <2>4, <2>5, <3>2
      <3> QED
        BY <3>1, <3>2
    <2>7. \A i \in DOMAIN found'.observations : found'.observations[i].subGoal = plan[i]
      BY <1>8, <2>2, <2>3, <2>4
    <2> QED
      BY <1>7, <2>1, <2>3, <2>6, <2>7
  <1>15. RetrievalWhole'
    BY <1>1 DEF LanesInv, RetrievalWhole
  <1>16. RetryIsTargeted'
    <2> SUFFICES ASSUME stage = "targeted_retry"
                 PROVE  /\ Lacking(retrieval) # {} /\ found'.available
                        /\ \A i \in DOMAIN left' : left'[i] \in Lacking(retrieval)
                        /\ \A i \in DOMAIN found'.observations :
                              found'.observations[i].subGoal \in Lacking(retrieval)
      BY <1>1 DEF RetryIsTargeted, Lacking
    <2>1. /\ Lacking(retrieval) # {} /\ found.available
          /\ \A i \in DOMAIN left : left[i] \in Lacking(retrieval)
          /\ \A i \in DOMAIN found.observations :
                found.observations[i].subGoal \in Lacking(retrieval)
      BY <1>1 DEF LanesInv, RetryIsTargeted
    <2>2. 1 \in DOMAIN left /\ Head(left) = left[1]
      BY <1>1, <1>2
    <2>3. ASSUME NEW i \in DOMAIN left' PROVE left'[i] \in Lacking(retrieval)
      <3>1. i + 1 \in DOMAIN left /\ left'[i] = left[i + 1]
        BY <1>1, <1>2
      <3> QED
        BY <2>1, <3>1
    <2>4. ASSUME NEW i \in DOMAIN found'.observations
          PROVE  found'.observations[i].subGoal \in Lacking(retrieval)
      BY <1>8, <2>1, <2>2
    <2> QED
      BY <1>7, <2>1, <2>3, <2>4
  <1>17. SearchesDated'
    BY <1>1, <1>9, SameCut DEF LanesInv, SearchesDated, Dated
  <1> QED
    BY <1>10, <1>11, <1>12, <1>13, <1>14, <1>15, <1>16, <1>17 DEF LanesInv

\* The retrieval lane ends: with all it was planned to search, or with nothing
\* and a tool to blame.
LEMMA LaneGives ==
    ASSUME LanesInv, stage = "lanes", left # None, NEW e \in RetrievalEvidence, Gives(e),
           Dated(e, ExpectedCutoff),
           e.available => Follows(e.observations, plan),
           e.available <=> "retrieval" \notin failed',
           "quantitative" \in failed' <=> "quantitative" \in failed,
           UNCHANGED <<data, assessment>>, UNCHANGED answers, UNCHANGED <<plan, quant, found>>
    PROVE  LanesInv'
  <1>1. left' = None /\ retrieval' = e /\ stage' = "lanes" /\ e # None
    BY NoneAssumption DEF Gives
  <1>2. LanesTyped'
    BY <1>1 DEF LanesInv, LanesTyped
  <1>3. InTurn'
    BY InTurnKept DEF LanesInv
  <1>4. Staged'
    BY <1>1 DEF LanesInv, Staged, Before, Underway
  <1>5. TelemetryWhole'
    BY <1>1, SameCut DEF LanesInv, TelemetryWhole
  <1>6. SearchesInTurn' /\ RetrievalWhole' /\ RetryIsTargeted'
    BY <1>1 DEF SearchesInTurn, RetrievalWhole, RetryIsTargeted
  <1>7. SearchesDated'
    BY <1>1, SameCut DEF LanesInv, SearchesDated, Dated
  <1> QED
    BY <1>2, <1>3, <1>4, <1>5, <1>6, <1>7 DEF LanesInv

\* The retry ends, and its result is merged into the first round's.
LEMMA RetryGives ==
    ASSUME LanesInv, stage = "targeted_retry", left # None,
           NEW e \in RetrievalEvidence, Gives(e), Dated(e, ExpectedCutoff),
           e.available => \A i \in DOMAIN e.observations :
                             e.observations[i].subGoal \in Lacking(retrieval),
           UNCHANGED <<data, assessment>>, UNCHANGED answers, UNCHANGED <<plan, quant, found>>
    PROVE  LanesInv'
  <1>1. /\ left' = None /\ retrieval' = merge_evidence(retrieval, e)
        /\ stage' = "merge_evidence"
    BY DEF Gives
  <1>2. /\ retrieval' \in RetrievalEvidence /\ retrieval'.available
        /\ Follows(retrieval'.observations, plan) /\ Dated(retrieval', ExpectedCutoff)
        /\ retrieval' # None
    BY <1>1, SecondRound, NoneAssumption
  <1>3. LanesTyped'
    BY <1>1, <1>2 DEF LanesInv, LanesTyped
  <1>4. InTurn'
    BY InTurnKept DEF LanesInv
  <1>5. Staged'
    BY <1>1, <1>2 DEF LanesInv, Staged, Before, Underway
  <1>6. TelemetryWhole' /\ SearchesInTurn' /\ RetrievalWhole' /\ RetryIsTargeted'
    BY <1>1, <1>2 DEF TelemetryWhole, SearchesInTurn, RetrievalWhole, RetryIsTargeted
  <1>7. SearchesDated'
    BY <1>1, <1>2, SameCut DEF LanesInv, SearchesDated, Dated
  <1> QED
    BY <1>3, <1>4, <1>5, <1>6, <1>7 DEF LanesInv

\* Where a search is left, a lane or the retry is under way for a valid date.
LEMMA Underfoot ==
    ASSUME LanesInv, left # None
    PROVE  /\ stage \in {"lanes", "targeted_retry"} /\ Valid(assessment.asOf)
           /\ data \in Datasets /\ assessment \in Assessments
           /\ left \in Seq(SubGoals) /\ found \in RetrievalEvidence
           /\ Dated(found, ExpectedCutoff) /\ found.available
           /\ plan \in Seq(SubGoals) /\ WellPlanned(plan)
           /\ stage = "targeted_retry" =>
                 \A i \in DOMAIN found.observations :
                    found.observations[i].subGoal \in Lacking(retrieval)
  BY DEF LanesInv, LanesTyped, Staged, SearchesDated, SearchesInTurn, RetryIsTargeted, Underway

LEMMA UnavailableKeeps == ASSUME LanesInv, SearchUnavailable PROVE LanesInv'
  <1>1. /\ left # None /\ Gives(NoRetrieval) /\ failed' = failed \cup {"retrieval"}
        /\ UNCHANGED <<data, assessment>> /\ UNCHANGED answers
        /\ UNCHANGED <<plan, quant, found>>
    BY DEF SearchUnavailable, Searching, GaveUp
  <1>2. /\ NoRetrieval \in RetrievalEvidence /\ ~NoRetrieval.available
        /\ Dated(NoRetrieval, ExpectedCutoff)
    BY <1>1, Underfoot, NothingFound
  <1>3. CASE stage = "lanes"
    BY <1>1, <1>2, <1>3, LaneGives
  <1>4. CASE stage = "targeted_retry"
    BY <1>1, <1>2, <1>4, RetryGives
  <1> QED
    BY <1>1, <1>3, <1>4, Underfoot

LEMMA RaisesKeeps == ASSUME LanesInv, SearchRaises PROVE LanesInv'
  <1>1. /\ left # None /\ failed' = failed \cup {"retrieval"}
        /\ UNCHANGED <<data, assessment>> /\ UNCHANGED answers
        /\ UNCHANGED <<plan, quant, found>>
    BY Underfoot DEF SearchRaises, Searching
  <1>2. /\ NoRetrieval \in RetrievalEvidence /\ ~NoRetrieval.available
        /\ Dated(NoRetrieval, ExpectedCutoff)
    BY <1>1, Underfoot, NothingFound
  <1>3. CASE stage = "lanes"
    <2>1. Gives(NoRetrieval)
      BY <1>3 DEF SearchRaises
    <2> QED
      BY <1>1, <1>2, <1>3, <2>1, LaneGives
  <1>4. CASE stage = "targeted_retry"
    <2>1. stage' = "raised" /\ left' = None /\ UNCHANGED retrieval
      BY <1>4 DEF SearchRaises
    <2>2. LanesTyped'
      BY <1>1, <2>1 DEF LanesInv, LanesTyped
    <2>3. Staged'
      BY <1>1, <2>1 DEF LanesInv, Staged, Before, Underway
    <2>4. TelemetryWhole' /\ SearchesInTurn' /\ RetrievalWhole' /\ RetryIsTargeted'
      BY <2>1 DEF TelemetryWhole, SearchesInTurn, RetrievalWhole, RetryIsTargeted, Underway
    <2>5. InTurn' /\ SearchesDated'
      BY <1>1, <2>1, ReadKept
    <2> QED
      BY <2>2, <2>3, <2>4, <2>5 DEF LanesInv
  <1> QED
    BY <1>1, <1>3, <1>4, Underfoot

LEMMA GatheredKeeps == ASSUME LanesInv, Gathered PROVE LanesInv'
  <1>1. /\ left = <<>> /\ Gives(found)
        /\ UNCHANGED <<data, assessment>> /\ UNCHANGED answers
        /\ UNCHANGED <<plan, quant, found>> /\ failed' = failed
    BY DEF Gathered
  <1>2. left # None
    BY <1>1, NoneAssumption, EmptyIsPlan
  <1>3. CASE stage = "lanes"
    <2>1. "retrieval" \notin failed
      BY <1>2, <1>3 DEF LanesInv, SearchesInTurn
    <2>2. PICK n \in 0..Len(plan) :
             /\ left = SubSeq(plan, n + 1, Len(plan))
             /\ Len(found.observations) = IF n = Len(plan) THEN n - 1 ELSE n
             /\ \A i \in DOMAIN found.observations : found.observations[i].subGoal = plan[i]
      BY <1>2, <1>3 DEF LanesInv, SearchesInTurn
    <2>3. n = Len(plan)
      BY <1>1, <1>2, <2>2, Suffix, Underfoot
    <2>4. Follows(found.observations, plan)
      BY <2>2, <2>3 DEF Follows
    <2> QED
      BY <1>1, <1>2, <1>3, <2>1, <2>4, Underfoot, LaneGives
  <1>4. CASE stage = "targeted_retry"
    BY <1>1, <1>2, <1>4, Underfoot, RetryGives
  <1> QED
    BY <1>2, <1>3, <1>4, Underfoot

\* The fan-in: what it withholds leaves each sub-goal's observation in place.
LEMMA MergeKeeps == ASSUME LanesInv, Merge PROVE LanesInv'
  <1>1. /\ stage \in {"lanes", "merge_evidence"} /\ quant # None /\ retrieval # None
        /\ UNCHANGED <<data, assessment>> /\ UNCHANGED answers
        /\ UNCHANGED <<plan, left, found, failed>>
    BY DEF Merge, LanesInv, Staged
  <1>2. /\ retrieval \in RetrievalEvidence /\ quant \in QuantitativeEvidence
        /\ Dated(retrieval, ExpectedCutoff) /\ Valid(assessment.asOf)
        /\ WellPlanned(plan) /\ plan \in Seq(SubGoals) /\ left = None
        /\ retrieval.available => Follows(retrieval.observations, plan)
    BY <1>1 DEF LanesInv, LanesTyped, Staged, SearchesInTurn, RetrievalWhole,
                SearchesDated, Underway
  <1>3. quant' \in QuantitativeEvidence
    <2>1. \/ quant' = quant
          \/ quant' = [quant EXCEPT !.available = FALSE,
                          !.coverage.critical = @ \cup {"failed its screen"}]
      BY DEF Merge
    <2>2. [quant EXCEPT !.available = FALSE,
              !.coverage.critical = @ \cup {"failed its screen"}] \in QuantitativeEvidence
      BY <1>2 DEF QuantitativeEvidence, CoverageReports
    <2> QED
      BY <1>2, <2>1, <2>2
  <1>4. ScreenedFrom(retrieval, retrieval')
    <2>1. PICK s : s = screen_evidence(quant, retrieval)
      OBVIOUS
    <2>2. CASE s.rules = {}
      <3>1. retrieval' = retrieval
        BY <2>1, <2>2 DEF Merge
      <3> QED
        BY <1>2, <3>1 DEF ScreenedFrom
    <2>3. CASE s.rules # {}
      <3>1. s.guidance \in BOOLEAN
        BY <1>2, <2>1, EvidenceFields DEF screen_evidence
      <3>2. retrieval' = Withheld(retrieval, s.kept, s.guidance)
        BY <2>1, <2>3 DEF Merge, Withheld
      <3>3. ScreenedFrom(retrieval, Withheld(retrieval, s.kept, s.guidance))
        BY <1>2, <3>1, Screened
      <3> QED
        BY <3>2, <3>3
    <2> QED
      BY <2>2, <2>3
  <1>5. DOMAIN retrieval'.observations = DOMAIN retrieval.observations
    BY <1>2, <1>4, EvidenceFields DEF ScreenedFrom
  <1>6. Dated(retrieval', ExpectedCutoff)
    BY <1>2, <1>4, <1>5 DEF Dated, ScreenedFrom
  <1>7. retrieval'.available => Follows(retrieval'.observations, plan)
    BY <1>2, <1>4, <1>5 DEF Follows, ScreenedFrom
  <1>8. quant' # None /\ retrieval' # None
    BY <1>3, <1>4, NoneAssumption DEF ScreenedFrom
  <1>9. PICK verdict : verdict = coverage_verdict(quant', retrieval', round')
    OBVIOUS
  <1>10. stage' = route_coverage(verdict)
    BY <1>9 DEF Merge
  <1>11. verdict \in {"recoverable", "critical", "sufficient"}
    BY <1>9 DEF coverage_verdict
  <1>12. /\ stage' \in {"targeted_retry", "degraded_result", "conflict_gate"}
         /\ stage' = "targeted_retry" => verdict = "recoverable"
    BY <1>10, <1>11 DEF route_coverage
  <1>13. verdict = "recoverable" => /\ quant'.available /\ retrieval'.available
                                    /\ \/ citations(retrieval') = {}
                                       \/ uncovered_sub_goals(retrieval') # <<>>
    BY <1>9 DEF coverage_verdict
  <1>14. stage' = "targeted_retry" => retrieval'.available /\ Lacking(retrieval') # {}
    <2> SUFFICES ASSUME stage' = "targeted_retry" PROVE Lacking(retrieval') # {}
      BY <1>12, <1>13
    <2>1. CASE uncovered_sub_goals(retrieval') # <<>>
      BY <1>4, <2>1, UncoveredIsLacking DEF ScreenedFrom
    <2>2. CASE citations(retrieval') = {}
      <3>1. Len(retrieval'.observations) = Len(plan) - 1 /\ Len(plan) >= 2
        BY <1>2, <1>7, <1>12, <1>13 DEF Follows, WellPlanned
      <3>2. 1 \in DOMAIN retrieval'.observations
        BY <1>2, <1>4, <3>1, EvidenceFields DEF ScreenedFrom
      <3>3. retrieval'.observations[1].citations = {}
        BY <2>2, <3>2 DEF citations
      <3>4. ~Covered(retrieval'.observations[1])
        BY <3>3 DEF Covered
      <3> QED
        BY <3>2, <3>4 DEF Lacking
    <2> QED
      BY <1>12, <1>13, <2>1, <2>2
  <1>15. LanesTyped'
    BY <1>1, <1>3, <1>4 DEF LanesInv, LanesTyped, ScreenedFrom
  <1>16. InTurn'
    BY <1>1, InTurnKept DEF LanesInv
  <1>17. Staged'
    BY <1>1, <1>2, <1>8, <1>12, <1>14 DEF Staged, Before, Underway
  <1>18. TelemetryWhole' /\ SearchesInTurn'
    BY <1>12 DEF TelemetryWhole, SearchesInTurn
  <1>19. RetrievalWhole'
    BY <1>1, <1>7 DEF RetrievalWhole
  <1>20. RetryIsTargeted'
    BY <1>1, <1>2, <1>14 DEF RetryIsTargeted, Lacking
  <1>21. SearchesDated'
    BY <1>1, <1>6, SameCut DEF LanesInv, SearchesDated, Dated
  <1> QED
    BY <1>15, <1>16, <1>17, <1>18, <1>19, <1>20, <1>21 DEF LanesInv

LEMMA RetryKeeps == ASSUME LanesInv, TargetedRetry PROVE LanesInv'
  <1>1. /\ stage = "targeted_retry" /\ left = None
        /\ found' = [NoRetrieval EXCEPT !.available = TRUE]
        /\ UNCHANGED <<data, assessment>> /\ UNCHANGED <<stage, plan>>
        /\ UNCHANGED answers /\ UNCHANGED <<quant, failed>> /\ UNCHANGED retrieval
    BY DEF TargetedRetry
  <1>2. /\ retrieval \in RetrievalEvidence /\ plan \in Seq(SubGoals)
        /\ Lacking(retrieval) # {} /\ data \in Datasets /\ assessment \in Assessments
    BY <1>1 DEF LanesInv, LanesTyped, Staged, RetryIsTargeted
  <1>3. PICK targets \in SUBSET Lacking(retrieval) :
           left' = Picked(plan, {i \in DOMAIN plan : plan[i] \in targets})
    <2>1. /\ ToSet(uncovered_sub_goals(retrieval)) \in SUBSET Lacking(retrieval)
          /\ ToSet(uncovered_sub_goals(retrieval)) # {}
      BY <1>2, UncoveredIsLacking
    <2> QED
      BY <2>1 DEF TargetedRetry
  <1>4. PICK I : I = {i \in DOMAIN plan : plan[i] \in targets}
    OBVIOUS
  <1>5. I \in SUBSET DOMAIN plan
    BY <1>4
  <1>6. /\ left' \in Seq(SubGoals) /\ Len(left') = Cardinality(I)
        /\ \A k \in 1..Cardinality(I) : left'[k] = plan[Nth(I, k)] /\ Nth(I, k) \in I
    BY <1>2, <1>3, <1>4, <1>5, PickedMembers
  <1>7. \A i \in DOMAIN left' : left'[i] \in Lacking(retrieval)
    BY <1>4, <1>6
  <1>8. /\ found' \in RetrievalEvidence /\ found'.available
        /\ found'.observations = <<>> /\ \A cutoff : Dated(found', cutoff)
    BY <1>1, <1>2, FreshSearch
  <1>9. LanesTyped'
    BY <1>1, <1>6, <1>8 DEF LanesInv, LanesTyped
  <1>10. InTurn'
    BY <1>1, InTurnKept DEF LanesInv
  <1>11. Staged'
    BY <1>1 DEF LanesInv, Staged, Before, Underway
  <1>12. TelemetryWhole' /\ SearchesInTurn'
    BY <1>1 DEF TelemetryWhole, SearchesInTurn
  <1>13. RetrievalWhole'
    BY <1>1 DEF LanesInv, RetrievalWhole
  <1>14. RetryIsTargeted'
    <2>1. \A i \in DOMAIN found'.observations : FALSE
      BY <1>8
    <2> QED
      BY <1>1, <1>2, <1>7, <1>8, <2>1 DEF RetryIsTargeted, Lacking
  <1>15. SearchesDated'
    BY <1>1, <1>8, SameCut DEF LanesInv, SearchesDated, Dated
  <1> QED
    BY <1>9, <1>10, <1>11, <1>12, <1>13, <1>14, <1>15 DEF LanesInv

LEMMA FollowsFront ==
    ASSUME NEW e \in RetrievalEvidence, NEW p \in Seq(SubGoals), WellPlanned(p),
           Follows(e.observations, p)
    PROVE  [i \in DOMAIN e.observations |-> e.observations[i].subGoal] = Front(p)
  <1>1. PICK n \in Nat : n = Len(p) - 1
    BY DEF WellPlanned
  <1>2. n \in 0..Len(p) /\ Len(e.observations) = n
    BY <1>1 DEF Follows
  <1>3. DOMAIN e.observations = 1..n
    BY <1>2, EvidenceFields
  <1>4. PICK front : front = SubSeq(p, 1, n)
    OBVIOUS
  <1>5. front = [i \in 1..n |-> p[i]]
    BY <1>1, <1>2, <1>4
  <1>6. Front(p) = front
    BY <1>1, <1>4 DEF Front
  <1> QED
    BY <1>3, <1>5, <1>6 DEF Follows

LEMMA LanesInductive == LanesInv /\ [LanesNext]_lanes_vars => LanesInv'
  <1> SUFFICES ASSUME LanesInv, [LanesNext]_lanes_vars PROVE LanesInv'
    OBVIOUS
  <1>1. CASE LanesNext
    BY <1>1, ValidateKeeps, ContextKeeps, PlanKeeps, TelemetryKeeps, AnalyseKeeps,
       AnswerKeeps, UnavailableKeeps, RaisesKeeps, GatheredKeeps, MergeKeeps, RetryKeeps
       DEF LanesNext
  <1>2. CASE UNCHANGED lanes_vars
    <2>1. /\ UNCHANGED <<data, assessment>> /\ UNCHANGED answers /\ UNCHANGED found
          /\ UNCHANGED retrieval /\ UNCHANGED <<stage, plan, quant, left, failed>>
      BY <1>2 DEF lanes_vars
    <2>2. LanesTyped' /\ Staged'
      BY <2>1 DEF LanesInv, LanesTyped, Staged
    <2>3. TelemetryWhole'
      BY <2>1, SameCut DEF LanesInv, TelemetryWhole
    <2>4. SearchesInTurn' /\ RetrievalWhole'
      BY <2>1 DEF LanesInv, SearchesInTurn, RetrievalWhole
    <2>5. RetryIsTargeted'
      BY <2>1 DEF LanesInv, RetryIsTargeted, Lacking
    <2>6. InTurn' /\ SearchesDated'
      BY <2>1, ReadKept
    <2> QED
      BY <2>2, <2>3, <2>4, <2>5, <2>6 DEF LanesInv
  <1> QED
    BY <1>1, <1>2

\* No tool response and no document a lane holds, in either round and whatever
\* fails, is dated past the account's cutoff or the date asked for: for every
\* account, request and plan (the clamp of tools/services.py).
THEOREM FutureSafety == LanesSpec => []LanesSeeNoFuture
  <1>1. LanesInv => LanesSeeNoFuture
    <2> SUFFICES ASSUME LanesInv PROVE LanesSeeNoFuture
      OBVIOUS
    <2>1. ASSUME NEW i \in DOMAIN answers, NEW f \in DOMAIN answers[i].rows,
                 NEW d \in answers[i].rows[f]
          PROVE  d <= ExpectedCutoff
      <3>1. /\ i \in 1..4 /\ answers[i] = Response(TelemetryTools[i], assessment.asOf)
            /\ data \in Datasets /\ assessment \in Assessments
        BY DEF LanesInv, InTurn, LanesTyped
      <3>2. InTime(answers[i])
        BY <3>1, Read
      <3> QED
        BY <2>1, <3>2 DEF InTime
    <2>2. \A c \in citations(found) : c.date <= ExpectedCutoff
      BY DatedCitations DEF LanesInv, SearchesDated
    <2>3. retrieval # None => \A c \in citations(retrieval) : c.date <= ExpectedCutoff
      BY DatedCitations DEF LanesInv, SearchesDated
    <2> QED
      BY <2>1, <2>2, <2>3 DEF LanesSeeNoFuture
  <1> QED
    BY <1>1, LanesInitInv, LanesInductive, PTL DEF LanesSpec

\* A lane's result holds every answer it was planned to fetch, for one cutoff
\* and in the plan's order, or it says that it does not, for want of a tool, of
\* telemetry or of an artifact (quantitative_analyst.py, evidence_retriever.py).
THEOREM WholeSafety == LanesSpec => []LanesAreWholeOrExcused
  <1>1. LanesInv => LanesAreWholeOrExcused
    <2> SUFFICES ASSUME LanesInv, stage = "lanes" PROVE LanesAreWholeOrExcused
      BY DEF LanesAreWholeOrExcused
    <2>1. quant # None =>
             IF quant.available
             THEN /\ "quantitative" \notin failed
                  /\ Len(answers) = Len(TelemetryTools)
                  /\ \A i \in DOMAIN answers : answers[i].cutoff = quant.cutoff
             ELSE \/ "quantitative" \in failed \/ ~HasArtifact
                  \/ \A d \in data.rows.usage_weekly : d > ExpectedCutoff
      BY DEF LanesInv, TelemetryWhole
    <2>2. ASSUME retrieval # None PROVE left = None
      BY <2>2 DEF LanesInv, SearchesInTurn
    <2>3. ASSUME retrieval # None, retrieval.available
          PROVE  [i \in DOMAIN retrieval.observations |->
                    retrieval.observations[i].subGoal] = Front(plan)
      <3>1. /\ retrieval \in RetrievalEvidence /\ plan \in Seq(SubGoals)
            /\ WellPlanned(plan) /\ Follows(retrieval.observations, plan)
        BY <2>3 DEF LanesInv, LanesTyped, Staged, RetrievalWhole, Underway
      <3> QED
        BY <3>1, FollowsFront
    <2>4. retrieval # None => (retrieval.available <=> "retrieval" \notin failed)
      BY <2>2 DEF LanesInv, SearchesInTurn
    <2> QED
      BY <2>1, <2>3, <2>4 DEF LanesAreWholeOrExcused
  <1> QED
    BY <1>1, LanesInitInv, LanesInductive, PTL DEF LanesSpec

\* The targeted retry never costs a run evidence: what the first round covered
\* stays covered, its guidance stays, and each planned sub-goal keeps its one
\* observation, whatever the searches of the second round return (merge_evidence).
THEOREM RetrySafety == LanesSpec => RetryKeepsCoverage
  <1>1. LanesInv /\ [LanesNext]_lanes_vars =>
          [stage = "targeted_retry" =>
             /\ covered_sub_goals(retrieval) \subseteq covered_sub_goals(retrieval')
             /\ retrieval.guidance => retrieval'.guidance
             /\ [i \in DOMAIN retrieval'.observations |->
                   retrieval'.observations[i].subGoal] = Front(plan)]_lanes_vars
    <2> SUFFICES ASSUME LanesInv, LanesNext, stage = "targeted_retry"
                 PROVE  /\ covered_sub_goals(retrieval) \subseteq covered_sub_goals(retrieval')
                        /\ retrieval.guidance => retrieval'.guidance
                        /\ [i \in DOMAIN retrieval'.observations |->
                              retrieval'.observations[i].subGoal] = Front(plan)
      OBVIOUS
    <2>1. /\ retrieval \in RetrievalEvidence /\ plan \in Seq(SubGoals)
          /\ WellPlanned(plan) /\ Follows(retrieval.observations, plan)
      BY DEF LanesInv, LanesTyped, Staged, RetrievalWhole, Underway
    <2>2. CASE UNCHANGED retrieval
      BY <2>1, <2>2, FollowsFront
    <2>3. ASSUME NEW e \in RetrievalEvidence, Gives(e), Dated(e, ExpectedCutoff),
                 e.available => \A i \in DOMAIN e.observations :
                                   e.observations[i].subGoal \in Lacking(retrieval)
          PROVE  /\ covered_sub_goals(retrieval) \subseteq covered_sub_goals(retrieval')
                 /\ retrieval.guidance => retrieval'.guidance
                 /\ [i \in DOMAIN retrieval'.observations |->
                       retrieval'.observations[i].subGoal] = Front(plan)
      <3>1. retrieval' = merge_evidence(retrieval, e)
        BY <2>3 DEF Gives
      <3>2. /\ retrieval' \in RetrievalEvidence /\ Follows(retrieval'.observations, plan)
            /\ covered_sub_goals(retrieval) \subseteq covered_sub_goals(retrieval')
            /\ retrieval.guidance => retrieval'.guidance
        BY <2>3, <3>1, SecondRound
      <3> QED
        BY <2>1, <3>2, FollowsFront
    <2>4. CASE SearchUnavailable
      <3>1. left # None /\ Gives(NoRetrieval)
        BY <2>4 DEF SearchUnavailable, Searching, GaveUp
      <3>2. /\ NoRetrieval \in RetrievalEvidence /\ ~NoRetrieval.available
            /\ Dated(NoRetrieval, ExpectedCutoff)
        BY <3>1, Underfoot, NothingFound
      <3> QED
        BY <2>3, <3>1, <3>2
    <2>5. CASE Gathered
      <3>1. Gives(found) /\ left # None
        BY <2>5, NoneAssumption, EmptyIsPlan DEF Gathered
      <3> QED
        BY <2>3, <3>1, Underfoot
    <2>6. CASE SearchRaises
      BY <2>2, <2>6 DEF SearchRaises
    <2> QED
      BY <2>2, <2>4, <2>5, <2>6 DEF LanesNext, ValidateRequest, LoadContext, PlanSubGoals,
         AskTelemetry, Analyse, SearchAnswers, Merge, TargetedRetry
  <1> QED
    BY <1>1, LanesInitInv, LanesInductive, PTL DEF LanesSpec, RetryKeepsCoverage
=============================================================================
