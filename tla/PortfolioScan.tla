--------------------------- MODULE PortfolioScan ---------------------------
(***************************************************************************)
(* run_portfolio_scan of serving/scan.py: a dispatcher reserves the most a *)
(* run may cost before it submits one, a pool of workers runs the graph,   *)
(* and the dispatcher then gathers the records in order and gives back     *)
(* what was not spent.                                                     *)
(*                                                                         *)
(* Accounts are positions in the request, which may name one twice.        *)
(***************************************************************************)
EXTENDS Integers, Sequences, FiniteSets

CONSTANTS
    Size,            \* accounts in the request
    Concurrency,     \* workers of the pool
    Budget,          \* the scan's model-call budget
    MAX_MODEL_CALLS, \* what one run may cost, and what is reserved for it
    RunCalls         \* model calls a run really makes at most

ASSUME SizeAssumption        == Size \in Nat
ASSUME ConcurrencyAssumption == Concurrency \in Nat \ {0}
ASSUME BudgetAssumption      == Budget \in Nat
ASSUME CallsAssumption       == /\ MAX_MODEL_CALLS \in Nat \ {0}
                                /\ RunCalls \in 0..MAX_MODEL_CALLS

Accounts == 1..Size

VARIABLES
    next,     \* the account the dispatcher comes to next
    spent,    \* calls reserved and not given back
    pending,  \* submitted accounts, in order
    skipped,  \* accounts left out for want of budget
    job,      \* where each account's future is
    calls,    \* model calls each run has made
    peak,     \* _ConcurrencyMeter.peak
    runs,     \* the scan's records, in the order they were gathered
    status    \* PortfolioScan.status

vars == <<next, spent, pending, skipped, job, calls, peak, runs, status>>

Running == {a \in Accounts : job[a] = "running"}
Called  == Cardinality(UNION {{a} \X (1..calls[a]) : a \in Accounts})

Init ==
    /\ next = 1
    /\ spent = 0
    /\ pending = <<>> /\ skipped = {} /\ runs = <<>>
    /\ job = [a \in Accounts |-> "idle"]
    /\ calls = [a \in Accounts |-> 0]
    /\ peak = 0
    /\ status = "running"

----------------------------------------------------------------------------
\* The dispatch loop: spent is read and reserved under spend_lock.

Dispatching == status = "running" /\ next \in Accounts

Skip ==
    /\ Dispatching
    /\ spent >= Budget
    /\ skipped' = skipped \cup {next}
    /\ next' = next + 1
    /\ UNCHANGED <<spent, pending, job, calls, peak, runs, status>>

\* Mutant: the budget is charged when a run is gathered, not when it starts.
Submit_unreserved ==
    /\ Dispatching
    /\ spent < Budget
    /\ pending' = Append(pending, next)
    /\ job' = [job EXCEPT ![next] = "queued"]
    /\ next' = next + 1
    /\ UNCHANGED <<spent, skipped, calls, peak, runs, status>>

Submit ==
    /\ Dispatching
    /\ spent < Budget
    /\ spent' = spent + MAX_MODEL_CALLS
    /\ pending' = Append(pending, next)
    /\ job' = [job EXCEPT ![next] = "queued"]
    /\ next' = next + 1
    /\ UNCHANGED <<skipped, calls, peak, runs, status>>

----------------------------------------------------------------------------
\* The pool: futures start in the order they were submitted (external: the
\* executor), and assess counts itself in and out of the meter.

Earlier(a) == {b \in Accounts : b < a /\ job[b] = "queued"}

Begin(a) ==
    /\ job[a] = "queued"
    /\ Earlier(a) = {}
    /\ Cardinality(Running) < Concurrency
    /\ job' = [job EXCEPT ![a] = "running"]
    /\ peak' = IF Cardinality(Running) + 1 > peak THEN Cardinality(Running) + 1 ELSE peak
    /\ UNCHANGED <<next, spent, pending, skipped, calls, runs, status>>

CallModel(a) ==
    /\ job[a] = "running"
    /\ calls[a] < RunCalls
    /\ calls' = [calls EXCEPT ![a] = @ + 1]
    /\ UNCHANGED <<next, spent, pending, skipped, job, peak, runs, status>>

\* The run returns a record or raises, with the calls it made either way.
End(a) ==
    /\ job[a] = "running"
    /\ \E outcome \in {"returned", "raised"} : job' = [job EXCEPT ![a] = outcome]
    /\ UNCHANGED <<next, spent, pending, skipped, calls, peak, runs, status>>

----------------------------------------------------------------------------
\* The gather loop: future.result() waits for each run in turn.

\* An exception is recorded as a failed run of no model calls.
Record(a) == [account |-> a, failed |-> job[a] = "raised",
              calls |-> IF job[a] = "raised" THEN 0 ELSE calls[a]]

\* Mutant: an exception ends the loop, and with it the scan.
Gather_raises ==
    /\ status = "running" /\ next > Size
    /\ Len(runs) < Len(pending)
    /\ LET a == pending[Len(runs) + 1]
       IN /\ job[a] = "returned"
          /\ runs' = Append(runs, Record(a))
          /\ spent' = spent - (MAX_MODEL_CALLS - Record(a).calls)
    /\ UNCHANGED <<next, pending, skipped, job, calls, peak, status>>

Gather ==
    /\ status = "running" /\ next > Size
    /\ Len(runs) < Len(pending)
    /\ LET a == pending[Len(runs) + 1]
       IN /\ job[a] \in {"returned", "raised"}
          /\ runs' = Append(runs, Record(a))
          /\ spent' = spent - (MAX_MODEL_CALLS - Record(a).calls)
    /\ UNCHANGED <<next, pending, skipped, job, calls, peak, status>>

\* Mutant: the scan is closed before the last record is gathered.
Complete_early ==
    /\ status = "running" /\ next > Size
    /\ Len(runs) + 1 >= Len(pending)
    /\ status' = "completed"
    /\ UNCHANGED <<next, spent, pending, skipped, job, calls, peak, runs>>

Complete ==
    /\ status = "running" /\ next > Size
    /\ Len(runs) = Len(pending)
    /\ status' = "completed"
    /\ UNCHANGED <<next, spent, pending, skipped, job, calls, peak, runs>>

Dispatcher == Skip \/ Submit \/ Gather \/ Complete
Worker(a) == Begin(a) \/ CallModel(a) \/ End(a)

Next == Dispatcher \/ \E a \in Accounts : Worker(a)

Spec == Init /\ [][Next]_vars /\ WF_vars(Dispatcher)
             /\ \A a \in Accounts : WF_vars(Worker(a))
----------------------------------------------------------------------------
TypeOK ==
    /\ next \in 1..(Size + 1)
    /\ spent \in Int
    /\ pending \in Seq(Accounts)
    /\ skipped \subseteq Accounts
    /\ job \in [Accounts -> {"idle", "queued", "running", "returned", "raised"}]
    /\ calls \in [Accounts -> 0..MAX_MODEL_CALLS]
    /\ peak \in 0..Concurrency
    /\ runs \in Seq([account: Accounts, failed: BOOLEAN, calls: 0..MAX_MODEL_CALLS])
    /\ status \in {"running", "completed"}

\* However the workers interleave, the calls really made stay below the budget
\* plus what one run may cost: the check reads the reservations of runs in
\* flight (the spend is reserved before the run starts, not after it).
OverspendIsBounded == Called < Budget + MAX_MODEL_CALLS

\* A finished scan reports every account it was given exactly once: as a
\* record, in the order of the request, or as skipped.
EveryAccountIsReported ==
    status = "completed" =>
        /\ skipped \cup {runs[i].account : i \in DOMAIN runs} = Accounts
        /\ \A i \in DOMAIN runs : runs[i].account \notin skipped
        /\ \A i, j \in DOMAIN runs : i < j => runs[i].account < runs[j].account

\* One account that raises does not end the scan: every scan completes.
ScanEnds == <>(status = "completed")
=============================================================================
