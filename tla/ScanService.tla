---------------------------- MODULE ScanService ----------------------------
(***************************************************************************)
(* Who starts portfolio scans and how they are found again: the interval   *)
(* scheduler (serving/scheduler.py), POST and GET /portfolio-scans         *)
(* (api/routes/scans.py), the process singletons and the registry they     *)
(* share (api/dependencies.py), and POST /assessments, which spends from   *)
(* the same allowance and hands its run to RunManager.                     *)
(*                                                                         *)
(* One owner starts and stops the scheduler; its loops, the request        *)
(* handlers and the posted scans are threads. A scan is PortfolioScan: it  *)
(* ends, or raises before it begins.                                       *)
(***************************************************************************)
EXTENDS Integers, Sequences, FiniteSets, SequencesExt

CONSTANTS
    Portfolio,       \* [account -> [renewal, as_of]]: dates of each profile
    Bodies,          \* bodies of a scan request: [accounts, horizon, cap]
    Questions,       \* bodies of an assessment request: [account, text]
    Handlers,        \* request threads
    Allowance,       \* runs one limiter admits within its windows
    MAX_RETAINED_SCANS,
    MaxScans,        \* bound: scans posted
    MaxLoops         \* bound: scheduler threads started

ASSUME HandlersAssumption  == IsFiniteSet(Handlers)
ASSUME AllowanceAssumption == Allowance \in Nat \ {0}
ASSUME RetainedAssumption  == MAX_RETAINED_SCANS \in Nat \ {0}
ASSUME BoundsAssumption    == MaxScans \in Nat /\ MaxLoops \in Nat

Scans == 1..MaxScans
Loops == 1..MaxLoops
None  == 0
Unbuilt == -1

VARIABLES
    demo,       \* settings.demo_mode
    enabled,    \* settings.enable_scheduler
    stop,       \* _stop is set
    handle,     \* _thread, or None
    joining,    \* the owner is inside stop()
    loop,       \* what each scheduler thread does next
    gave_up,    \* history: a join of stop() timed out
    limiter,    \* runs the cached limiter has admitted, or Unbuilt
    handler,    \* each request thread: what it does next, its limiter, its scan
    admitted,   \* history: runs any limiter admitted
    private,    \* history: limiters built beside the cached one
    posted,     \* scan ids given out
    started,    \* history: assessments handed to the run manager
    worker,     \* the thread of each posted scan
    _scans,     \* the registry, oldest entry first
    registered  \* history: scans entered in the registry at some time

scheduler == <<enabled, stop, handle, joining, loop, gave_up>>
requests  == <<limiter, handler, admitted, private, posted, started>>
tracked   == <<worker, _scans, registered>>
vars      == <<demo, scheduler, requests, tracked>>

scheduler_is_permitted == enabled /\ ~demo

Init ==
    /\ demo \in BOOLEAN /\ enabled \in BOOLEAN
    /\ stop = FALSE /\ handle = None /\ joining = FALSE
    /\ loop = [l \in Loops |-> "unborn"] /\ gave_up = FALSE
    /\ limiter = Unbuilt /\ admitted = 0 /\ private = 0 /\ posted = 0
    /\ started = 0
    /\ handler = [h \in Handlers |-> [at |-> "idle", limiter |-> "none", scan |-> None]]
    /\ worker = [s \in Scans |-> "none"]
    /\ _scans = <<>> /\ registered = {}

----------------------------------------------------------------------------
\* ScanScheduler. start() is refused where unattended spending is not
\* permitted, and does nothing while the thread it knows is alive.

Live(l) == loop[l] \in {"test", "tick", "scan", "wait"}

Reload ==
    /\ enabled' = ~enabled
    /\ UNCHANGED <<demo, stop, handle, joining, loop, gave_up, requests, tracked>>

\* Mutant: start() does not look whether a thread is alive.
start_always ==
    /\ ~joining /\ scheduler_is_permitted
    /\ \E l \in Loops :
          /\ loop[l] = "unborn" /\ \A k \in 1..(l - 1) : loop[k] # "unborn"
          /\ loop' = [loop EXCEPT ![l] = "test"]
          /\ handle' = l
    /\ stop' = FALSE
    /\ UNCHANGED <<demo, enabled, joining, gave_up, requests, tracked>>

start ==
    /\ ~joining /\ scheduler_is_permitted
    /\ handle # None => ~Live(handle)
    /\ \E l \in Loops :
          /\ loop[l] = "unborn" /\ \A k \in 1..(l - 1) : loop[k] # "unborn"
          /\ loop' = [loop EXCEPT ![l] = "test"]
          /\ handle' = l
    /\ stop' = FALSE
    /\ UNCHANGED <<demo, enabled, joining, gave_up, requests, tracked>>

SetStop ==
    /\ ~joining
    /\ stop' = TRUE
    /\ joining' = (handle # None)
    /\ UNCHANGED <<demo, enabled, handle, loop, gave_up, requests, tracked>>

\* join returns when the thread is dead or the timeout has passed; the thread
\* is forgotten either way.
Join ==
    /\ joining
    /\ handle' = None /\ joining' = FALSE
    /\ gave_up' = (gave_up \/ Live(handle))
    /\ UNCHANGED <<demo, enabled, stop, loop, requests, tracked>>

LoopGoes(l, to) ==
    /\ loop' = [loop EXCEPT ![l] = to]
    /\ UNCHANGED <<demo, enabled, stop, handle, joining, gave_up, requests, tracked>>

LoopTest(l) == loop[l] = "test" /\ LoopGoes(l, IF stop THEN "dead" ELSE "tick")

\* run_once asks again whether it may spend, and raises if it may not.
run_once(l) == loop[l] = "tick" /\ LoopGoes(l, IF scheduler_is_permitted THEN "scan" ELSE "wait")

\* Mutant: an exception of a tick ends the thread.
ScanReturns_dies(l) == loop[l] = "scan" /\ \E to \in {"wait", "dead"} : LoopGoes(l, to)

\* The scan ends, or it, or on_scan, raises, which the loop only logs.
ScanReturns(l) == loop[l] = "scan" /\ LoopGoes(l, "wait")

\* The interval has passed, or the stop event was set.
Wake(l) == loop[l] = "wait" /\ LoopGoes(l, "test")

_loop(l) == LoopTest(l) \/ run_once(l) \/ ScanReturns(l) \/ Wake(l)

----------------------------------------------------------------------------
\* POST /portfolio-scans. The limiter is an lru_cache singleton: two threads
\* that find the cache empty both build one, and the later keeps its own.

Free(h) == [handler EXCEPT ![h] = [at |-> "idle", limiter |-> "none", scan |-> None]]

Refuse(h) ==
    /\ handler' = Free(h)
    /\ UNCHANGED <<demo, scheduler, limiter, admitted, private, posted, started, tracked>>

get_rate_limiter(h) ==
    /\ handler[h].at = "idle"
    /\ handler' = [handler EXCEPT
                     ![h] = IF limiter = Unbuilt THEN [@ EXCEPT !.at = "building"]
                            ELSE [@ EXCEPT !.at = "charge", !.limiter = "cached"]]
    /\ UNCHANGED <<demo, scheduler, limiter, admitted, private, posted, started, tracked>>

\* Mutant: the limiter built last replaces the one in the cache.
BuildLimiter_replaces(h) ==
    /\ handler[h].at = "building"
    /\ limiter' = 0
    /\ private' = IF limiter = Unbuilt THEN private ELSE private + 1
    /\ handler' = [handler EXCEPT ![h].at = "charge", ![h].limiter = "cached"]
    /\ UNCHANGED <<demo, scheduler, admitted, posted, started, tracked>>

BuildLimiter(h) ==
    /\ handler[h].at = "building"
    /\ IF limiter = Unbuilt
       THEN /\ limiter' = 0 /\ UNCHANGED private
            /\ handler' = [handler EXCEPT ![h].at = "charge", ![h].limiter = "cached"]
       ELSE /\ private' = private + 1 /\ UNCHANGED limiter
            /\ handler' = [handler EXCEPT ![h].at = "charge", ![h].limiter = "own"]
    /\ UNCHANGED <<demo, scheduler, admitted, posted, started, tracked>>

\* The caller is charged before anything is known about its request.
enforce_rate_limit(h) ==
    /\ handler[h].at = "charge"
    /\ IF handler[h].limiter = "cached" /\ limiter >= Allowance
       THEN Refuse(h)
       ELSE /\ limiter' = IF handler[h].limiter = "cached" THEN limiter + 1 ELSE limiter
            /\ admitted' = admitted + 1
            /\ handler' = [handler EXCEPT ![h].at = "select"]
            /\ UNCHANGED <<demo, scheduler, private, posted, started, tracked>>

\* eligible_accounts: by renewal date, then id; days out counted from each
\* account's own forecast date.
Days(a) == Portfolio[a].renewal - Portfolio[a].as_of

Upto(seq, n) == SubSeq(seq, 1, IF Len(seq) < n THEN Len(seq) ELSE n)

eligible_accounts(horizon, limit) ==
    Upto(SetToSortSeq({a \in DOMAIN Portfolio : Days(a) \in 0..horizon},
            LAMBDA a, b : \/ Portfolio[a].renewal < Portfolio[b].renewal
                          \/ Portfolio[a].renewal = Portfolio[b].renewal /\ a < b),
         limit)

Unknown(body) == ToSet(body.accounts) \ DOMAIN Portfolio

Selected(body) == IF body.accounts # <<>> THEN Upto(body.accounts, body.cap)
                  ELSE eligible_accounts(body.horizon, body.cap)

start_scan(h, body) ==
    /\ handler[h].at = "select"
    /\ IF demo \/ Unknown(body) # {} \/ Selected(body) = <<>>
       THEN Refuse(h)
       ELSE /\ posted < MaxScans
            /\ posted' = posted + 1
            /\ handler' = [handler EXCEPT ![h].at = "register", ![h].scan = posted + 1]
            /\ UNCHANGED <<demo, scheduler, limiter, admitted, private, started, tracked>>

\* POST /assessments, behind the same limiter. In demo mode the caller's text is
\* replaced, not checked; elsewhere AssessmentRequest refuses unsafe text.
DEMO_QUESTION == "demo"

enforce_demo_mode(text) == IF demo THEN DEMO_QUESTION ELSE text

start_assessment(h, body) ==
    /\ handler[h].at = "select"
    /\ IF body.account \notin DOMAIN Portfolio \/ enforce_demo_mode(body.text) = "unsafe"
       THEN Refuse(h)
       ELSE /\ started' = started + 1
            /\ handler' = Free(h)
            /\ UNCHANGED <<demo, scheduler, limiter, admitted, private, posted, tracked>>

\* register_scan: an entry keeps its place when it is written again, and the
\* entries entered first leave first.
register_scan(id, status) ==
    LET at      == {i \in DOMAIN _scans : _scans[i].id = id}
        entry   == [id |-> id, status |-> status]
        written == IF at = {} THEN Append(_scans, entry)
                   ELSE [i \in DOMAIN _scans |-> IF i \in at THEN entry ELSE _scans[i]]
        over    == Len(written) - MAX_RETAINED_SCANS
    IN  /\ _scans' = IF over > 0 THEN SubSeq(written, over + 1, Len(written)) ELSE written
        /\ registered' = registered \cup {id}

\* Mutant: the thread is started before the pending record is entered.
Register_started(h) ==
    /\ handler[h].at = "register"
    /\ IF worker[handler[h].scan] = "none"
       THEN /\ worker' = [worker EXCEPT ![handler[h].scan] = "running"]
            /\ UNCHANGED <<handler, _scans, registered>>
       ELSE /\ register_scan(handler[h].scan, "running")
            /\ handler' = Free(h)
            /\ UNCHANGED worker
    /\ UNCHANGED <<demo, scheduler, limiter, admitted, private, posted, started>>

Register(h) ==
    /\ handler[h].at = "register"
    /\ register_scan(handler[h].scan, "running")
    /\ handler' = [handler EXCEPT ![h].at = "start"]
    /\ UNCHANGED <<demo, scheduler, limiter, admitted, private, posted, started, worker>>

StartThread(h) ==
    /\ handler[h].at = "start"
    /\ worker' = [worker EXCEPT ![handler[h].scan] = "running"]
    /\ handler' = Free(h)
    /\ UNCHANGED <<demo, scheduler, limiter, admitted, private, posted, started, _scans, registered>>

\* The posted scan's thread enters the finished record under the same id.
execute(s) ==
    /\ worker[s] = "running"
    /\ worker' = [worker EXCEPT ![s] = "ended"]
    /\ register_scan(s, "finished")
    /\ UNCHANGED <<demo, scheduler, requests>>

\* build_graph raises: nothing is registered, and the thread is gone.
Die(s) ==
    /\ worker[s] = "running"
    /\ worker' = [worker EXCEPT ![s] = "died"]
    /\ UNCHANGED <<demo, scheduler, requests, _scans, registered>>

Handle(h) == \/ get_rate_limiter(h) \/ BuildLimiter(h) \/ enforce_rate_limit(h)
             \/ \E body \in Bodies : start_scan(h, body)
             \/ \E body \in Questions : start_assessment(h, body)
             \/ Register(h) \/ StartThread(h)

Next ==
    \/ Reload \/ start \/ SetStop \/ Join
    \/ \E l \in Loops : _loop(l)
    \/ \E h \in Handlers : Handle(h)
    \/ \E s \in Scans : execute(s) \/ Die(s)

\* Scheduler threads run, scans end (PortfolioScan) and join has a timeout.
Spec == Init /\ [][Next]_vars /\ \A l \in Loops : WF_vars(_loop(l))

----------------------------------------------------------------------------
\* Properties.

\* Two scheduler threads are never alive together unless a stop() gave up on
\* one that was still scanning (scheduler.py:112, 130).
LoneLoop == gave_up \/ Cardinality({l \in Loops : Live(l)}) <= 1

\* A scheduler that was started and not stopped goes on starting scans for as
\* long as it is permitted, whatever its ticks raise; one that was stopped
\* ends, unless a later start() cleared the event first (scheduler.py:118).
ScheduleIsKept ==
    /\ <>[](handle # None /\ ~stop /\ scheduler_is_permitted)
          => []<>(\E l \in Loops : loop[l] = "scan")
    /\ stop ~> (~stop \/ \A l \in Loops : ~Live(l))

\* What GET answers about a scan is never behind its thread: an entry is
\* finished exactly when the thread has ended, the newest entries are kept,
\* and none is missing before the registry has overflowed (scans.py:159-177).
RegistryIsFaithful ==
    /\ \A i, j \in DOMAIN _scans : _scans[i].id = _scans[j].id => i = j
    /\ \A i \in DOMAIN _scans :
          (_scans[i].status = "finished") = (worker[_scans[i].id] = "ended")
    /\ Len(_scans) <= MAX_RETAINED_SCANS
    /\ Cardinality(registered) <= MAX_RETAINED_SCANS =>
          registered = {_scans[i].id : i \in DOMAIN _scans}

\* Every thread but the first to find the cache empty may escape the allowance
\* once, with the limiter it built for itself, and never again; scans and
\* assessments spend from one allowance (dependencies.py:49-53, 72-105).
AllowanceIsShared ==
    /\ admitted <= Allowance + private
    /\ posted + started <= admitted
    /\ private < Cardinality(Handlers) \/ private = 0
=============================================================================
