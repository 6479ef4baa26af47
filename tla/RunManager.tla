----------------------------- MODULE RunManager -----------------------------
(***************************************************************************)
(* The live view of assessments: serving/runs.py, and the two routes of    *)
(* api/routes/assessments.py that read it.                                 *)
(*                                                                         *)
(* Worker threads run the graph and publish its events; request threads    *)
(* start runs, subscribe and read.  An action is one section under a lock, *)
(* or one step outside any lock that another thread can observe: the       *)
(* worker assigns status and error one by one, and puts an event into      *)
(* each subscriber's queue after it released the run's lock.               *)
(***************************************************************************)
EXTENDS Integers, Sequences, FiniteSets

CONSTANTS
    Runs,              \* run identifiers
    Streams,           \* event-stream requests
    MAX_RETAINED_RUNS, \* runs the registry keeps
    Workers,           \* threads of the pool
    MaxEvents          \* events a run emits at most

ASSUME RetainedAssumption  == MAX_RETAINED_RUNS \in Nat \ {0}
ASSUME WorkersAssumption   == Workers \in Nat \ {0}
ASSUME MaxEventsAssumption == MaxEvents \in Nat

Done == 0                       \* the sentinel _DONE; events count from 1
NoRun == "none"
NoFrame == [status |-> "none", result |-> FALSE, error |-> FALSE]
\* Where a run's worker is.
Works == {"absent", "queued", "executing", "delivering", "resulted", "failing",
          "ended", "closing", "gone"}
Phases == {"idle", "accepted", "refused", "streaming", "drained", "left", "closed"}

VARIABLES
    kept,        \* _runs: the registry, oldest first
    work,        \* where each run's worker is
    status,      \* ServedRun.status
    result,      \* is ServedRun.result set?
    error,       \* is ServedRun.error set?
    events,      \* ServedRun.events, numbered as they were emitted
    subscribers, \* ServedRun._subscribers
    deliver,     \* the subscribers the worker has yet to hand its item to
    phase,       \* where each stream request is
    target,      \* the run it asked for
    queue,       \* its queue
    received,    \* the events it has sent to its client
    frame        \* its closing run_finished frame

run == <<work, status, result, error, events, subscribers, deliver>>
stream == <<phase, target, queue, received, frame>>
vars == <<kept, run, stream>>

Init ==
    /\ kept = <<>>
    /\ work = [r \in Runs |-> "absent"]
    /\ status = [r \in Runs |-> "queued"]
    /\ result = [r \in Runs |-> FALSE]
    /\ error = [r \in Runs |-> FALSE]
    /\ events = [r \in Runs |-> <<>>]
    /\ subscribers = [r \in Runs |-> {}]
    /\ deliver = [r \in Runs |-> {}]
    /\ phase = [s \in Streams |-> "idle"]
    /\ target = [s \in Streams |-> NoRun]
    /\ queue = [s \in Streams |-> <<>>]
    /\ received = [s \in Streams |-> <<>>]
    /\ frame = [s \in Streams |-> NoFrame]

Tracked(r) == \E i \in DOMAIN kept : kept[i] = r

----------------------------------------------------------------------------
\* Starting a run, and the worker that executes it.

\* The oldest run goes, whether or not it has finished.
Retain(registry) ==
    IF Len(registry) > MAX_RETAINED_RUNS THEN Tail(registry) ELSE registry

start(r) ==
    /\ work[r] = "absent"
    /\ work' = [work EXCEPT ![r] = "queued"]
    /\ status' = [status EXCEPT ![r] = "running"]
    /\ kept' = Retain(Append(kept, r))
    /\ UNCHANGED <<result, error, events, subscribers, deliver, stream>>

Busy == {r \in Runs : work[r] \notin {"absent", "queued", "gone"}}

Begin(r) ==
    /\ work[r] = "queued"
    /\ Cardinality(Busy) < Workers
    /\ work' = [work EXCEPT ![r] = "executing"]
    /\ UNCHANGED <<kept, status, result, error, events, subscribers, deliver, stream>>

\* ServedRun.publish: the event is recorded and the subscribers are copied
\* under the lock; the queues are filled after it.
publish(r) ==
    /\ work[r] = "executing"
    /\ Len(events[r]) < MaxEvents
    /\ events' = [events EXCEPT ![r] = Append(@, Len(@) + 1)]
    /\ deliver' = [deliver EXCEPT ![r] = subscribers[r]]
    /\ work' = [work EXCEPT ![r] = IF subscribers[r] = {} THEN "executing"
                                   ELSE "delivering"]
    /\ UNCHANGED <<kept, status, result, error, subscribers, stream>>

\* One queue.put of publish or finish.
Deliver(r) ==
    /\ work[r] \in {"delivering", "closing"}
    /\ \E s \in deliver[r] :
          /\ queue' = [queue EXCEPT ![s] = Append(@,
                IF work[r] = "closing" THEN Done ELSE Len(events[r]))]
          /\ deliver' = [deliver EXCEPT ![r] = @ \ {s}]
          /\ work' = [work EXCEPT ![r] =
                IF deliver[r] # {s} THEN @
                ELSE IF @ = "closing" THEN "gone" ELSE "executing"]
    /\ UNCHANGED <<kept, status, result, error, events, subscribers,
                   phase, target, received, frame>>

\* run_assessment returned: the result first, the status in a step of its own.
SetResult(r) ==
    /\ work[r] = "executing"
    /\ result' = [result EXCEPT ![r] = TRUE]
    /\ work' = [work EXCEPT ![r] = "resulted"]
    /\ UNCHANGED <<kept, status, error, events, subscribers, deliver, stream>>

SetCompleted(r) ==
    /\ work[r] = "resulted"
    /\ status' = [status EXCEPT ![r] = "completed"]
    /\ work' = [work EXCEPT ![r] = "ended"]
    /\ UNCHANGED <<kept, result, error, events, subscribers, deliver, stream>>

\* It raised: the status first, the error text in a step of its own.
SetFailed(r) ==
    /\ work[r] = "executing"
    /\ status' = [status EXCEPT ![r] = "failed"]
    /\ work' = [work EXCEPT ![r] = "failing"]
    /\ UNCHANGED <<kept, result, error, events, subscribers, deliver, stream>>

SetError(r) ==
    /\ work[r] = "failing"
    /\ error' = [error EXCEPT ![r] = TRUE]
    /\ work' = [work EXCEPT ![r] = "ended"]
    /\ UNCHANGED <<kept, status, result, events, subscribers, deliver, stream>>

\* ServedRun.finish, from _execute's finally.
finish(r) ==
    /\ work[r] = "ended"
    /\ deliver' = [deliver EXCEPT ![r] = subscribers[r]]
    /\ subscribers' = [subscribers EXCEPT ![r] = {}]
    /\ work' = [work EXCEPT ![r] = IF subscribers[r] = {} THEN "gone" ELSE "closing"]
    /\ UNCHANGED <<kept, status, result, error, events, stream>>

----------------------------------------------------------------------------
\* GET /assessments/{run_id}/events.

\* The route looks the run up once, to answer 404.
Open(s, r) ==
    /\ phase[s] = "idle"
    /\ target' = [target EXCEPT ![s] = r]
    /\ phase' = [phase EXCEPT ![s] = IF Tracked(r) THEN "accepted" ELSE "refused"]
    /\ UNCHANGED <<kept, run, queue, received, frame>>

\* Mutant: the queue starts empty.
Seed_empty(r) == <<>>

\* Mutant: a finished run is not told apart.
Seed_open(r) == events[r]

\* What a new queue holds: the events so far and, of a finished run, the end.
Seed(r) == IF status[r] \in {"completed", "failed"}
           THEN Append(events[r], Done) ELSE events[r]

\* RunManager.stream looks it up again, and ServedRun.subscribe seeds the queue
\* and registers it under the run's lock.
subscribe(s) ==
    /\ phase[s] = "accepted"
    /\ IF Tracked(target[s])
       THEN LET r == target[s]
            IN /\ queue' = [queue EXCEPT ![s] = Seed(r)]
               /\ subscribers' = [subscribers EXCEPT ![r] =
                     IF status[r] \in {"completed", "failed"} THEN @ ELSE @ \cup {s}]
               /\ phase' = [phase EXCEPT ![s] = "streaming"]
       ELSE /\ phase' = [phase EXCEPT ![s] = "drained"]
            /\ UNCHANGED <<queue, subscribers>>
    /\ UNCHANGED <<kept, work, status, result, error, events, deliver,
                   target, received, frame>>

\* The generator takes the next item, or ends at the sentinel.
Receive(s) ==
    /\ phase[s] = "streaming"
    /\ queue[s] # <<>>
    /\ queue' = [queue EXCEPT ![s] = Tail(@)]
    /\ IF Head(queue[s]) = Done
       THEN phase' = [phase EXCEPT ![s] = "drained"] /\ UNCHANGED received
       ELSE /\ received' = [received EXCEPT ![s] = Append(@, Head(queue[s]))]
            /\ UNCHANGED phase
    /\ UNCHANGED <<kept, run, target, frame>>

\* The closing frame projects the run as it is now, if it is still tracked.
CloseStream(s) ==
    /\ phase[s] = "drained"
    /\ phase' = [phase EXCEPT ![s] = "closed"]
    /\ LET r == target[s]
       IN frame' = [frame EXCEPT ![s] =
             IF Tracked(r) THEN [status |-> status[r], result |-> result[r],
                                 error |-> error[r]]
             ELSE NoFrame]
    /\ UNCHANGED <<kept, run, target, queue, received>>

\* The client goes away; its queue stays registered until the run ends.
Leave(s) ==
    /\ phase[s] \in {"accepted", "streaming"}
    /\ phase' = [phase EXCEPT ![s] = "left"]
    /\ UNCHANGED <<kept, run, target, queue, received, frame>>

----------------------------------------------------------------------------
Work(r) == \/ Begin(r) \/ publish(r) \/ Deliver(r) \/ SetResult(r)
           \/ SetCompleted(r) \/ SetFailed(r) \/ SetError(r) \/ finish(r)
Serve(s) == subscribe(s) \/ Receive(s) \/ CloseStream(s)

Next ==
    \/ \E r \in Runs : start(r) \/ Work(r)
    \/ \E s \in Streams :
          Serve(s) \/ Leave(s) \/ \E r \in Runs : Open(s, r)

Fairness == /\ \A r \in Runs : WF_vars(Work(r))
            /\ \A s \in Streams : WF_vars(Serve(s))

Spec == Init /\ [][Next]_vars /\ Fairness
----------------------------------------------------------------------------
TypeOK ==
    /\ kept \in Seq(Runs) /\ Len(kept) <= MAX_RETAINED_RUNS
    /\ work \in [Runs -> Works]
    /\ status \in [Runs -> {"queued", "running", "completed", "failed"}]
    /\ result \in [Runs -> BOOLEAN] /\ error \in [Runs -> BOOLEAN]
    /\ events \in [Runs -> Seq(Nat)]
    /\ subscribers \in [Runs -> SUBSET Streams]
    /\ deliver \in [Runs -> SUBSET Streams]
    /\ phase \in [Streams -> Phases]
    /\ target \in [Streams -> Runs \cup {NoRun}]
    /\ queue \in [Streams -> Seq(Nat)]
    /\ received \in [Streams -> Seq(Nat)]
    /\ frame \in [Streams -> [status: {"none", "queued", "running", "completed",
                                       "failed"}, result: BOOLEAN, error: BOOLEAN]]

\* A client that connects at any moment gets every event once and in order:
\* what it was sent, what waits in its queue and what is still to be put there
\* are the events of the run, with the sentinel after the last one if at all
\* (subscribe seeds and registers in one section; publish copies in another).
\* A stream that drained to its end has shown every event, and its closing
\* frame never says that the run is still going, nor completed without a
\* result (status is written before finish tells anyone).
Pending(s) ==
    LET r == target[s]
    IN IF s \notin deliver[r] THEN <<>>
       ELSE IF work[r] = "closing" THEN <<Done>> ELSE <<Len(events[r])>>
StreamFaithful ==
    \A s \in Streams :
        /\ phase[s] = "streaming" =>
              received[s] \o queue[s] \o Pending(s) \in
                  {events[target[s]], Append(events[target[s]], Done)}
        /\ phase[s] = "closed" /\ frame[s] # NoFrame =>
              /\ frame[s].status \in {"completed", "failed"}
              /\ frame[s].status = "completed" => frame[s].result
              /\ received[s] = events[target[s]]

\* Every accepted stream ends, also the one that subscribes while the worker
\* is finishing (no subscriber can miss the sentinel).
StreamEnds ==
    \A s \in Streams : phase[s] = "accepted" ~> phase[s] \in {"closed", "left"}
=============================================================================
