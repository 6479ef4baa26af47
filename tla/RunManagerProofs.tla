-------------------------- MODULE RunManagerProofs --------------------------
(***************************************************************************)
(* Theorems about any number of runs, streams and workers, any registry    *)
(* size and any number of events.                                          *)
(*                                                                         *)
(* What a stream will have shown is spread over three places: what it has  *)
(* sent, what waits in its queue, and the item the worker has copied but   *)
(* not put yet.  Reception says that together they are the run's events,   *)
(* followed by the sentinel exactly for the streams the run has forgotten. *)
(***************************************************************************)
EXTENDS RunManager, SequenceTheorems, TLAPS

Ended(r) == status[r] \in {"completed", "failed"}

\* No event is the sentinel.
Unended(e) == \A i \in 1..Len(e) : e[i] # Done

\* What the worker's place says of the run it executes.
Worker ==
    \A r \in Runs :
        /\ work[r] \in {"failing", "ended", "closing", "gone"} <=> Ended(r)
        /\ work[r] = "resulted" \/ status[r] = "completed" => result[r]
        /\ deliver[r] # {} => work[r] \in {"delivering", "closing"}
        /\ work[r] \in {"closing", "gone"} => subscribers[r] = {}
        /\ Tracked(r) => work[r] # "absent"
        /\ Unended(events[r])

\* A run knows only streams that asked for it and were seeded.
Subscription ==
    \A s \in Streams :
        /\ \A r \in Runs : s \in subscribers[r] \cup deliver[r] =>
              target[s] = r /\ phase[s] \in {"streaming", "left"}
        /\ phase[s] \in {"idle", "accepted"} => received[s] = <<>> /\ queue[s] = <<>>
        /\ phase[s] \in {"accepted", "streaming", "drained", "closed"} =>
              target[s] \in Runs /\ work[target[s]] # "absent"

Seen(s) == received[s] \o queue[s] \o Pending(s)

Live(s) == /\ s \in subscribers[target[s]]
           /\ Seen(s) = events[target[s]]

Dismissed(s) == /\ s \notin subscribers[target[s]]
                /\ Ended(target[s])
                /\ Seen(s) = Append(events[target[s]], Done)

Shown(s) == Ended(target[s]) /\ received[s] = events[target[s]]

Promised(s) ==
    /\ phase[s] = "streaming" => Live(s) \/ Dismissed(s)
    /\ phase[s] = "drained" => Shown(s) \/ ~Tracked(target[s])
    /\ phase[s] = "closed" /\ frame[s] # NoFrame =>
          /\ Shown(s)
          /\ frame[s].status \in {"completed", "failed"}
          /\ frame[s].status = "completed" => frame[s].result

Reception == \A s \in Streams : Promised(s)

IInv == TypeOK /\ Worker /\ Subscription /\ Reception

----------------------------------------------------------------------------
\* Sequences.

LEMMA Appended ==
    ASSUME NEW S, NEW s \in Seq(S), NEW e \in S
    PROVE  /\ Append(s, e) \in Seq(S)
           /\ Len(Append(s, e)) = Len(s) + 1
           /\ \A i \in 1..Len(s) : Append(s, e)[i] = s[i]
           /\ Append(s, e)[Len(s) + 1] = e
  OBVIOUS

LEMMA Split ==
    ASSUME NEW p \in Seq(Nat), NEW h \in Seq(Nat), NEW t \in Seq(Nat),
           NEW q, q = h \o t
    PROVE  p \o h \o t = p \o q
  BY ConcatAssociative

\* The generator moves the head of its queue to what it has sent.
LEMMA Moved ==
    ASSUME NEW p \in Seq(Nat), NEW q \in Seq(Nat), NEW w \in Seq(Nat), q # <<>>
    PROVE  Append(p, Head(q)) \o Tail(q) \o w = p \o q \o w
  <1>1. Head(q) \in Nat /\ Tail(q) \in Seq(Nat)
    BY HeadTailProperties
  <1>2. q = <<Head(q)>> \o Tail(q)
    OBVIOUS
  <1>3. Append(p, Head(q)) \o Tail(q) = p \o <<Head(q)>> \o Tail(q)
    BY <1>1, AppendIsConcat
  <1>4. <<Head(q)>> \in Seq(Nat)
    BY <1>1
  <1>5. p \o <<Head(q)>> \o Tail(q) = p \o q
    BY <1>1, <1>2, <1>4, Split
  <1> QED
    BY <1>3, <1>5

\* A worker puts the item it has copied.
LEMMA Put ==
    ASSUME NEW p \in Seq(Nat), NEW q \in Seq(Nat), NEW e \in Nat
    PROVE  p \o Append(q, e) \o <<>> = p \o q \o <<e>>
  <1>1. Append(q, e) = q \o <<e>> /\ <<e>> \in Seq(Nat)
    BY AppendIsConcat
  <1>2. p \o (q \o <<e>>) = (p \o q) \o <<e>>
    BY <1>1, ConcatAssociative
  <1>3. p \o q \o <<e>> \in Seq(Nat)
    BY <1>1, ConcatProperties
  <1> QED
    BY <1>1, <1>2, <1>3, ConcatEmptySeq

\* One more item is on its way.
LEMMA Announced ==
    ASSUME NEW sent \in Seq(Nat), NEW e \in Nat
    PROVE  sent \o <<e>> = Append(sent \o <<>>, e)
  BY AppendIsConcat, ConcatEmptySeq

LEMMA Seeded ==
    ASSUME NEW q \in Seq(Nat)
    PROVE  <<>> \o q \o <<>> = q
  BY ConcatEmptySeq

\* Nothing follows the sentinel: when it is taken, the events have been sent.
LEMMA SentinelIsLast ==
    ASSUME NEW p \in Seq(Nat), NEW q \in Seq(Nat), NEW w \in Seq(Nat),
           NEW e \in Seq(Nat), NEW all,
           all = p \o q \o w, all \in {e, Append(e, Done)},
           q # <<>>, Head(q) = Done, Unended(e)
    PROVE  p = e /\ w = <<>> /\ all = Append(e, Done)
  <1>1. /\ Len(p) \in Nat /\ Len(q) \in Nat \ {0} /\ Len(w) \in Nat
        /\ Len(e) \in Nat
    BY EmptySeq
  <1>2. /\ Len(all) = Len(p) + Len(q) + Len(w)
        /\ \A i \in 1..Len(p) : all[i] = p[i]
        /\ all[Len(p) + 1] = Done
    <2>1. /\ p \o q \in Seq(Nat)
          /\ Len(p \o q) = Len(p) + Len(q)
          /\ \A i \in 1..Len(p) : (p \o q)[i] = p[i]
          /\ (p \o q)[Len(p) + 1] = q[1]
      BY <1>1, ConcatProperties
    <2>2. /\ Len(all) = Len(p \o q) + Len(w)
          /\ \A i \in 1..Len(p \o q) : all[i] = (p \o q)[i]
      BY <1>1, <2>1, ConcatProperties
    <2> QED
      BY <1>1, <2>1, <2>2
  <1>3. Done \in Nat
    BY DEF Done
  <1>4. /\ Len(Append(e, Done)) = Len(e) + 1
        /\ \A i \in 1..Len(e) : Append(e, Done)[i] = e[i]
    BY <1>3, Appended
  <1>5. all # e
    <2> USE DEF Unended
    <2> SUFFICES ASSUME all = e PROVE FALSE
      OBVIOUS
    <2>1. Len(e) = Len(p) + Len(q) + Len(w) /\ e[Len(p) + 1] = Done
      BY <1>2
    <2>2. Len(p) + 1 \in 1..Len(e)
      BY <1>1, <2>1
    <2> QED
      BY <2>1, <2>2
  <1>6. all = Append(e, Done)
    BY <1>5
  <1>7. Len(p) = Len(e)
    BY <1>1, <1>2, <1>4, <1>6 DEF Unended
  <1>8. \A i \in 1..Len(p) : p[i] = e[i]
    BY <1>2, <1>4, <1>6, <1>7
  <1>9. p = e
    BY <1>7, <1>8, SeqEqual
  <1>10. Len(w) = 0
    BY <1>1, <1>2, <1>4, <1>6, <1>7
  <1> QED
    BY <1>6, <1>9, <1>10, EmptySeq

----------------------------------------------------------------------------
\* Types.

\* The registry keeps its bound, and only start adds to it.
LEMMA Retained ==
    ASSUME kept \in Seq(Runs), Len(kept) <= MAX_RETAINED_RUNS, NEW r \in Runs
    PROVE  LET k == Retain(Append(kept, r))
           IN /\ k \in Seq(Runs) /\ Len(k) <= MAX_RETAINED_RUNS
              /\ \A q : (\E i \in DOMAIN k : k[i] = q) => Tracked(q) \/ q = r
  <1> DEFINE a == Append(kept, r)
  <1>1. /\ a \in Seq(Runs) /\ Len(a) = Len(kept) + 1 /\ a # <<>>
        /\ \A i \in 1..Len(kept) : a[i] = kept[i]
        /\ a[Len(kept) + 1] = r
        /\ DOMAIN a = 1..Len(a) /\ DOMAIN kept = 1..Len(kept) /\ Len(kept) \in Nat
    BY Appended, LenProperties
  <1>2. \A q : (\E i \in DOMAIN a : a[i] = q) => Tracked(q) \/ q = r
    BY <1>1 DEF Tracked
  <1> HIDE DEF a
  <1>3. /\ Tail(a) \in Seq(Runs) /\ Len(Tail(a)) = Len(a) - 1
        /\ \A i \in 1..Len(Tail(a)) : Tail(a)[i] = a[i + 1]
        /\ DOMAIN Tail(a) = 1..Len(Tail(a))
    BY <1>1, HeadTailProperties, LenProperties
  <1>4. MAX_RETAINED_RUNS \in Nat
    BY RetainedAssumption
  <1>5. CASE Len(a) > MAX_RETAINED_RUNS
    <2>1. Retain(a) = Tail(a)
      BY <1>5 DEF Retain
    <2>2. \A q : (\E i \in DOMAIN Tail(a) : Tail(a)[i] = q) => \E i \in DOMAIN a : a[i] = q
      BY <1>1, <1>3
    <2> QED
      BY <1>1, <1>2, <1>3, <1>4, <2>1, <2>2 DEF a
  <1>6. CASE ~(Len(a) > MAX_RETAINED_RUNS)
    <2>1. Retain(a) = a
      BY <1>6 DEF Retain
    <2> QED
      BY <1>1, <1>2, <1>4, <1>6, <2>1 DEF a
  <1> QED
    BY <1>5, <1>6

LEMMA InitInv == Init => IInv
  <1> SUFFICES ASSUME Init PROVE IInv
    OBVIOUS
  <1>1. TypeOK
    <2>1. kept \in Seq(Runs) /\ Len(kept) <= MAX_RETAINED_RUNS
      BY RetainedAssumption DEF Init
    <2> QED
      BY <2>1 DEF Init, TypeOK, Works, Phases, NoFrame
  <1>2. Worker
    BY DEF Init, Worker, Ended, Tracked, Unended
  <1>3. Subscription
    BY DEF Init, Subscription
  <1>4. Reception
    BY DEF Init, Reception, Promised
  <1> QED
    BY <1>1, <1>2, <1>3, <1>4 DEF IInv

\* What subscribing to a run that is still tracked does.
LEMMA Subscribed ==
    ASSUME NEW s \in Streams, subscribe(s), Tracked(target[s])
    PROVE  LET r == target[s]
           IN /\ queue' = [queue EXCEPT ![s] = Seed(r)]
              /\ subscribers' = [subscribers EXCEPT ![r] =
                    IF status[r] \in {"completed", "failed"} THEN @ ELSE @ \cup {s}]
              /\ phase' = [phase EXCEPT ![s] = "streaming"]
  BY DEF subscribe

LEMMA TypeStep ==
    ASSUME TypeOK, [Next]_vars
    PROVE  TypeOK'
  <1> USE DEF run, stream
  <1>1. ASSUME NEW r \in Runs, start(r) PROVE TypeOK'
    <2>1. kept' \in Seq(Runs) /\ Len(kept') <= MAX_RETAINED_RUNS
      BY <1>1, Retained DEF start, TypeOK
    <2> QED
      BY <1>1, <2>1 DEF start, TypeOK, Works
  <1>2. ASSUME NEW r \in Runs, Begin(r) \/ SetResult(r) \/ SetCompleted(r)
                               \/ SetFailed(r) \/ SetError(r)
        PROVE  TypeOK'
    BY <1>2 DEF Begin, SetResult, SetCompleted, SetFailed, SetError, TypeOK, Works
  <1>3. ASSUME NEW r \in Runs, publish(r) PROVE TypeOK'
    <2>1. Append(events[r], Len(events[r]) + 1) \in Seq(Nat)
      BY Appended DEF TypeOK
    <2> QED
      BY <1>3, <2>1 DEF publish, TypeOK, Works
  <1>4. ASSUME NEW r \in Runs, Deliver(r) PROVE TypeOK'
    <2>1. PICK s \in deliver[r] :
            /\ queue' = [queue EXCEPT ![s] = Append(@,
                  IF work[r] = "closing" THEN Done ELSE Len(events[r]))]
            /\ deliver' = [deliver EXCEPT ![r] = @ \ {s}]
            /\ work' = [work EXCEPT ![r] =
                  IF deliver[r] # {s} THEN @
                  ELSE IF @ = "closing" THEN "gone" ELSE "executing"]
      BY <1>4 DEF Deliver
    <2>2. Append(queue[s], IF work[r] = "closing" THEN Done ELSE Len(events[r])) \in Seq(Nat)
      BY Appended DEF TypeOK, Done
    <2>3. queue' \in [Streams -> Seq(Nat)]
      BY <2>1, <2>2 DEF TypeOK
    <2>4. work' \in [Runs -> Works] /\ deliver' \in [Runs -> SUBSET Streams]
      BY <2>1 DEF TypeOK, Works
    <2> QED
      BY <1>4, <2>3, <2>4 DEF Deliver, TypeOK
  <1>5. ASSUME NEW r \in Runs, finish(r) PROVE TypeOK'
    BY <1>5 DEF finish, TypeOK, Works
  <1>6. ASSUME NEW s \in Streams, NEW r \in Runs, Open(s, r) PROVE TypeOK'
    BY <1>6 DEF Open, TypeOK, Phases
  <1>7. ASSUME NEW s \in Streams, subscribe(s) PROVE TypeOK'
    <2>1. CASE Tracked(target[s])
      <3>1. target[s] \in Runs
        BY <2>1 DEF Tracked, TypeOK
      <3>2. Seed(target[s]) \in Seq(Nat)
        BY <3>1, Appended DEF Seed, TypeOK, Done
      <3>3. queue' \in [Streams -> Seq(Nat)]
        <4> DEFINE seed == Seed(target[s])
        <4>1. seed \in Seq(Nat) /\ queue' = [queue EXCEPT ![s] = seed]
          BY <1>7, <2>1, <3>2, Subscribed
        <4> HIDE DEF seed
        <4> QED
          BY <4>1 DEF TypeOK
      <3>4. subscribers' \in [Runs -> SUBSET Streams]
        <4> DEFINE known == IF status[target[s]] \in {"completed", "failed"}
                            THEN subscribers[target[s]]
                            ELSE subscribers[target[s]] \cup {s}
        <4>1. subscribers' = [subscribers EXCEPT ![target[s]] = known]
          BY <1>7, <2>1, Subscribed
        <4>2. known \in SUBSET Streams
          BY <3>1 DEF TypeOK
        <4> HIDE DEF known
        <4> QED
          BY <3>1, <4>1, <4>2 DEF TypeOK
      <3>5. phase' \in [Streams -> Phases]
        BY <1>7, <2>1, Subscribed DEF TypeOK, Phases
      <3> QED
        BY <1>7, <3>3, <3>4, <3>5 DEF subscribe, TypeOK
    <2>2. CASE ~Tracked(target[s])
      BY <1>7, <2>2 DEF subscribe, TypeOK, Phases
    <2> QED
      BY <2>1, <2>2
  <1>8. ASSUME NEW s \in Streams, Receive(s) PROVE TypeOK'
    <2>1. queue[s] \in Seq(Nat) /\ queue[s] # <<>>
      BY <1>8 DEF Receive, TypeOK
    <2>2. Head(queue[s]) \in Nat /\ Tail(queue[s]) \in Seq(Nat)
      BY <2>1, HeadTailProperties
    <2>3. Append(received[s], Head(queue[s])) \in Seq(Nat)
      BY <2>2, Appended DEF TypeOK
    <2>4. queue' \in [Streams -> Seq(Nat)]
      BY <1>8, <2>2 DEF Receive, TypeOK
    <2>5. received' \in [Streams -> Seq(Nat)] /\ phase' \in [Streams -> Phases]
      BY <1>8, <2>3 DEF Receive, TypeOK, Phases
    <2> QED
      BY <1>8, <2>4, <2>5 DEF Receive, TypeOK
  <1>9. ASSUME NEW s \in Streams, CloseStream(s) PROVE TypeOK'
    <2>1. Tracked(target[s]) => target[s] \in Runs
      BY DEF Tracked, TypeOK
    <2>2. frame'[s] \in [status: {"none", "queued", "running", "completed", "failed"},
                         result: BOOLEAN, error: BOOLEAN]
      BY <1>9, <2>1 DEF CloseStream, TypeOK, NoFrame
    <2> QED
      BY <1>9, <2>2 DEF CloseStream, TypeOK, Phases
  <1>10. ASSUME NEW s \in Streams, Leave(s) PROVE TypeOK'
    BY <1>10 DEF Leave, TypeOK, Phases
  <1>11. ASSUME UNCHANGED vars PROVE TypeOK'
    BY <1>11 DEF vars, TypeOK
  <1> QED
    BY <1>1, <1>2, <1>3, <1>4, <1>5, <1>6, <1>7, <1>8, <1>9, <1>10, <1>11
       DEF Next, Work, Serve

LEMMA WorkerStep ==
    ASSUME TypeOK, Worker, [Next]_vars
    PROVE  Worker'
  <1> USE DEF run, stream
  <1>1. ASSUME NEW r \in Runs, start(r) PROVE Worker'
    <2>1. \A q \in Runs : Tracked(q)' => Tracked(q) \/ q = r
      BY <1>1, Retained DEF start, TypeOK, Tracked
    <2> QED
      BY <1>1, <2>1 DEF start, Worker, Ended, TypeOK
  <1>2. ASSUME NEW r \in Runs, Begin(r) \/ SetResult(r) \/ SetCompleted(r)
                               \/ SetFailed(r) \/ SetError(r)
        PROVE  Worker'
    <2>1. UNCHANGED <<kept, events, deliver, subscribers>>
      BY <1>2 DEF Begin, SetResult, SetCompleted, SetFailed, SetError
    <2> SUFFICES ASSUME NEW q \in Runs
                 PROVE /\ work'[q] \in {"failing", "ended", "closing", "gone"} <=> Ended(q)'
                       /\ work'[q] = "resulted" \/ status'[q] = "completed" => result'[q]
                       /\ deliver[q] # {} => work'[q] \in {"delivering", "closing"}
                       /\ work'[q] \in {"closing", "gone"} => subscribers[q] = {}
                       /\ Tracked(q) => work'[q] # "absent"
      BY <2>1 DEF Worker, Tracked
    <2>2. CASE q # r
      BY <1>2, <2>2 DEF Begin, SetResult, SetCompleted, SetFailed, SetError, Worker,
                        Ended, TypeOK
    <2>3. CASE q = r /\ (Begin(r) \/ SetResult(r))
      BY <1>2, <2>3 DEF Begin, SetResult, Worker, Ended, TypeOK
    <2>4. CASE q = r /\ (SetCompleted(r) \/ SetFailed(r) \/ SetError(r))
      BY <1>2, <2>4 DEF SetCompleted, SetFailed, SetError, Worker, Ended, TypeOK
    <2> QED
      BY <1>2, <2>2, <2>3, <2>4
  <1>3. ASSUME NEW r \in Runs, publish(r) PROVE Worker'
    <2>1. events[r] \in Seq(Nat)
      BY DEF TypeOK
    <2>2. /\ Len(events'[r]) = Len(events[r]) + 1
          /\ \A i \in 1..Len(events[r]) : events'[r][i] = events[r][i]
          /\ events'[r][Len(events[r]) + 1] = Len(events[r]) + 1
      <3>1. events'[r] = Append(events[r], Len(events[r]) + 1)
        BY <1>3 DEF publish, TypeOK
      <3>2. Len(events[r]) + 1 \in Nat
        BY <2>1
      <3> QED
        BY <2>1, <3>1, <3>2, Appended
    <2>3. Unended(events'[r])
      <3>1. \A i \in 1..Len(events[r]) : events[r][i] # Done
        BY DEF Worker, Unended
      <3>2. Len(events[r]) \in Nat /\ Len(events[r]) + 1 # Done
        BY <2>1 DEF Done
      <3>3. 1..Len(events'[r]) = 1..Len(events[r]) \cup {Len(events[r]) + 1}
        BY <2>2, <3>2
      <3> QED
        BY <2>2, <3>1, <3>2, <3>3 DEF Unended
    <2>4. \A q \in Runs \ {r} : events'[q] = events[q] /\ deliver'[q] = deliver[q]
                                /\ work'[q] = work[q]
      BY <1>3 DEF publish, TypeOK
    <2>5. /\ work[r] = "executing" /\ work'[r] \in {"executing", "delivering"}
          /\ deliver'[r] # {} => work'[r] = "delivering"
          /\ UNCHANGED <<kept, status, result, subscribers>>
      BY <1>3 DEF publish, TypeOK
    <2> QED
      BY <2>3, <2>4, <2>5 DEF Worker, Ended, Tracked
  <1>4. ASSUME NEW r \in Runs, Deliver(r) PROVE Worker'
    <2>1. PICK s \in deliver[r] :
            /\ deliver' = [deliver EXCEPT ![r] = @ \ {s}]
            /\ work' = [work EXCEPT ![r] =
                  IF deliver[r] # {s} THEN @
                  ELSE IF @ = "closing" THEN "gone" ELSE "executing"]
      BY <1>4 DEF Deliver
    <2>2. /\ work[r] \in {"delivering", "closing"}
          /\ UNCHANGED <<kept, status, result, events, subscribers>>
      BY <1>4 DEF Deliver
    <2> QED
      BY <2>1, <2>2 DEF Worker, Ended, Tracked, TypeOK
  <1>5. ASSUME NEW r \in Runs, finish(r) PROVE Worker'
    BY <1>5 DEF finish, Worker, Ended, Tracked, TypeOK
  <1>6. ASSUME NEW s \in Streams, NEW r \in Runs, Open(s, r) PROVE Worker'
    BY <1>6 DEF Open, Worker, Ended, Tracked
  <1>7. ASSUME NEW s \in Streams, subscribe(s) PROVE Worker'
    <2>1. UNCHANGED <<kept, work, status, result, events, deliver>>
      BY <1>7 DEF subscribe
    <2>2. \A r \in Runs : work[r] \in {"closing", "gone"} => subscribers'[r] = subscribers[r]
      BY <1>7 DEF subscribe, Worker, Ended, TypeOK
    <2> QED
      BY <2>1, <2>2 DEF Worker, Ended, Tracked
  <1>8. ASSUME NEW s \in Streams, Receive(s) \/ CloseStream(s) \/ Leave(s) PROVE Worker'
    BY <1>8 DEF Receive, CloseStream, Leave, Worker, Ended, Tracked
  <1>9. ASSUME UNCHANGED vars PROVE Worker'
    BY <1>9 DEF vars, Worker, Ended, Tracked
  <1> QED
    BY <1>1, <1>2, <1>3, <1>4, <1>5, <1>6, <1>7, <1>8, <1>9 DEF Next, Work, Serve

\* The stream that takes the sentinel has sent every event, and nobody holds
\* another item for it.
LEMMA Drained ==
    ASSUME IInv, NEW s \in Streams, phase[s] = "streaming", queue[s] # <<>>,
           Head(queue[s]) = Done
    PROVE  /\ Shown(s)
           /\ \A r \in Runs : s \notin subscribers[r] \cup deliver[r]
  <1> DEFINE r == target[s]
  <1>0. TypeOK /\ Worker /\ Subscription /\ Reception
    BY DEF IInv
  <1>1. r \in Runs /\ Pending(s) \in Seq(Nat)
    BY <1>0 DEF Subscription, Pending, TypeOK, Done
  <1>2. received[s] \in Seq(Nat) /\ queue[s] \in Seq(Nat) /\ events[r] \in Seq(Nat)
    BY <1>0, <1>1 DEF TypeOK
  <1>3. Unended(events[r])
    BY <1>0, <1>1 DEF Worker
  <1>4. Seen(s) \in {events[r], Append(events[r], Done)}
    BY <1>0 DEF Reception, Promised, Live, Dismissed
  <1> HIDE DEF r
  <1>5. /\ received[s] = events[r] /\ Pending(s) = <<>>
        /\ Seen(s) = Append(events[r], Done)
    <2>1. Seen(s) = received[s] \o queue[s] \o Pending(s)
      BY DEF Seen
    <2> QED
      BY <1>1, <1>2, <1>3, <1>4, <2>1, SentinelIsLast
  <1>6. Append(events[r], Done) # events[r]
    BY <1>2, Appended DEF Done
  <1>7. Dismissed(s)
    BY <1>0, <1>5, <1>6 DEF Reception, Promised, Live, r
  <1>9. s \notin deliver[r]
    BY <1>5 DEF Pending, r
  <1>10. \A q \in Runs : s \in subscribers[q] \cup deliver[q] => q = r
    BY <1>0 DEF Subscription, r
  <1> QED
    BY <1>5, <1>7, <1>9, <1>10 DEF Dismissed, Shown, r

LEMMA SubscriptionStep ==
    ASSUME IInv, [Next]_vars
    PROVE  Subscription'
  <1> USE DEF run, stream
  <1>0. TypeOK /\ Worker /\ Subscription
    BY DEF IInv
  <1>1. ASSUME NEW r \in Runs, start(r) \/ Begin(r) \/ SetResult(r) \/ SetCompleted(r)
                               \/ SetFailed(r) \/ SetError(r)
        PROVE  Subscription'
    <2>1. UNCHANGED <<subscribers, deliver, target, phase, received, queue>>
      BY <1>1 DEF start, Begin, SetResult, SetCompleted, SetFailed, SetError
    <2>2. \A q \in Runs : work[q] # "absent" => work'[q] # "absent"
      BY <1>0, <1>1 DEF start, Begin, SetResult, SetCompleted, SetFailed, SetError, TypeOK
    <2> QED
      BY <1>0, <2>1, <2>2 DEF Subscription
  <1>2. ASSUME NEW r \in Runs, publish(r) PROVE Subscription'
    <2>1. /\ UNCHANGED <<subscribers, target, phase, received, queue>>
          /\ \A q \in Runs : deliver'[q] \subseteq deliver[q] \cup subscribers[q]
          /\ \A q \in Runs : work[q] # "absent" => work'[q] # "absent"
      BY <1>0, <1>2 DEF publish, TypeOK
    <2> QED
      BY <1>0, <2>1 DEF Subscription
  <1>3. ASSUME NEW r \in Runs, Deliver(r) PROVE Subscription'
    <2>1. PICK s \in deliver[r] :
            /\ queue' = [queue EXCEPT ![s] = Append(@,
                  IF work[r] = "closing" THEN Done ELSE Len(events[r]))]
            /\ deliver' = [deliver EXCEPT ![r] = @ \ {s}]
            /\ work' = [work EXCEPT ![r] =
                  IF deliver[r] # {s} THEN @
                  ELSE IF @ = "closing" THEN "gone" ELSE "executing"]
      BY <1>3 DEF Deliver
    <2>2. /\ UNCHANGED <<subscribers, target, phase, received>>
          /\ \A q \in Runs : deliver'[q] \subseteq deliver[q]
          /\ \A q \in Runs : work[q] # "absent" => work'[q] # "absent"
          /\ \A u \in Streams : u # s => queue'[u] = queue[u]
      BY <1>0, <1>3, <2>1 DEF Deliver, TypeOK
    <2>3. phase[s] \in {"streaming", "left"}
      BY <1>0, <2>1 DEF Subscription, TypeOK
    <2> QED
      BY <1>0, <2>2, <2>3 DEF Subscription
  <1>4. ASSUME NEW r \in Runs, finish(r) PROVE Subscription'
    <2>1. /\ UNCHANGED <<target, phase, received, queue>>
          /\ \A q \in Runs : subscribers'[q] \cup deliver'[q] \subseteq
                                subscribers[q] \cup deliver[q]
          /\ \A q \in Runs : work[q] # "absent" => work'[q] # "absent"
      BY <1>0, <1>4 DEF finish, TypeOK
    <2> QED
      BY <1>0, <2>1 DEF Subscription
  <1>5. ASSUME NEW s \in Streams, NEW r \in Runs, Open(s, r) PROVE Subscription'
    <2>1. /\ UNCHANGED <<subscribers, deliver, received, queue, work>>
          /\ phase[s] = "idle" /\ target'[s] = r
          /\ phase'[s] = (IF Tracked(r) THEN "accepted" ELSE "refused")
          /\ \A u \in Streams : u # s => target'[u] = target[u] /\ phase'[u] = phase[u]
      BY <1>0, <1>5 DEF Open, TypeOK
    <2>2. Tracked(r) => work[r] # "absent"
      BY <1>0 DEF Worker
    <2> QED
      BY <1>0, <2>1, <2>2 DEF Subscription
  <1>6. ASSUME NEW s \in Streams, subscribe(s) PROVE Subscription'
    <2>1. /\ UNCHANGED <<deliver, received, target, work>>
          /\ phase[s] = "accepted"
          /\ phase'[s] \in {"streaming", "drained"}
          /\ \A u \in Streams : u # s => phase'[u] = phase[u] /\ queue'[u] = queue[u]
      BY <1>0, <1>6 DEF subscribe, TypeOK
    <2>2. \A q \in Runs : \/ subscribers'[q] = subscribers[q]
                          \/ /\ q = target[s] /\ phase'[s] = "streaming"
                             /\ subscribers'[q] = subscribers[q] \cup {s}
      <3>1. CASE Tracked(target[s])
        BY <1>0, <1>6, <3>1, Subscribed DEF TypeOK
      <3>2. CASE ~Tracked(target[s])
        BY <1>6, <3>2 DEF subscribe
      <3> QED
        BY <3>1, <3>2
    <2> QED
      BY <1>0, <2>1, <2>2 DEF Subscription
  <1>7. ASSUME NEW s \in Streams, Receive(s) PROVE Subscription'
    <2>1. /\ UNCHANGED <<subscribers, deliver, target, work>>
          /\ phase[s] = "streaming" /\ phase'[s] \in {"streaming", "drained"}
          /\ queue[s] # <<>>
          /\ phase'[s] = "drained" => Head(queue[s]) = Done
          /\ \A u \in Streams : u # s => /\ phase'[u] = phase[u] /\ queue'[u] = queue[u]
                                         /\ received'[u] = received[u]
      BY <1>0, <1>7 DEF Receive, TypeOK
    <2>2. phase'[s] = "drained" => \A r \in Runs : s \notin subscribers[r] \cup deliver[r]
      BY <1>0, <1>7, <2>1, Drained
    <2> QED
      BY <1>0, <2>1, <2>2 DEF Subscription
  <1>8. ASSUME NEW s \in Streams, CloseStream(s) \/ Leave(s) PROVE Subscription'
    <2>1. /\ UNCHANGED <<subscribers, deliver, target, work, received, queue>>
          /\ \/ phase[s] = "drained" /\ phase'[s] = "closed"
             \/ phase[s] \in {"accepted", "streaming"} /\ phase'[s] = "left"
          /\ \A u \in Streams : u # s => phase'[u] = phase[u]
      BY <1>0, <1>8 DEF CloseStream, Leave, TypeOK
    <2> QED
      BY <1>0, <2>1 DEF Subscription
  <1>9. ASSUME UNCHANGED vars PROVE Subscription'
    BY <1>0, <1>9 DEF vars, Subscription
  <1> QED
    BY <1>1, <1>2, <1>3, <1>4, <1>5, <1>6, <1>7, <1>8, <1>9 DEF Next, Work, Serve

\* A step that leaves a stream, its run's events and its registration alone, and
\* does not reopen the run, keeps what the stream has been promised.
LEMMA Bystander ==
    ASSUME NEW s \in Streams, Promised(s),
           phase'[s] = phase[s], target'[s] = target[s], frame'[s] = frame[s],
           received'[s] = received[s],
           phase[s] = "streaming" => Seen(s)' = Seen(s),
           phase[s] \in {"streaming", "drained", "closed"} =>
              /\ Ended(target[s]) => status'[target[s]] = status[target[s]]
              /\ events'[target[s]] = events[target[s]]
              /\ s \in subscribers'[target[s]] <=> s \in subscribers[target[s]]
              /\ Tracked(target[s])' => Tracked(target[s])
    PROVE  Promised(s)'
  BY DEF Promised, Live, Dismissed, Shown, Ended

LEMMA ReceptionStep ==
    ASSUME IInv, [Next]_vars
    PROVE  Reception'
  <1> USE DEF run, stream
  <1>0. TypeOK /\ Worker /\ Subscription /\ Reception
    BY DEF IInv
  <1>1. ASSUME NEW r \in Runs, start(r) \/ Begin(r) \/ SetResult(r) \/ SetCompleted(r)
                               \/ SetFailed(r) \/ SetError(r)
        PROVE  Reception'
    <2>1. UNCHANGED <<events, subscribers, deliver, phase, target, queue, received, frame>>
      BY <1>1 DEF start, Begin, SetResult, SetCompleted, SetFailed, SetError
    <2>2. \A q \in Runs : q # r => work'[q] = work[q] /\ status'[q] = status[q]
      BY <1>0, <1>1 DEF start, Begin, SetResult, SetCompleted, SetFailed, SetError, TypeOK
    <2>3. work[r] \in {"absent", "queued", "executing", "resulted", "failing"}
      BY <1>1 DEF start, Begin, SetResult, SetCompleted, SetFailed, SetError
    <2>4. deliver[r] = {}
      BY <1>0, <2>3 DEF Worker
    <2>5. ~Ended(r) \/ status'[r] = status[r]
      BY <1>0, <1>1 DEF start, Begin, SetResult, SetCompleted, SetFailed, SetError,
                        Worker, Ended, TypeOK
    <2>6. \A q \in Runs : work[q] # "absent" /\ Tracked(q)' => Tracked(q)
      <3>1. CASE start(r)
        BY <1>0, <3>1, Retained DEF start, TypeOK, Tracked
      <3>2. CASE ~start(r)
        BY <1>1, <3>2 DEF Begin, SetResult, SetCompleted, SetFailed, SetError, Tracked
      <3> QED
        BY <3>1, <3>2
    <2>7. \A s \in Streams : target[s] \in Runs => Pending(s)' = Pending(s)
      BY <2>1, <2>2, <2>4 DEF Pending
    <2>8. \A s \in Streams : target[s] \in Runs => Seen(s)' = Seen(s)
      BY <2>1, <2>7 DEF Seen
    <2> SUFFICES ASSUME NEW s \in Streams PROVE Promised(s)'
      BY DEF Reception
    <2>9. phase[s] \in {"streaming", "drained", "closed"} =>
             /\ target[s] \in Runs /\ work[target[s]] # "absent"
      BY <1>0 DEF Subscription
    <2>10. \A q \in Runs : Ended(q) => status'[q] = status[q]
      BY <2>2, <2>5
    <2> QED
      BY <1>0, <2>1, <2>6, <2>8, <2>9, <2>10, Bystander DEF Reception
  <1>2. ASSUME NEW r \in Runs, publish(r) PROVE Reception'
    <2>1. /\ UNCHANGED <<kept, status, subscribers, phase, target, queue, received, frame>>
          /\ \A q \in Runs : q # r => /\ work'[q] = work[q] /\ deliver'[q] = deliver[q]
                                      /\ events'[q] = events[q]
          /\ work[r] = "executing"
          /\ deliver'[r] = subscribers[r]
          /\ subscribers[r] # {} => work'[r] = "delivering"
          /\ events'[r] = Append(events[r], Len(events[r]) + 1)
      BY <1>0, <1>2 DEF publish, TypeOK
    <2>2. ~Ended(r) /\ deliver[r] = {}
      BY <1>0, <2>1 DEF Worker
    <2>3. events[r] \in Seq(Nat) /\ Len(events[r]) + 1 \in Nat
      BY <1>0 DEF TypeOK
    <2>4. Len(events'[r]) = Len(events[r]) + 1
      BY <2>1, <2>3, Appended
    <2> SUFFICES ASSUME NEW s \in Streams PROVE Promised(s)'
      BY DEF Reception
    <2>5. phase[s] \in {"streaming", "drained", "closed"} => target[s] \in Runs
      BY <1>0 DEF Subscription
    <2>6. CASE target[s] # r
      <3>1. phase[s] = "streaming" => Seen(s)' = Seen(s)
        BY <2>1, <2>5, <2>6 DEF Seen, Pending
      <3> QED
        BY <1>0, <2>1, <2>5, <2>6, <3>1, Bystander DEF Reception, Tracked
    <2>7. CASE target[s] = r /\ phase[s] = "streaming"
      <3>1. s \in subscribers[r] /\ Seen(s) = events[r]
        BY <1>0, <2>2, <2>7 DEF Reception, Promised, Live, Dismissed
      <3>2. Seen(s) = received[s] \o queue[s] \o Pending(s) /\ Pending(s) = <<>>
        BY <2>2, <2>7 DEF Seen, Pending
      <3>3. /\ Seen(s)' = received[s] \o queue[s] \o Pending(s)'
            /\ Pending(s)' = <<Len(events[r]) + 1>>
        <4>1. s \in deliver'[r] /\ work'[r] = "delivering"
          BY <2>1, <3>1
        <4>2. Pending(s)' = <<Len(events[r]) + 1>>
          BY <2>1, <2>4, <2>7, <4>1 DEF Pending
        <4> QED
          BY <2>1, <4>2 DEF Seen
      <3>4. Seen(s)' = events'[r]
        <4>1. received[s] \in Seq(Nat) /\ queue[s] \in Seq(Nat)
          BY <1>0 DEF TypeOK
        <4> DEFINE sent == received[s] \o queue[s]
        <4>2. sent \in Seq(Nat)
          BY <4>1, ConcatProperties
        <4>3. Seen(s) = sent \o <<>> /\ Seen(s)' = sent \o <<Len(events[r]) + 1>>
          BY <3>2, <3>3
        <4> HIDE DEF sent
        <4>4. Seen(s)' = Append(Seen(s), Len(events[r]) + 1)
          BY <2>3, <4>2, <4>3, Announced
        <4> QED
          BY <2>1, <3>1, <4>4
      <3> QED
        BY <2>1, <2>7, <3>1, <3>4 DEF Promised, Live
    <2>8. CASE target[s] = r /\ phase[s] # "streaming"
      BY <1>0, <2>1, <2>2, <2>8 DEF Reception, Promised, Shown, Tracked
    <2> QED
      BY <2>6, <2>7, <2>8
  <1>3. ASSUME NEW r \in Runs, Deliver(r) PROVE Reception'
    <2> DEFINE item == IF work[r] = "closing" THEN Done ELSE Len(events[r])
    <2>1. PICK x \in deliver[r] :
            /\ queue' = [queue EXCEPT ![x] = Append(@, item)]
            /\ deliver' = [deliver EXCEPT ![r] = @ \ {x}]
            /\ work' = [work EXCEPT ![r] =
                  IF deliver[r] # {x} THEN @
                  ELSE IF @ = "closing" THEN "gone" ELSE "executing"]
      BY <1>3 DEF Deliver
    <2>2. UNCHANGED <<kept, status, events, subscribers, phase, target, received, frame>>
      BY <1>3 DEF Deliver
    <2>3. x \in Streams /\ target[x] = r /\ item \in Nat
      BY <1>0, <2>1 DEF Subscription, TypeOK, Done
    <2> SUFFICES ASSUME NEW s \in Streams PROVE Promised(s)'
      BY DEF Reception
    <2>4. phase[s] = "streaming" => Seen(s)' = Seen(s)
      <3> SUFFICES ASSUME phase[s] = "streaming" PROVE Seen(s)' = Seen(s)
        OBVIOUS
      <3>1. CASE s = x
        <4>1. queue'[s] = Append(queue[s], item) /\ s \notin deliver'[r]
          BY <1>0, <2>1, <2>3, <3>1 DEF TypeOK
        <4>2. Pending(s) = <<item>> /\ Pending(s)' = <<>>
          BY <2>1, <2>2, <2>3, <3>1, <4>1 DEF Pending
        <4>3. received[s] \in Seq(Nat) /\ queue[s] \in Seq(Nat)
          BY <1>0 DEF TypeOK
        <4> HIDE DEF item
        <4>4. received[s] \o Append(queue[s], item) \o <<>> =
                 received[s] \o queue[s] \o <<item>>
          BY <2>3, <4>3, Put
        <4> QED
          BY <2>2, <4>1, <4>2, <4>4 DEF Seen
      <3>2. CASE s # x
        <4>1. target[s] \in Runs
          BY <1>0 DEF Subscription
        <4>2. queue'[s] = queue[s]
          BY <1>0, <2>1, <2>3, <3>2 DEF TypeOK
        <4>3. s \in deliver'[target[s]] <=> s \in deliver[target[s]]
          BY <1>0, <2>1, <3>2, <4>1 DEF TypeOK
        <4>4. s \in deliver[target[s]] => work'[target[s]] = work[target[s]]
          BY <1>0, <2>1, <3>2, <4>1 DEF TypeOK
        <4> QED
          BY <2>2, <4>2, <4>3, <4>4 DEF Seen, Pending
      <3> QED
        BY <3>1, <3>2
    <2> QED
      BY <1>0, <2>2, <2>4, Bystander DEF Reception, Tracked
  <1>4. ASSUME NEW r \in Runs, finish(r) PROVE Reception'
    <2>1. /\ UNCHANGED <<kept, status, events, phase, target, queue, received, frame>>
          /\ \A q \in Runs : q # r => /\ work'[q] = work[q] /\ deliver'[q] = deliver[q]
                                      /\ subscribers'[q] = subscribers[q]
          /\ work[r] = "ended"
          /\ deliver'[r] = subscribers[r] /\ subscribers'[r] = {}
          /\ subscribers[r] # {} => work'[r] = "closing"
      BY <1>0, <1>4 DEF finish, TypeOK
    <2>2. Ended(r) /\ deliver[r] = {}
      BY <1>0, <2>1 DEF Worker
    <2> SUFFICES ASSUME NEW s \in Streams PROVE Promised(s)'
      BY DEF Reception
    <2>3. phase[s] \in {"streaming", "drained", "closed"} => target[s] \in Runs
      BY <1>0 DEF Subscription
    <2>4. CASE target[s] = r /\ phase[s] = "streaming" /\ s \in subscribers[r]
      <3>1. Seen(s) = events[r]
        BY <1>0, <2>4 DEF Reception, Promised, Live, Dismissed
      <3>2. Seen(s) = received[s] \o queue[s] \o Pending(s) /\ Pending(s) = <<>>
        BY <2>2, <2>4 DEF Seen, Pending
      <3>3. /\ Seen(s)' = received[s] \o queue[s] \o Pending(s)'
            /\ Pending(s)' = <<Done>>
        <4>1. s \in deliver'[r] /\ work'[r] = "closing"
          BY <2>1, <2>4
        <4>2. Pending(s)' = <<Done>>
          BY <2>1, <2>4, <4>1 DEF Pending
        <4> QED
          BY <2>1, <4>2 DEF Seen
      <3>4. Seen(s)' = Append(events[r], Done)
        <4>1. received[s] \in Seq(Nat) /\ queue[s] \in Seq(Nat) /\ Done \in Nat
          BY <1>0 DEF TypeOK, Done
        <4> DEFINE sent == received[s] \o queue[s]
        <4>2. sent \in Seq(Nat)
          BY <4>1, ConcatProperties
        <4>3. Seen(s) = sent \o <<>> /\ Seen(s)' = sent \o <<Done>>
          BY <3>2, <3>3
        <4> HIDE DEF sent
        <4>4. Seen(s)' = Append(Seen(s), Done)
          BY <4>1, <4>2, <4>3, Announced
        <4> QED
          BY <3>1, <4>4
      <3> QED
        BY <2>1, <2>2, <2>4, <3>4 DEF Promised, Dismissed, Ended
    <2>5. CASE ~(target[s] = r /\ phase[s] = "streaming" /\ s \in subscribers[r])
      <3>1. phase[s] = "streaming" => Seen(s)' = Seen(s)
        BY <2>1, <2>2, <2>3, <2>5 DEF Seen, Pending
      <3>2. phase[s] = "streaming" =>
               (s \in subscribers'[target[s]] <=> s \in subscribers[target[s]])
        BY <2>1, <2>3, <2>5
      <3>3. CASE phase[s] = "streaming"
        BY <1>0, <2>1, <3>1, <3>2, <3>3, Bystander DEF Reception, Tracked
      <3>4. CASE phase[s] # "streaming"
        BY <1>0, <2>1, <3>4 DEF Reception, Promised, Shown, Ended, Tracked
      <3> QED
        BY <3>3, <3>4
    <2> QED
      BY <2>4, <2>5
  <1>5. ASSUME NEW x \in Streams, NEW r \in Runs, Open(x, r) PROVE Reception'
    <2>1. /\ UNCHANGED <<kept, work, status, events, subscribers, deliver, queue,
                         received, frame>>
          /\ phase'[x] \in {"accepted", "refused"}
          /\ \A u \in Streams : u # x => target'[u] = target[u] /\ phase'[u] = phase[u]
      BY <1>0, <1>5 DEF Open, TypeOK
    <2> SUFFICES ASSUME NEW s \in Streams PROVE Promised(s)'
      BY DEF Reception
    <2>2. CASE s = x
      BY <2>1, <2>2 DEF Promised
    <2>3. CASE s # x
      <3>1. Seen(s)' = Seen(s)
        BY <2>1, <2>3 DEF Seen, Pending
      <3> QED
        BY <1>0, <2>1, <2>3, <3>1, Bystander DEF Reception, Tracked
    <2> QED
      BY <2>2, <2>3
  <1>6. ASSUME NEW x \in Streams, subscribe(x) PROVE Reception'
    <2>1. /\ UNCHANGED <<kept, work, status, events, deliver, target, received, frame>>
          /\ phase[x] = "accepted"
          /\ \A u \in Streams : u # x => phase'[u] = phase[u] /\ queue'[u] = queue[u]
      BY <1>0, <1>6 DEF subscribe, TypeOK
    <2>2. /\ target[x] \in Runs /\ received[x] = <<>>
          /\ x \notin subscribers[target[x]] \cup deliver[target[x]]
      BY <1>0, <2>1 DEF Subscription
    <2>3. \A q \in Runs : subscribers'[q] \in {subscribers[q], subscribers[q] \cup {x}}
      <3>1. CASE Tracked(target[x])
        BY <1>0, <1>6, <3>1, Subscribed DEF TypeOK
      <3>2. CASE ~Tracked(target[x])
        BY <1>6, <3>2 DEF subscribe
      <3> QED
        BY <3>1, <3>2
    <2> SUFFICES ASSUME NEW s \in Streams PROVE Promised(s)'
      BY DEF Reception
    <2>4. CASE s # x
      <3>1. Seen(s)' = Seen(s)
        BY <2>1, <2>4 DEF Seen, Pending
      <3>2. phase[s] \in {"streaming", "drained", "closed"} => target[s] \in Runs
        BY <1>0 DEF Subscription
      <3>3. \A q \in Runs : s \in subscribers'[q] <=> s \in subscribers[q]
        BY <2>3, <2>4
      <3> QED
        BY <1>0, <2>1, <2>4, <3>1, <3>2, <3>3, Bystander DEF Reception, Tracked
    <2>5. CASE s = x /\ Tracked(target[x])
      <3>1. /\ phase'[x] = "streaming" /\ queue'[x] = Seed(target[x])
            /\ Ended(target[x]) => subscribers'[target[x]] = subscribers[target[x]]
            /\ ~Ended(target[x]) => x \in subscribers'[target[x]]
        BY <1>0, <1>6, <2>2, <2>5, Subscribed DEF TypeOK, Ended
      <3>2. Seed(target[x]) \in Seq(Nat)
        BY <1>0, <2>2, Appended DEF Seed, TypeOK, Done
      <3>3. Pending(x)' = <<>>
        BY <2>1, <2>2 DEF Pending
      <3>4. Seen(x)' = Seed(target[x])
        BY <2>1, <2>2, <3>1, <3>2, <3>3, Seeded DEF Seen
      <3>5. CASE Ended(target[x])
        <4>1. Seed(target[x]) = Append(events[target[x]], Done)
          BY <3>5 DEF Seed, Ended
        <4>2. Dismissed(x)'
          BY <2>1, <2>2, <3>1, <3>4, <3>5, <4>1 DEF Dismissed, Ended
        <4> QED
          BY <2>5, <3>1, <4>2 DEF Promised
      <3>6. CASE ~Ended(target[x])
        <4>1. Seed(target[x]) = events[target[x]]
          BY <3>6 DEF Seed, Ended
        <4>2. Live(x)'
          BY <2>1, <3>1, <3>4, <3>6, <4>1 DEF Live
        <4> QED
          BY <2>5, <3>1, <4>2 DEF Promised
      <3> QED
        BY <3>5, <3>6
    <2>6. CASE s = x /\ ~Tracked(target[x])
      <3>1. phase'[x] = "drained"
        BY <1>0, <1>6, <2>6 DEF subscribe, TypeOK
      <3> QED
        BY <2>1, <2>6, <3>1 DEF Promised, Tracked
    <2> QED
      BY <2>4, <2>5, <2>6
  <1>7. ASSUME NEW x \in Streams, Receive(x) PROVE Reception'
    <2>1. /\ UNCHANGED <<kept, work, status, events, subscribers, deliver, target, frame>>
          /\ phase[x] = "streaming" /\ queue[x] # <<>>
          /\ queue'[x] = Tail(queue[x])
          /\ \A u \in Streams : u # x => /\ phase'[u] = phase[u] /\ queue'[u] = queue[u]
                                         /\ received'[u] = received[u]
      BY <1>0, <1>7 DEF Receive, TypeOK
    <2> SUFFICES ASSUME NEW s \in Streams PROVE Promised(s)'
      BY DEF Reception
    <2>2. CASE s # x
      <3>1. Seen(s)' = Seen(s)
        BY <2>1, <2>2 DEF Seen, Pending
      <3> QED
        BY <1>0, <2>1, <2>2, <3>1, Bystander DEF Reception, Tracked
    <2>3. CASE s = x /\ Head(queue[x]) = Done
      <3>1. Shown(x)
        BY <2>1, <2>3, Drained
      <3>2. phase'[x] = "drained" /\ received'[x] = received[x]
        BY <1>0, <1>7, <2>3 DEF Receive, TypeOK
      <3> QED
        BY <2>1, <2>3, <3>1, <3>2 DEF Promised, Shown, Ended
    <2>4. CASE s = x /\ Head(queue[x]) # Done
      <3>1. phase'[x] = phase[x] /\ received'[x] = Append(received[x], Head(queue[x]))
        BY <1>0, <1>7, <2>4 DEF Receive, TypeOK
      <3>2. received[x] \in Seq(Nat) /\ queue[x] \in Seq(Nat) /\ Pending(x) \in Seq(Nat)
        BY <1>0, <2>1 DEF Subscription, TypeOK, Pending, Done
      <3>3. Pending(x)' = Pending(x)
        BY <2>1 DEF Pending
      <3>4. Seen(x)' = Append(received[x], Head(queue[x])) \o Tail(queue[x]) \o Pending(x)
        BY <2>1, <3>1, <3>3 DEF Seen
      <3>5. Seen(x)' = Seen(x)
        BY <2>1, <3>2, <3>4, Moved DEF Seen
      <3> QED
        BY <1>0, <2>1, <2>4, <3>1, <3>5 DEF Reception, Promised, Live, Dismissed, Ended
    <2> QED
      BY <2>2, <2>3, <2>4
  <1>8. ASSUME NEW x \in Streams, CloseStream(x) PROVE Reception'
    <2>1. /\ UNCHANGED <<kept, work, status, events, subscribers, deliver, target,
                         queue, received>>
          /\ phase[x] = "drained" /\ phase'[x] = "closed"
          /\ frame'[x] = (IF Tracked(target[x])
                          THEN [status |-> status[target[x]], result |-> result[target[x]],
                                error |-> error[target[x]]]
                          ELSE NoFrame)
          /\ \A u \in Streams : u # x => phase'[u] = phase[u] /\ frame'[u] = frame[u]
      BY <1>0, <1>8 DEF CloseStream, TypeOK
    <2> SUFFICES ASSUME NEW s \in Streams PROVE Promised(s)'
      BY DEF Reception
    <2>2. CASE s # x
      <3>1. Seen(s)' = Seen(s)
        BY <2>1, <2>2 DEF Seen, Pending
      <3> QED
        BY <1>0, <2>1, <2>2, <3>1, Bystander DEF Reception, Tracked
    <2>3. CASE s = x
      <3>1. target[x] \in Runs
        BY <1>0, <2>1 DEF Subscription
      <3>2. Tracked(target[x]) => Shown(x)
        BY <1>0, <2>1 DEF Reception, Promised
      <3>3. status[target[x]] = "completed" => result[target[x]]
        BY <1>0, <3>1 DEF Worker
      <3>4. CASE Tracked(target[x])
        BY <2>1, <2>3, <3>2, <3>3, <3>4 DEF Promised, Shown, Ended
      <3>5. CASE ~Tracked(target[x])
        BY <2>1, <2>3, <3>5 DEF Promised
      <3> QED
        BY <3>4, <3>5
    <2> QED
      BY <2>2, <2>3
  <1>9. ASSUME NEW x \in Streams, Leave(x) PROVE Reception'
    <2>1. /\ UNCHANGED <<kept, work, status, events, subscribers, deliver, target,
                         queue, received, frame>>
          /\ phase'[x] = "left"
          /\ \A u \in Streams : u # x => phase'[u] = phase[u]
      BY <1>0, <1>9 DEF Leave, TypeOK
    <2> SUFFICES ASSUME NEW s \in Streams PROVE Promised(s)'
      BY DEF Reception
    <2>2. CASE s # x
      <3>1. Seen(s)' = Seen(s)
        BY <2>1 DEF Seen, Pending
      <3> QED
        BY <1>0, <2>1, <2>2, <3>1, Bystander DEF Reception, Tracked
    <2>3. CASE s = x
      BY <2>1, <2>3 DEF Promised
    <2> QED
      BY <2>2, <2>3
  <1>10. ASSUME UNCHANGED vars PROVE Reception'
    BY <1>0, <1>10 DEF vars, Reception, Promised, Live, Dismissed, Shown, Seen, Pending,
                       Ended, Tracked
  <1> QED
    BY <1>1, <1>2, <1>3, <1>4, <1>5, <1>6, <1>7, <1>8, <1>9, <1>10
       DEF Next, Work, Serve

----------------------------------------------------------------------------
\* Every reachable state is typed, and the registry never holds more runs than
\* it is allowed (RunManager._retain).
THEOREM TypeCorrect == Spec => []TypeOK
  <1>1. Init => TypeOK
    BY InitInv DEF IInv
  <1>2. TypeOK /\ [Next]_vars => TypeOK'
    BY TypeStep
  <1> QED
    BY <1>1, <1>2, PTL DEF Spec

\* However many clients connect, leave and reconnect while however many runs
\* publish and finish, no stream misses, repeats or reorders an event, and none
\* that closes says its run is still going (subscribe, publish, finish).
THEOREM StreamSafety == Spec => []StreamFaithful
  <1>1. IInv /\ [Next]_vars => IInv'
    BY TypeStep, WorkerStep, SubscriptionStep, ReceptionStep DEF IInv
  <1>2. IInv => StreamFaithful
    BY DEF IInv, Reception, Promised, Live, Dismissed, Shown, Seen, StreamFaithful
  <1> QED
    BY <1>1, <1>2, InitInv, PTL DEF Spec
=============================================================================
