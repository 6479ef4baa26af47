-------------------------- MODULE ScanServiceProofs --------------------------
(***************************************************************************)
(* Theorems about the scheduler, the shared allowance and the registry of  *)
(* scans, for any number of request threads, scheduler threads and scans,  *)
(* any allowance and any size of the registry.                             *)
(***************************************************************************)
EXTENDS ScanService, FiniteSetTheorems, TLAPS

----------------------------------------------------------------------------
\* The scheduler.

LoopStates == {"unborn", "test", "tick", "scan", "wait", "dead"}

\* The owner knows the one live thread, as long as no join timed out.
LoopInv == /\ loop \in [Loops -> LoopStates]
           /\ gave_up \in BOOLEAN
           /\ handle \in Loops \cup {None}
           /\ joining => handle # None
           /\ ~gave_up => \A l \in Loops : Live(l) => handle = l

LEMMA InitLoop == Init => LoopInv
  BY DEF Init, LoopInv, LoopStates, Live

\* A thread that was live goes on; nobody else becomes live.
LEMMA LoopGoesOn ==
    ASSUME LoopInv, NEW l \in Loops, Live(l), NEW to \in LoopStates, LoopGoes(l, to)
    PROVE  LoopInv'
  <1>1. /\ loop' = [loop EXCEPT ![l] = to]
        /\ UNCHANGED <<handle, joining, gave_up>>
    BY DEF LoopGoes
  <1>2. \A k \in Loops : Live(k)' => Live(k)
    BY <1>1 DEF Live, LoopInv
  <1> QED
    BY <1>1, <1>2 DEF LoopInv

LEMMA StartLoop == LoopInv /\ start => LoopInv'
  <1> SUFFICES ASSUME LoopInv, start PROVE LoopInv'
    OBVIOUS
  <1>1. PICK l \in Loops : loop' = [loop EXCEPT ![l] = "test"] /\ handle' = l
    BY DEF start
  <1>2. ~joining /\ UNCHANGED <<joining, gave_up>> /\ (handle # None => ~Live(handle))
    BY DEF start
  <1>3. ~gave_up => \A k \in Loops : ~Live(k)
    BY <1>2 DEF LoopInv, None, Loops
  <1>4. ~gave_up => \A k \in Loops : Live(k)' => k = l
    BY <1>1, <1>3 DEF LoopInv, Live
  <1> QED
    BY <1>1, <1>2, <1>4 DEF LoopInv, LoopStates

LEMMA LoopStep == LoopInv /\ [Next]_vars => LoopInv'
  <1> SUFFICES ASSUME LoopInv, [Next]_vars PROVE LoopInv'
    OBVIOUS
  <1>1. CASE UNCHANGED <<loop, handle, joining, gave_up>>
    BY <1>1 DEF LoopInv, Live
  <1>2. CASE SetStop
    BY <1>2 DEF SetStop, LoopInv, Live
  <1>3. CASE Join
    BY <1>3 DEF Join, LoopInv, Live
  <1>4. ASSUME NEW l \in Loops, _loop(l) PROVE LoopInv'
    <2>1. Live(l) /\ \E to \in LoopStates : LoopGoes(l, to)
      BY <1>4 DEF _loop, LoopTest, run_once, ScanReturns, Wake, Live, LoopStates
    <2> QED
      BY <2>1, LoopGoesOn
  <1>5. Reload => UNCHANGED <<loop, handle, joining, gave_up>>
    BY DEF Reload
  <1>6. ASSUME NEW h \in Handlers, Handle(h)
        PROVE  UNCHANGED <<loop, handle, joining, gave_up>>
    BY <1>6 DEF Handle, get_rate_limiter, BuildLimiter, enforce_rate_limit, start_scan,
           start_assessment, Register, StartThread, Refuse, scheduler
  <1>7. ASSUME NEW s \in Scans, execute(s) \/ Die(s)
        PROVE  UNCHANGED <<loop, handle, joining, gave_up>>
    BY <1>7 DEF execute, Die, scheduler
  <1>8. UNCHANGED vars => UNCHANGED <<loop, handle, joining, gave_up>>
    BY DEF vars, scheduler
  <1> QED
    BY <1>1, <1>2, <1>3, <1>4, <1>5, <1>6, <1>7, <1>8, StartLoop DEF Next

\* However often the scheduler is started, stopped and reconfigured, two of its
\* threads are never alive together unless a stop() gave up on one.
THEOREM OneLoop == Spec => []LoneLoop
  <1>1. LoopInv => LoneLoop
    <2> SUFFICES ASSUME LoopInv, ~gave_up
                 PROVE  Cardinality({l \in Loops : Live(l)}) <= 1
      BY DEF LoneLoop
    <2>1. {l \in Loops : Live(l)} \subseteq {handle}
      BY DEF LoopInv
    <2>2. IsFiniteSet({handle}) /\ Cardinality({handle}) = 1
      BY FS_Singleton
    <2> QED
      BY <2>1, <2>2, FS_Subset
  <1> QED
    BY InitLoop, LoopStep, <1>1, PTL DEF Spec

----------------------------------------------------------------------------
\* The allowance.

Places == {"idle", "building", "charge", "select", "register", "start"}

Seats  == [at : Places, limiter : {"none", "cached", "own"}, scan : Nat]

HandlerType ==
    /\ handler \in [Handlers -> Seats]
    /\ limiter \in 0..Allowance \cup {Unbuilt}
    /\ admitted \in Nat /\ private \in Nat /\ posted \in Nat /\ started \in Nat

At(place) == {h \in Handlers : handler[h].at = place}
Owning    == {h \in At("charge") : handler[h].limiter # "cached"}
Built     == IF limiter = Unbuilt THEN 0 ELSE limiter

OwnCount    == Cardinality(Owning)
SelectCount == Cardinality(At("select"))
BuildCount  == Cardinality(At("building"))

\* A limiter built beside the cached one admits one run, of the thread that
\* built it; a run is charged before it starts; and of the threads that found
\* the cache empty one has filled it.
AllowanceInv ==
    /\ HandlerType
    /\ \A h \in Handlers : handler[h].at = "charge" /\ handler[h].limiter = "cached"
                              => limiter # Unbuilt
    /\ admitted + OwnCount <= Built + private
    /\ posted + started + SelectCount <= admitted
    /\ limiter = Unbuilt => private = 0
    /\ limiter # Unbuilt => private + BuildCount < Cardinality(Handlers)

LEMMA Counted ==
    ASSUME NEW S, S \subseteq Handlers
    PROVE  /\ Cardinality(S) \in Nat /\ Cardinality(Handlers) \in Nat
           /\ Cardinality(S) <= Cardinality(Handlers)
           /\ \A h \in Handlers :
                 /\ h \in S => Cardinality(S \ {h}) = Cardinality(S) - 1
                 /\ h \notin S => Cardinality(S \cup {h}) = Cardinality(S) + 1
                 /\ h \in S => Cardinality(S) > 0
  <1>1. IsFiniteSet(S) /\ Cardinality(S) <= Cardinality(Handlers)
    BY HandlersAssumption, FS_Subset
  <1>2. Cardinality(S) \in Nat /\ Cardinality(Handlers) \in Nat
    BY <1>1, HandlersAssumption, FS_CardinalityType
  <1>3. ASSUME NEW h \in Handlers
        PROVE  /\ h \in S => Cardinality(S \ {h}) = Cardinality(S) - 1
               /\ h \notin S => Cardinality(S \cup {h}) = Cardinality(S) + 1
    BY <1>1, FS_RemoveElement, FS_AddElement
  <1>4. S # {} => Cardinality(S) > 0
    BY <1>1, <1>2, FS_EmptySet
  <1> QED
    BY <1>1, <1>2, <1>3, <1>4

LEMMA CountsAreNat ==
    /\ OwnCount \in Nat /\ SelectCount \in Nat /\ BuildCount \in Nat
    /\ Cardinality(Handlers) \in Nat
  BY Counted DEF OwnCount, SelectCount, BuildCount, Owning, At

\* A thread that moves leaves one place and enters another.
\* How a count changes when one element of the counted set comes or goes.
Recount(old, new, was, is) ==
    /\ ~was /\ is => new = old + 1
    /\ was /\ ~is => new = old - 1
    /\ (was <=> is) => new = old

Owns(seat) == seat.at = "charge" /\ seat.limiter # "cached"

LEMMA Moved ==
    ASSUME HandlerType, NEW h \in Handlers, NEW to \in Seats,
           handler' = [handler EXCEPT ![h] = to]
    PROVE  /\ handler' \in [Handlers -> Seats]
           /\ handler'[h] = to
           /\ \A g \in Handlers \ {h} : handler'[g] = handler[g]
           /\ Recount(SelectCount, SelectCount', handler[h].at = "select", to.at = "select")
           /\ Recount(BuildCount, BuildCount', handler[h].at = "building", to.at = "building")
           /\ Recount(OwnCount, OwnCount', Owns(handler[h]), Owns(to))
  <1>1. /\ handler' \in [Handlers -> Seats] /\ handler'[h] = to
        /\ \A g \in Handlers \ {h} : handler'[g] = handler[g]
    BY DEF HandlerType
  <1>2. ASSUME NEW place \in Places
        PROVE  /\ to.at = place => At(place)' = At(place) \cup {h}
               /\ to.at # place => At(place)' = At(place) \ {h}
               /\ h \in At(place) <=> handler[h].at = place
               /\ At(place) \subseteq Handlers
    BY <1>1 DEF At
  <1>3. /\ Owns(to) => Owning' = Owning \cup {h}
        /\ ~Owns(to) => Owning' = Owning \ {h}
        /\ h \in Owning <=> Owns(handler[h])
        /\ Owning \subseteq Handlers
    BY <1>1 DEF At, Owning, Owns
  <1>4. ASSUME NEW S, NEW T, S \subseteq Handlers, NEW is \in BOOLEAN,
               is => T = S \cup {h}, ~is => T = S \ {h}
        PROVE  Recount(Cardinality(S), Cardinality(T), h \in S, is)
    <2>1. is /\ h \in S => T = S
      BY <1>4
    <2>2. ~is /\ h \notin S => T = S
      BY <1>4
    <2>3. is /\ h \notin S => Cardinality(T) = Cardinality(S) + 1
      BY <1>4, Counted
    <2>4. ~is /\ h \in S => Cardinality(T) = Cardinality(S) - 1
      BY <1>4, Counted
    <2> QED
      BY <2>1, <2>2, <2>3, <2>4 DEF Recount
  <1>5. /\ "select" \in Places /\ "building" \in Places
    BY DEF Places
  <1>6. Recount(SelectCount, SelectCount', handler[h].at = "select", to.at = "select")
    <2>1. Recount(Cardinality(At("select")), Cardinality(At("select")'),
                  h \in At("select"), to.at = "select")
      BY <1>2, <1>4, <1>5
    <2> QED
      BY <1>2, <1>5, <2>1 DEF Recount, SelectCount
  <1>7. Recount(BuildCount, BuildCount', handler[h].at = "building", to.at = "building")
    <2>1. Recount(Cardinality(At("building")), Cardinality(At("building")'),
                  h \in At("building"), to.at = "building")
      BY <1>2, <1>4, <1>5
    <2> QED
      BY <1>2, <1>5, <2>1 DEF Recount, BuildCount
  <1>8. Recount(OwnCount, OwnCount', Owns(handler[h]), Owns(to))
    <2>1. Recount(Cardinality(Owning), Cardinality(Owning'), h \in Owning, Owns(to))
      BY <1>3, <1>4 DEF Owns
    <2> QED
      BY <1>3, <2>1 DEF Recount, OwnCount
  <1> QED
    BY <1>1, <1>6, <1>7, <1>8

LEMMA InitAllowance == Init => AllowanceInv
  <1> SUFFICES ASSUME Init PROVE AllowanceInv
    OBVIOUS
  <1>1. HandlerType
    BY DEF Init, HandlerType, Seats, Places, None
  <1>2. Owning = {} /\ At("select") = {}
    BY DEF Init, At, Owning
  <1>3. OwnCount = 0 /\ SelectCount = 0
    BY <1>2, FS_EmptySet DEF OwnCount, SelectCount
  <1>4. /\ limiter = Unbuilt /\ admitted = 0 /\ private = 0 /\ posted = 0 /\ started = 0
        /\ \A h \in Handlers : handler[h].at = "idle"
    BY DEF Init
  <1> QED
    BY <1>1, <1>3, <1>4 DEF AllowanceInv, Built

\* A run started is a run no longer waiting to start.
LEMMA PaidFor ==
    ASSUME NEW p \in Nat, NEW q \in Nat, NEW c \in Nat, NEW a \in Nat, p + q + c <= a,
           NEW pNext \in Nat, NEW qNext \in Nat, pNext + qNext = p + q + 1
    PROVE  pNext + qNext + (c - 1) <= a
  OBVIOUS

\* Each step moves one thread, and pays for what it starts.
LEMMA HandlerStep ==
    ASSUME AllowanceInv, NEW h \in Handlers, Handle(h)
    PROVE  AllowanceInv'
  <1> USE CountsAreNat DEF AllowanceInv
  <1>1. /\ Built \in Nat /\ admitted \in Nat /\ private \in Nat
        /\ posted \in Nat /\ started \in Nat
    BY AllowanceAssumption DEF Built, HandlerType
  <1>2. ASSUME Refuse(h), handler[h].at = "charge" \/ handler[h].at = "select"
        PROVE  AllowanceInv'
    <2> DEFINE to == [at |-> "idle", limiter |-> "none", scan |-> None]
    <2>1. /\ to \in Seats /\ to.at = "idle" /\ handler' = [handler EXCEPT ![h] = to]
          /\ UNCHANGED <<limiter, admitted, private, posted, started>>
      BY <1>2 DEF Refuse, Free, Seats, Places, None
    <2> HIDE DEF to
    <2>2. /\ OwnCount' = OwnCount \/ OwnCount' = OwnCount - 1
          /\ SelectCount' = SelectCount \/ SelectCount' = SelectCount - 1
          /\ BuildCount' = BuildCount
      BY <1>2, <2>1, Moved DEF Recount, Owns
    <2>4. HandlerType' /\ \A g \in Handlers : handler'[g] = handler[g] \/ handler'[g].at = "idle"
      BY <2>1, Moved DEF HandlerType
    <2>5. Built' = Built
      BY <2>1 DEF Built
    <2>6. admitted' + OwnCount' <= Built' + private' /\ posted' + started' + SelectCount' <= admitted'
      BY <1>1, <2>1, <2>2, <2>5
    <2> QED
      BY <2>1, <2>2, <2>4, <2>6
  <1>3. ASSUME get_rate_limiter(h) PROVE AllowanceInv'
    <2>1. /\ handler[h] \in Seats /\ handler[h].at = "idle"
          /\ UNCHANGED <<limiter, admitted, private, posted, started>>
      BY <1>3 DEF get_rate_limiter, HandlerType, Seats
    <2>2. CASE limiter = Unbuilt
      <3>1. handler' = [handler EXCEPT ![h] = [handler[h] EXCEPT !.at = "building"]]
        BY <1>3, <2>2 DEF get_rate_limiter
      <3>2. /\ [handler[h] EXCEPT !.at = "building"] \in Seats
            /\ [handler[h] EXCEPT !.at = "building"].at = "building"
        BY <2>1 DEF Seats, Places
      <3>3. OwnCount' = OwnCount /\ SelectCount' = SelectCount
        BY <2>1, <3>1, <3>2, Moved DEF Recount, Owns
      <3>4. HandlerType' /\ \A g \in Handlers : handler'[g] = handler[g] \/ handler'[g].at = "building"
        BY <2>1, <3>1, <3>2, Moved DEF HandlerType
      <3> QED
        BY <2>1, <2>2, <3>3, <3>4 DEF Built
    <2>3. CASE limiter # Unbuilt
      <3> DEFINE to == [handler[h] EXCEPT !.at = "charge", !.limiter = "cached"]
      <3>1. handler' = [handler EXCEPT ![h] = to]
        BY <1>3, <2>3 DEF get_rate_limiter
      <3>2. to \in Seats /\ to.at = "charge" /\ to.limiter = "cached"
        BY <2>1 DEF Seats, Places
      <3>3. OwnCount' = OwnCount /\ SelectCount' = SelectCount /\ BuildCount' = BuildCount
        BY <2>1, <3>1, <3>2, Moved DEF Recount, Owns
      <3>4. HandlerType'
        BY <2>1, <3>1, <3>2, Moved DEF HandlerType
      <3> QED
        BY <2>1, <2>3, <3>3, <3>4 DEF Built
    <2> QED
      BY <2>2, <2>3
  <1>4. ASSUME BuildLimiter(h) PROVE AllowanceInv'
    <2>1. /\ handler[h] \in Seats /\ handler[h].at = "building"
          /\ UNCHANGED <<admitted, posted, started>>
      BY <1>4 DEF BuildLimiter, HandlerType, Seats
    <2>2. BuildCount > 0 /\ BuildCount <= Cardinality(Handlers)
      <3>1. At("building") \subseteq Handlers /\ h \in At("building")
        BY <2>1 DEF At
      <3> QED
        BY <3>1, Counted DEF BuildCount
    <2>3. CASE limiter = Unbuilt
      <3> DEFINE to == [handler[h] EXCEPT !.at = "charge", !.limiter = "cached"]
      <3>1. handler' = [handler EXCEPT ![h] = to] /\ limiter' = 0 /\ UNCHANGED private
        BY <1>4, <2>3 DEF BuildLimiter
      <3>2. to \in Seats /\ to.at = "charge" /\ to.limiter = "cached"
        BY <2>1 DEF Seats, Places
      <3>3. OwnCount' = OwnCount /\ SelectCount' = SelectCount /\ BuildCount' = BuildCount - 1
        BY <2>1, <3>1, <3>2, Moved DEF Recount, Owns
      <3>4. HandlerType'
        BY AllowanceAssumption, <2>1, <3>1, <3>2, Moved DEF HandlerType
      <3>5. limiter' # Unbuilt /\ Built = 0 /\ Built' = 0 /\ private = 0
        BY <2>3, <3>1 DEF Built, Unbuilt
      <3> QED
        BY <2>1, <2>2, <3>1, <3>3, <3>4, <3>5
    <2>4. CASE limiter # Unbuilt
      <3> DEFINE to == [handler[h] EXCEPT !.at = "charge", !.limiter = "own"]
      <3>1. handler' = [handler EXCEPT ![h] = to] /\ private' = private + 1 /\ UNCHANGED limiter
        BY <1>4, <2>4 DEF BuildLimiter
      <3>2. to \in Seats /\ to.at = "charge" /\ to.limiter = "own"
        BY <2>1 DEF Seats, Places
      <3>3. OwnCount' = OwnCount + 1 /\ SelectCount' = SelectCount /\ BuildCount' = BuildCount - 1
        BY <2>1, <3>1, <3>2, Moved DEF Recount, Owns
      <3>4. HandlerType'
        BY <2>1, <3>1, <3>2, Moved DEF HandlerType
      <3>5. Built' = Built
        BY <3>1 DEF Built
      <3>6. /\ admitted' + OwnCount' <= Built' + private'
            /\ private' + BuildCount' < Cardinality(Handlers)
        BY <1>1, <2>1, <2>4, <3>1, <3>3, <3>5 DEF HandlerType
      <3>7. \A g \in Handlers : handler'[g].at = "charge" /\ handler'[g].limiter = "cached"
                                   => limiter' # Unbuilt
        BY <2>4, <3>1
      <3> QED
        BY <2>1, <2>4, <3>1, <3>3, <3>4, <3>6, <3>7
    <2> QED
      BY <2>3, <2>4
  <1>5. ASSUME enforce_rate_limit(h) PROVE AllowanceInv'
    <2>1. handler[h] \in Seats /\ handler[h].at = "charge"
      BY <1>5 DEF enforce_rate_limit, HandlerType, Seats
    <2>2. CASE handler[h].limiter = "cached" /\ limiter >= Allowance
      BY <1>2, <1>5, <2>1, <2>2 DEF enforce_rate_limit
    <2>3. CASE ~(handler[h].limiter = "cached" /\ limiter >= Allowance)
      <3> DEFINE to == [handler[h] EXCEPT !.at = "select"]
      <3>1. /\ handler' = [handler EXCEPT ![h] = to] /\ admitted' = admitted + 1
            /\ limiter' = IF handler[h].limiter = "cached" THEN limiter + 1 ELSE limiter
            /\ UNCHANGED <<private, posted, started>>
        BY <1>5, <2>3 DEF enforce_rate_limit
      <3>2. to \in Seats /\ to.at = "select" /\ to.limiter = handler[h].limiter
        BY <2>1 DEF Seats, Places
      <3>3. /\ SelectCount' = SelectCount + 1 /\ BuildCount' = BuildCount
            /\ handler[h].limiter = "cached" => OwnCount' = OwnCount
            /\ handler[h].limiter # "cached" => OwnCount' = OwnCount - 1
        BY <2>1, <3>1, <3>2, Moved DEF Recount, Owns
      <3>4. /\ handler' \in [Handlers -> Seats]
            /\ \A g \in Handlers : handler'[g] = handler[g] \/ handler'[g].at = "select"
        BY <2>1, <3>1, <3>2, Moved DEF Recount, Owns
      <3>5. CASE handler[h].limiter = "cached"
        <4>1. limiter \in Nat /\ limiter # Unbuilt /\ limiter < Allowance /\ limiter' = limiter + 1
          BY AllowanceAssumption, <2>1, <2>3, <3>1, <3>5 DEF HandlerType
        <4>2. limiter' # Unbuilt /\ Built' = Built + 1 /\ limiter' \in 0..Allowance
          BY AllowanceAssumption, <4>1 DEF Built, Unbuilt
        <4>3. HandlerType'
          BY <3>1, <3>4, <4>2 DEF HandlerType, Seats
        <4>4. admitted' + OwnCount' <= Built' + private' /\ posted' + started' + SelectCount' <= admitted'
          BY <1>1, <3>1, <3>3, <3>5, <4>2 DEF HandlerType
        <4> QED
          BY <3>1, <3>3, <4>1, <4>2, <4>3, <4>4
      <3>6. CASE handler[h].limiter # "cached"
        <4>1. limiter' = limiter /\ Built' = Built
          BY <3>1, <3>6 DEF Built
        <4>2. HandlerType'
          BY <3>1, <3>4, <4>1 DEF HandlerType, Seats
        <4>3. admitted' + OwnCount' <= Built' + private' /\ posted' + started' + SelectCount' <= admitted'
          BY <1>1, <3>1, <3>3, <3>6, <4>1 DEF HandlerType
        <4>4. \A g \in Handlers : handler'[g].at = "charge" /\ handler'[g].limiter = "cached"
                                     => limiter' # Unbuilt
          BY <3>4, <4>1
        <4> QED
          BY <3>1, <3>3, <4>1, <4>2, <4>3, <4>4
      <3> QED
        BY <3>5, <3>6
    <2> QED
      BY <2>2, <2>3
  <1>6. ASSUME NEW to \in Seats, handler' = [handler EXCEPT ![h] = to],
               to.at \in {"idle", "register", "start"}, handler[h].at = "select",
               posted' \in Nat, started' \in Nat, posted' + started' = posted + started + 1,
               UNCHANGED <<limiter, admitted, private>>
        PROVE  AllowanceInv'
    <2>1. OwnCount' = OwnCount /\ SelectCount' = SelectCount - 1 /\ BuildCount' = BuildCount
      BY <1>6, Moved DEF Recount, Owns
    <2>2. HandlerType' /\ \A g \in Handlers : handler'[g] = handler[g] \/ handler'[g].at # "charge"
      BY <1>6, Moved DEF HandlerType
    <2>3. Built' = Built
      BY <1>6 DEF Built
    <2>4. posted' + started' + SelectCount' <= admitted'
      <3>1. /\ posted' \in Nat /\ started' \in Nat /\ admitted' = admitted
            /\ posted' + started' = posted + started + 1
        BY <1>6
      <3>2. SelectCount' = SelectCount - 1 /\ posted + started + SelectCount <= admitted
        BY <2>1
      <3> QED
        BY <1>1, <3>1, <3>2, PaidFor
    <2> QED
      BY <1>6, <2>1, <2>2, <2>3, <2>4
  <1>7. ASSUME NEW to \in Seats, handler' = [handler EXCEPT ![h] = to],
               to.at \in {"idle", "start"}, handler[h].at \in {"register", "start"},
               UNCHANGED <<limiter, admitted, private, posted, started>>
        PROVE  AllowanceInv'
    <2>1. OwnCount' = OwnCount /\ SelectCount' = SelectCount /\ BuildCount' = BuildCount
      BY <1>7, Moved DEF Recount, Owns
    <2>2. HandlerType' /\ \A g \in Handlers : handler'[g] = handler[g] \/ handler'[g].at # "charge"
      BY <1>7, Moved DEF HandlerType
    <2> QED
      BY <1>7, <2>1, <2>2 DEF Built
  <1>8. ASSUME NEW body \in Bodies, start_scan(h, body) PROVE AllowanceInv'
    <2>1. handler[h] \in Seats /\ handler[h].at = "select"
      BY <1>8 DEF start_scan, HandlerType, Seats
    <2>2. CASE Refuse(h)
      BY <1>2, <2>1, <2>2
    <2>3. CASE ~Refuse(h)
      <3> DEFINE to == [handler[h] EXCEPT !.at = "register", !.scan = posted + 1]
      <3>1. /\ handler' = [handler EXCEPT ![h] = to] /\ posted' = posted + 1
            /\ UNCHANGED <<limiter, admitted, private, started>>
        BY <1>8, <2>3 DEF start_scan
      <3>2. to \in Seats /\ to.at = "register"
        <4>1. posted + 1 \in Nat
          BY <1>1
        <4> QED
          BY <2>1, <4>1 DEF Seats, Places
      <3>3. posted' \in Nat /\ started' \in Nat /\ posted' + started' = posted + started + 1
        BY <3>1 DEF HandlerType
      <3> HIDE DEF to
      <3> QED
        BY <1>6, <2>1, <3>1, <3>2, <3>3
    <2> QED
      BY <2>2, <2>3
  <1>9. ASSUME NEW body \in Questions, start_assessment(h, body) PROVE AllowanceInv'
    <2>1. handler[h] \in Seats /\ handler[h].at = "select"
      BY <1>9 DEF start_assessment, HandlerType, Seats
    <2>2. CASE Refuse(h)
      BY <1>2, <2>1, <2>2
    <2>3. CASE ~Refuse(h)
      <3> DEFINE to == [at |-> "idle", limiter |-> "none", scan |-> None]
      <3>1. /\ handler' = [handler EXCEPT ![h] = to] /\ started' = started + 1
            /\ UNCHANGED <<limiter, admitted, private, posted>>
        BY <1>9, <2>3 DEF start_assessment, Free
      <3>2. to \in Seats /\ to.at = "idle"
        BY DEF Seats, Places, None
      <3>3. posted' \in Nat /\ started' \in Nat /\ posted' + started' = posted + started + 1
        BY <3>1 DEF HandlerType
      <3> HIDE DEF to
      <3> QED
        BY <1>6, <2>1, <3>1, <3>2, <3>3
    <2> QED
      BY <2>2, <2>3
  <1>10. ASSUME Register(h) PROVE AllowanceInv'
    <2> DEFINE to == [handler[h] EXCEPT !.at = "start"]
    <2>1. /\ handler[h] \in Seats /\ handler[h].at = "register"
          /\ handler' = [handler EXCEPT ![h] = to]
          /\ UNCHANGED <<limiter, admitted, private, posted, started>>
      BY <1>10 DEF Register, HandlerType, Seats
    <2>2. to \in Seats /\ to.at = "start"
      BY <2>1 DEF Seats, Places
    <2> HIDE DEF to
    <2> QED
      BY <1>7, <2>1, <2>2
  <1>11. ASSUME StartThread(h) PROVE AllowanceInv'
    <2> DEFINE to == [at |-> "idle", limiter |-> "none", scan |-> None]
    <2>1. /\ handler[h].at = "start" /\ handler' = [handler EXCEPT ![h] = to]
          /\ UNCHANGED <<limiter, admitted, private, posted, started>>
      BY <1>11 DEF StartThread, Free
    <2>2. to \in Seats /\ to.at = "idle"
      BY DEF Seats, Places, None
    <2> HIDE DEF to
    <2> QED
      BY <1>7, <2>1, <2>2
  <1> QED
    BY <1>3, <1>4, <1>5, <1>8, <1>9, <1>10, <1>11 DEF Handle

LEMMA AllowanceStep == AllowanceInv /\ [Next]_vars => AllowanceInv'
  <1> SUFFICES ASSUME AllowanceInv, [Next]_vars PROVE AllowanceInv'
    OBVIOUS
  <1>1. UNCHANGED <<limiter, handler, admitted, private, posted, started>> => AllowanceInv'
    BY DEF AllowanceInv, HandlerType, OwnCount, SelectCount, BuildCount, Owning, At, Built
  <1>2. Reload \/ start \/ SetStop \/ Join \/ UNCHANGED vars => UNCHANGED requests
    BY DEF Reload, start, SetStop, Join, vars
  <1>3. ASSUME NEW l \in Loops, _loop(l) PROVE UNCHANGED requests
    BY <1>3 DEF _loop, LoopTest, run_once, ScanReturns, Wake, LoopGoes
  <1>4. ASSUME NEW s \in Scans, execute(s) \/ Die(s) PROVE UNCHANGED requests
    BY <1>4 DEF execute, Die
  <1> QED
    BY <1>1, <1>2, <1>3, <1>4, HandlerStep DEF Next, requests

\* For any number of request threads, scans and assessments together never
\* exceed one allowance by more than one run for each thread but one.
THEOREM SharedAllowance == Spec => []AllowanceIsShared
  <1>1. AllowanceInv => AllowanceIsShared
    <2> SUFFICES ASSUME AllowanceInv PROVE AllowanceIsShared
      OBVIOUS
    <2>1. Built \in Nat /\ Built <= Allowance /\ Unbuilt \notin Nat
      BY AllowanceAssumption DEF AllowanceInv, HandlerType, Built, Unbuilt
    <2>2. admitted <= Allowance + private /\ posted + started <= admitted
      BY <2>1, CountsAreNat, AllowanceAssumption DEF AllowanceInv, HandlerType
    <2>3. private < Cardinality(Handlers) \/ private = 0
      BY CountsAreNat DEF AllowanceInv, HandlerType
    <2> QED
      BY <2>2, <2>3 DEF AllowanceIsShared
  <1> QED
    BY InitAllowance, AllowanceStep, <1>1, PTL DEF Spec

----------------------------------------------------------------------------
\* The registry.

WorkerStates == {"none", "running", "ended", "died"}
Entries      == [id : Scans, status : {"running", "finished"}]
Ids          == {_scans[i].id : i \in DOMAIN _scans}

\* A scan's number is held by one request thread until its own thread starts.
Bound(h) == handler[h].at \in {"register", "start"}

HeldInv ==
    /\ worker \in [Scans -> WorkerStates]
    /\ \A h \in Handlers : Bound(h) =>
          /\ handler[h].scan \in Scans /\ handler[h].scan <= posted
          /\ worker[handler[h].scan] = "none"
          /\ handler[h].at = "start" <=> handler[h].scan \in registered
    /\ \A g, h \in Handlers : Bound(g) /\ Bound(h) /\ handler[g].scan = handler[h].scan => g = h
    /\ \A s \in Scans : worker[s] # "none" => s \in registered
    /\ \A s \in registered : s <= posted

\* The registry has dropped an entry only when more scans were entered than it
\* retains; until then it holds them all.
EntriesInv ==
    /\ registered \subseteq Scans
    /\ _scans \in Seq(Entries)
    /\ \A i, j \in DOMAIN _scans : _scans[i].id = _scans[j].id => i = j
    /\ \A i \in DOMAIN _scans :
          (_scans[i].status = "finished") = (worker[_scans[i].id] = "ended")
    /\ Len(_scans) <= MAX_RETAINED_SCANS
    /\ Ids \subseteq registered
    /\ Cardinality(registered) <= MAX_RETAINED_SCANS => registered = Ids

LEMMA ScansAreFinite ==
    ASSUME NEW S, S \subseteq Scans
    PROVE  IsFiniteSet(S) /\ Cardinality(S) \in Nat
  <1>1. IsFiniteSet(1..MaxScans)
    BY BoundsAssumption, FS_Interval
  <1>2. IsFiniteSet(S)
    BY <1>1, FS_Subset DEF Scans
  <1> QED
    BY <1>2, FS_CardinalityType

\* As many entries as ids: no more entries than scans ever entered.
LEMMA EntriesAreFew ==
    ASSUME NEW seq \in Seq(Entries), NEW S, S \subseteq Scans,
           \A i \in DOMAIN seq : seq[i].id \in S,
           \A i, j \in DOMAIN seq : seq[i].id = seq[j].id => i = j
    PROVE  Len(seq) <= Cardinality(S)
  <1> DEFINE f == [i \in 1..Len(seq) |-> seq[i].id]
  <1>1. Len(seq) \in Nat /\ DOMAIN seq = 1..Len(seq)
    OBVIOUS
  <1>2. IsFiniteSet(1..Len(seq)) /\ Cardinality(1..Len(seq)) = Len(seq)
    BY <1>1, FS_Interval
  <1>3. f \in Injection(1..Len(seq), S)
    BY <1>1 DEF Injection, IsInjective
  <1> HIDE DEF f
  <1>4. Cardinality(1..Len(seq)) <= Cardinality(S)
    BY <1>3, ScansAreFinite, FS_Injection
  <1> QED
    BY <1>2, <1>4

\* Entering a record keeps the registry right, if the id's thread has ended
\* exactly when the record says finished.
LEMMA Registering ==
    ASSUME EntriesInv, worker \in [Scans -> WorkerStates],
           NEW id \in Scans, NEW status \in {"running", "finished"},
           register_scan(id, status),
           worker' \in [Scans -> WorkerStates],
           \A s \in Scans \ {id} : worker'[s] = worker[s],
           (status = "finished") = (worker'[id] = "ended")
    PROVE  EntriesInv' /\ registered' = registered \cup {id}
  <1> DEFINE at == {i \in DOMAIN _scans : _scans[i].id = id}
             entry == [id |-> id, status |-> status]
             kept == [i \in DOMAIN _scans |-> IF i \in at THEN entry ELSE _scans[i]]
             n == Len(_scans)
  <1>1. /\ n \in Nat /\ DOMAIN _scans = 1..n /\ n <= MAX_RETAINED_SCANS
        /\ MAX_RETAINED_SCANS \in Nat \ {0}
        /\ entry \in Entries /\ entry.id = id /\ entry.status = status
        /\ \A i \in 1..n : _scans[i] \in Entries /\ _scans[i].id \in registered
    <2>1. _scans \in Seq(Entries) /\ n <= MAX_RETAINED_SCANS /\ Ids \subseteq registered
      BY DEF EntriesInv
    <2>2. n \in Nat /\ DOMAIN _scans = 1..n /\ \A i \in 1..n : _scans[i] \in Entries
      BY <2>1
    <2>3. entry \in Entries /\ entry.id = id /\ entry.status = status
      BY DEF Entries
    <2> HIDE DEF entry, n
    <2> QED
      BY <2>1, <2>2, <2>3, RetainedAssumption DEF Ids
  <1>2. registered' = registered \cup {id} /\ registered' \subseteq Scans
    BY DEF register_scan, EntriesInv
  <1>3. Cardinality(registered) \in Nat /\ Cardinality(registered') \in Nat
        /\ Cardinality(registered) <= Cardinality(registered')
    <2>1. registered \subseteq Scans /\ IsFiniteSet(registered')
      BY <1>2, ScansAreFinite DEF EntriesInv
    <2> QED
      BY <1>2, <2>1, ScansAreFinite, FS_Subset
  <1>4. CASE at # {}
    <2>1. Len(kept) = n /\ kept \in Seq(Entries) /\ DOMAIN kept = 1..n
      BY <1>1
    <2>2. _scans' = kept
      <3>1. LET over == Len(kept) - MAX_RETAINED_SCANS
            IN  _scans' = IF over > 0 THEN SubSeq(kept, over + 1, Len(kept)) ELSE kept
        BY <1>4 DEF register_scan
      <3>2. ~(n - MAX_RETAINED_SCANS > 0)
        BY <1>1
      <3> HIDE DEF kept, n
      <3> QED
        BY <2>1, <3>1, <3>2
    <2>3. id \in registered /\ registered' = registered
      BY <1>1, <1>2, <1>4
    <2>4. \A i \in 1..n : kept[i].id = _scans[i].id
      BY <1>1
    <2>5. Ids' = Ids
      BY <1>1, <2>1, <2>2, <2>4 DEF Ids
    <2>6. \A i \in 1..n : (kept[i].status = "finished") = (worker'[kept[i].id] = "ended")
      <3> SUFFICES ASSUME NEW i \in 1..n
                   PROVE  (kept[i].status = "finished") = (worker'[kept[i].id] = "ended")
        OBVIOUS
      <3>1. CASE i \in at
        BY <1>1, <3>1
      <3>2. CASE i \notin at
        <4>1. kept[i] = _scans[i] /\ _scans[i].id \in Scans \ {id}
          BY <1>1, <3>2 DEF Entries
        <4> QED
          BY <1>1, <4>1 DEF EntriesInv
      <3> QED
        BY <3>1, <3>2
    <2>7. \A i, j \in 1..n : kept[i].id = kept[j].id => i = j
      BY <1>1, <2>4 DEF EntriesInv
    <2> HIDE DEF kept, at, entry
    <2> QED
      BY <1>1, <1>2, <2>1, <2>2, <2>3, <2>5, <2>6, <2>7 DEF EntriesInv
  <1>5. CASE at = {}
    <2> DEFINE written == Append(_scans, entry)
    <2>1. /\ written \in Seq(Entries) /\ Len(written) = n + 1 /\ DOMAIN written = 1..(n + 1)
          /\ \A i \in 1..n : written[i] = _scans[i]
          /\ written[n + 1] = entry
      BY <1>1 DEF EntriesInv
    <2>2. /\ n + 1 > MAX_RETAINED_SCANS => _scans' = SubSeq(written, n + 2 - MAX_RETAINED_SCANS, n + 1)
          /\ ~(n + 1 > MAX_RETAINED_SCANS) => _scans' = written
      <3> DEFINE over == Len(written) - MAX_RETAINED_SCANS
      <3>1. _scans' = IF over > 0 THEN SubSeq(written, over + 1, Len(written)) ELSE written
        BY <1>5 DEF register_scan
      <3>2. /\ over = n + 1 - MAX_RETAINED_SCANS /\ over + 1 = n + 2 - MAX_RETAINED_SCANS
            /\ over > 0 <=> n + 1 > MAX_RETAINED_SCANS
        <4> HIDE DEF written, n
        <4> QED
          BY <1>1, <2>1
      <3> HIDE DEF written, n, over
      <3> QED
        BY <2>1, <3>1, <3>2
    <2>3. \A i \in 1..(n + 1) : written[i].id \in registered'
      <3> SUFFICES ASSUME NEW i \in 1..(n + 1) PROVE written[i].id \in registered'
        OBVIOUS
      <3>1. i \in 1..n \/ i = n + 1
        BY <1>1
      <3> HIDE DEF written
      <3> QED
        BY <1>1, <1>2, <2>1, <3>1
    <2>4. \A i, j \in 1..(n + 1) : written[i].id = written[j].id => i = j
      <3> SUFFICES ASSUME NEW i \in 1..(n + 1), NEW j \in 1..(n + 1), written[i].id = written[j].id
                   PROVE  i = j
        OBVIOUS
      <3>1. (i \in 1..n \/ i = n + 1) /\ (j \in 1..n \/ j = n + 1)
        BY <1>1
      <3>2. \A k \in 1..n : _scans[k].id # id
        BY <1>1, <1>5
      <3>3. \A k, m \in 1..n : _scans[k].id = _scans[m].id => k = m
        BY <1>1 DEF EntriesInv
      <3> HIDE DEF written, entry, n
      <3> QED
        BY <1>1, <2>1, <3>1, <3>2, <3>3
    <2>5. \A i \in 1..(n + 1) : (written[i].status = "finished") = (worker'[written[i].id] = "ended")
      <3> SUFFICES ASSUME NEW i \in 1..(n + 1)
                   PROVE  (written[i].status = "finished") = (worker'[written[i].id] = "ended")
        OBVIOUS
      <3>1. CASE i = n + 1
        BY <1>1, <2>1, <3>1
      <3>2. CASE i \in 1..n
        <4>1. written[i] = _scans[i] /\ _scans[i].id \in Scans \ {id}
          BY <1>1, <1>5, <2>1, <3>2 DEF Entries
        <4> QED
          BY <1>1, <3>2, <4>1 DEF EntriesInv
      <3> QED
        BY <1>1, <3>1, <3>2
    <2> HIDE DEF written, entry, at
    <2>6. CASE ~(n + 1 > MAX_RETAINED_SCANS)
      <3>1. _scans' = written
        BY <2>2, <2>6
      <3>2. Len(written) <= MAX_RETAINED_SCANS
        BY <1>1, <2>1, <2>6
      <3>3. Ids' \subseteq registered'
        BY <2>1, <2>3, <3>1 DEF Ids
      <3>4. ASSUME registered = Ids PROVE registered' \subseteq Ids'
        <4> SUFFICES ASSUME NEW s \in registered' PROVE s \in Ids'
          OBVIOUS
        <4>1. ASSUME s \in registered PROVE s \in Ids'
          <5>1. PICK i \in 1..n : _scans[i].id = s
            BY <1>1, <3>4, <4>1 DEF Ids
          <5>2. i \in 1..(n + 1) /\ written[i].id = s
            BY <1>1, <2>1, <5>1
          <5> QED
            BY <2>1, <3>1, <5>2 DEF Ids
        <4>2. ASSUME s = id PROVE s \in Ids'
          <5>1. n + 1 \in 1..(n + 1) /\ written[n + 1].id = id
            BY <1>1, <2>1
          <5> QED
            BY <2>1, <3>1, <4>2, <5>1 DEF Ids
        <4> QED
          BY <1>2, <4>1, <4>2
      <3>5. Cardinality(registered') <= MAX_RETAINED_SCANS => registered = Ids
        BY <1>1, <1>3 DEF EntriesInv
      <3> QED
        BY <1>2, <2>1, <2>4, <2>5, <3>1, <3>2, <3>3, <3>4, <3>5 DEF EntriesInv
    <2>7. CASE n + 1 > MAX_RETAINED_SCANS
      <3>1. n = MAX_RETAINED_SCANS /\ n + 2 - MAX_RETAINED_SCANS = 2 /\ n \in Nat \ {0}
        <4> HIDE DEF n
        <4> QED
          BY <1>1, <2>7
      <3>2. _scans' = SubSeq(written, 2, n + 1)
        BY <2>2, <2>7, <3>1
      <3>3. /\ _scans' \in Seq(Entries) /\ Len(_scans') = n /\ DOMAIN _scans' = 1..n
            /\ \A i \in 1..n : _scans'[i] = written[i + 1] /\ i + 1 \in 1..(n + 1)
        <4>1. 2 \in Nat /\ n + 1 \in Nat /\ Len(written) = n + 1 /\ written \in Seq(Entries)
          BY <1>1, <2>1
        <4>2. \A i \in 1..n : i + 1 \in 1..(n + 1)
          BY <1>1
        <4>3. _scans' \in Seq(Entries)
          BY <1>1, <3>2, <4>1, <4>2
        <4>4. Len(_scans') = n /\ \A i \in 1..n : _scans'[i] = written[i + 1]
          <5> HIDE DEF n
          <5> QED
            BY <1>1, <3>1, <3>2, <4>1
        <4> QED
          BY <4>2, <4>3, <4>4
      <3>4. Ids' \subseteq registered'
        BY <2>3, <3>3 DEF Ids
      <3>5. n + 1 <= Cardinality(registered')
        BY <1>2, <2>1, <2>3, <2>4, EntriesAreFew, SMTT(30)
      <3>6. \A i, j \in 1..n : _scans'[i].id = _scans'[j].id => i = j
        <4> SUFFICES ASSUME NEW i \in 1..n, NEW j \in 1..n, _scans'[i].id = _scans'[j].id
                     PROVE  i = j
          OBVIOUS
        <4>1. i + 1 = j + 1
          BY <2>4, <3>3, SMTT(30)
        <4> QED
          BY <4>1
      <3>7. \A i \in 1..n : (_scans'[i].status = "finished") = (worker'[_scans'[i].id] = "ended")
        BY <2>5, <3>3
      <3>8. ~(Cardinality(registered') <= MAX_RETAINED_SCANS)
        BY <1>1, <1>3, <3>1, <3>5
      <3> QED
        BY <1>1, <1>2, <3>1, <3>3, <3>4, <3>6, <3>7, <3>8 DEF EntriesInv
    <2> QED
      BY <2>6, <2>7
  <1> QED
    BY <1>2, <1>4, <1>5

RegistryInv == HandlerType /\ HeldInv /\ EntriesInv

LEMMA InitRegistry == Init => HeldInv /\ EntriesInv
  <1> SUFFICES ASSUME Init PROVE HeldInv /\ EntriesInv
    OBVIOUS
  <1>1. /\ _scans = <<>> /\ registered = {} /\ worker = [s \in Scans |-> "none"]
        /\ \A h \in Handlers : handler[h].at = "idle"
    BY DEF Init
  <1>2. HeldInv
    BY <1>1 DEF HeldInv, Bound, WorkerStates
  <1>3. /\ _scans \in Seq(Entries) /\ DOMAIN _scans = {} /\ Len(_scans) = 0 /\ Ids = {}
    BY <1>1 DEF Ids
  <1> QED
    BY <1>1, <1>2, <1>3, RetainedAssumption DEF EntriesInv

\* A step of one request thread that binds no number.
LEMMA Unbinding ==
    ASSUME HeldInv, HandlerType, NEW h \in Handlers, NEW to \in Seats,
           handler' = [handler EXCEPT ![h] = to], to.at \notin {"register", "start"},
           posted' = posted, UNCHANGED tracked
    PROVE  HeldInv'
  <1>1. \A g \in Handlers : Bound(g)' => g # h /\ Bound(g) /\ handler'[g] = handler[g]
    BY DEF Bound, HandlerType
  <1>2. UNCHANGED <<worker, registered, posted>>
    BY DEF tracked
  <1> QED
    BY <1>1, <1>2 DEF HeldInv

LEMMA EntryIds == EntriesInv => \A i \in DOMAIN _scans : _scans[i].id \in Scans
  <1>1. EntriesInv => \A i \in DOMAIN _scans : _scans[i] \in Entries
    BY DEF EntriesInv
  <1> QED
    BY <1>1 DEF Entries

LEMMA RegistryOfHandler ==
    ASSUME RegistryInv, NEW h \in Handlers, Handle(h)
    PROVE  HeldInv' /\ EntriesInv'
  <1> USE DEF RegistryInv
  <1>1. /\ handler[h] \in Seats /\ posted \in Nat /\ MaxScans \in Nat
    BY BoundsAssumption DEF HandlerType
  <1>2. UNCHANGED tracked => EntriesInv'
    BY DEF tracked, EntriesInv, Ids
  <1>3. ASSUME NEW to \in Seats, to.at \notin {"register", "start"},
               handler' = [handler EXCEPT ![h] = to], posted' = posted, UNCHANGED tracked
        PROVE  HeldInv' /\ EntriesInv'
    BY <1>2, <1>3, Unbinding
  <1>4. ASSUME Refuse(h) PROVE HeldInv' /\ EntriesInv'
    <2> DEFINE to == [at |-> "idle", limiter |-> "none", scan |-> None]
    <2>1. to \in Seats /\ to.at = "idle"
      BY DEF Seats, Places, None
    <2>2. handler' = [handler EXCEPT ![h] = to] /\ posted' = posted /\ UNCHANGED tracked
      BY <1>4 DEF Refuse, Free
    <2> HIDE DEF to
    <2> QED
      BY <1>3, <2>1, <2>2
  <1>5. ASSUME get_rate_limiter(h) \/ BuildLimiter(h) PROVE HeldInv' /\ EntriesInv'
    <2>1. PICK at \in {"building", "charge"}, lim \in {"none", "cached", "own"} :
             handler' = [handler EXCEPT ![h] = [handler[h] EXCEPT !.at = at, !.limiter = lim]]
      <3>1. handler[h].limiter \in {"none", "cached", "own"}
        BY <1>1 DEF Seats
      <3>2. [handler[h] EXCEPT !.at = "building"]
              = [handler[h] EXCEPT !.at = "building", !.limiter = handler[h].limiter]
        BY <1>1 DEF Seats
      <3> QED
        BY <1>5, <3>1, <3>2 DEF get_rate_limiter, BuildLimiter
    <2>2. /\ [handler[h] EXCEPT !.at = at, !.limiter = lim] \in Seats
          /\ [handler[h] EXCEPT !.at = at, !.limiter = lim].at = at
      BY <1>1 DEF Seats, Places
    <2>3. posted' = posted /\ UNCHANGED tracked
      BY <1>5 DEF get_rate_limiter, BuildLimiter
    <2> QED
      BY <1>3, <2>1, <2>2, <2>3
  <1>6. ASSUME enforce_rate_limit(h) PROVE HeldInv' /\ EntriesInv'
    <2>1. CASE Refuse(h)
      BY <1>4, <2>1
    <2>2. CASE ~Refuse(h)
      <3>1. /\ handler' = [handler EXCEPT ![h] = [handler[h] EXCEPT !.at = "select"]]
            /\ posted' = posted /\ UNCHANGED tracked
        BY <1>6, <2>2 DEF enforce_rate_limit
      <3>2. /\ [handler[h] EXCEPT !.at = "select"] \in Seats
            /\ [handler[h] EXCEPT !.at = "select"].at = "select"
        BY <1>1 DEF Seats, Places
      <3> QED
        BY <1>3, <3>1, <3>2
    <2> QED
      BY <2>1, <2>2
  <1>7. ASSUME NEW body \in Questions, start_assessment(h, body) PROVE HeldInv' /\ EntriesInv'
    <2> DEFINE to == [at |-> "idle", limiter |-> "none", scan |-> None]
    <2>1. to \in Seats /\ to.at = "idle"
      BY DEF Seats, Places, None
    <2>2. CASE Refuse(h)
      BY <1>4, <2>2
    <2>3. CASE ~Refuse(h)
      <3>1. handler' = [handler EXCEPT ![h] = to] /\ posted' = posted /\ UNCHANGED tracked
        BY <1>7, <2>3 DEF start_assessment, Free
      <3> HIDE DEF to
      <3> QED
        BY <1>3, <2>1, <3>1
    <2> QED
      BY <2>2, <2>3
  <1>8. ASSUME NEW body \in Bodies, start_scan(h, body) PROVE HeldInv' /\ EntriesInv'
    <2>1. CASE Refuse(h)
      BY <1>4, <2>1
    <2>2. CASE ~Refuse(h)
      <3> DEFINE to == [handler[h] EXCEPT !.at = "register", !.scan = posted + 1]
      <3>1. /\ handler[h].at = "select" /\ posted < MaxScans /\ posted' = posted + 1
            /\ handler' = [handler EXCEPT ![h] = to] /\ UNCHANGED tracked
        BY <1>8, <2>2 DEF start_scan
      <3>2. to.at = "register" /\ to.scan = posted + 1
        BY <1>1 DEF Seats
      <3> HIDE DEF to
      <3>3. /\ handler'[h] = to /\ Bound(h)'
            /\ \A g \in Handlers \ {h} : handler'[g] = handler[g] /\ (Bound(g)' <=> Bound(g))
        BY <3>1, <3>2 DEF HandlerType, Bound
      <3>4. UNCHANGED <<worker, registered>>
        BY <3>1 DEF tracked
      <3>5. /\ posted + 1 \in Scans /\ posted + 1 \notin registered
            /\ worker[posted + 1] = "none"
        BY <1>1, <3>1 DEF HeldInv, Scans
      <3>6. \A g \in Handlers : Bound(g) => handler[g].scan # posted + 1 /\ handler[g].scan <= posted + 1
        BY <1>1 DEF HeldInv, Scans
      <3>7. \A s \in registered : s <= posted + 1
        BY <1>1 DEF HeldInv, EntriesInv, Scans
      <3> QED
        BY <1>1, <1>2, <3>1, <3>2, <3>3, <3>4, <3>5, <3>6, <3>7 DEF HeldInv
    <2> QED
      BY <2>1, <2>2
  <1>9. ASSUME Register(h) PROVE HeldInv' /\ EntriesInv'
    <2> DEFINE s == handler[h].scan
               to == [handler[h] EXCEPT !.at = "start"]
    <2>1. /\ handler[h].at = "register" /\ register_scan(s, "running")
          /\ handler' = [handler EXCEPT ![h] = to]
          /\ UNCHANGED <<worker, posted>>
      BY <1>9 DEF Register
    <2>2. to.at = "start" /\ to.scan = s
      BY <1>1 DEF Seats
    <2>3. s \in Scans /\ worker[s] = "none" /\ s \notin registered /\ s <= posted /\ Bound(h)
      BY <2>1 DEF HeldInv, Bound
    <2>4. EntriesInv' /\ registered' = registered \cup {s}
      BY <2>1, <2>3, Registering DEF HeldInv
    <2> HIDE DEF to, s
    <2>5. /\ handler'[h] = to /\ Bound(h)'
          /\ \A g \in Handlers \ {h} : handler'[g] = handler[g] /\ (Bound(g)' <=> Bound(g))
      BY <2>1, <2>2 DEF HandlerType, Bound
    <2>6. \A g \in Handlers \ {h} : Bound(g) => handler[g].scan # s
      BY <2>3 DEF HeldInv, s
    <2>7. HeldInv'
      BY <2>1, <2>2, <2>3, <2>4, <2>5, <2>6 DEF HeldInv, s
    <2> QED
      BY <2>4, <2>7
  <1>10. ASSUME StartThread(h) PROVE HeldInv' /\ EntriesInv'
    <2> DEFINE s == handler[h].scan
               to == [at |-> "idle", limiter |-> "none", scan |-> None]
    <2>1. /\ handler[h].at = "start" /\ worker' = [worker EXCEPT ![s] = "running"]
          /\ handler' = [handler EXCEPT ![h] = to]
          /\ UNCHANGED <<_scans, registered, posted>>
      BY <1>10 DEF StartThread, Free
    <2>2. s \in Scans /\ worker[s] = "none" /\ s \in registered /\ Bound(h)
      BY <2>1 DEF HeldInv, Bound
    <2>3. worker' \in [Scans -> WorkerStates] /\ \A t \in Scans \ {s} : worker'[t] = worker[t]
      BY <2>1 DEF HeldInv, WorkerStates
    <2>4. worker'[s] = "running"
      BY <2>1, <2>2 DEF HeldInv
    <2>5. \A t \in Scans : (worker'[t] = "ended") = (worker[t] = "ended")
      BY <2>2, <2>3, <2>4
    <2>6. EntriesInv'
      <3>1. \A i \in DOMAIN _scans : _scans[i].id \in Scans
        BY EntryIds
      <3> QED
        BY <2>1, <2>5, <3>1 DEF EntriesInv, Ids
    <2> HIDE DEF s
    <2>7. \A g \in Handlers : Bound(g)' => g # h /\ Bound(g) /\ handler'[g] = handler[g]
      BY <2>1 DEF Bound, HandlerType
    <2>8. \A g \in Handlers \ {h} : Bound(g) => handler[g].scan # s
      BY <2>2 DEF HeldInv, s
    <2>9. HeldInv'
      BY <2>1, <2>2, <2>3, <2>7, <2>8 DEF HeldInv
    <2> QED
      BY <2>6, <2>9
  <1> QED
    BY <1>5, <1>6, <1>7, <1>8, <1>9, <1>10 DEF Handle

LEMMA RegistryOfWorker ==
    ASSUME RegistryInv, NEW s \in Scans, execute(s) \/ Die(s)
    PROVE  HeldInv' /\ EntriesInv'
  <1> USE DEF RegistryInv
  <1>1. /\ worker[s] = "running" /\ s \in registered
        /\ UNCHANGED <<handler, posted>>
    BY DEF execute, Die, requests, HeldInv
  <1>2. \A h \in Handlers : Bound(h) => handler[h].scan # s
    BY <1>1 DEF HeldInv
  <1>3. ASSUME NEW to \in {"ended", "died"}, worker' = [worker EXCEPT ![s] = to],
               registered' = registered
        PROVE  /\ worker' \in [Scans -> WorkerStates] /\ worker'[s] = to
               /\ \A t \in Scans \ {s} : worker'[t] = worker[t]
               /\ HeldInv'
    <2>1. /\ worker' \in [Scans -> WorkerStates] /\ worker'[s] = to
          /\ \A t \in Scans \ {s} : worker'[t] = worker[t]
      BY <1>3 DEF HeldInv, WorkerStates
    <2>2. \A h \in Handlers : Bound(h)' <=> Bound(h)
      BY <1>1 DEF Bound
    <2>3. HeldInv'
      BY <1>1, <1>2, <1>3, <2>1, <2>2 DEF HeldInv
    <2> QED
      BY <2>1, <2>3
  <1>4. ASSUME execute(s) PROVE HeldInv' /\ EntriesInv'
    <2>1. /\ worker' = [worker EXCEPT ![s] = "ended"] /\ register_scan(s, "finished")
      BY <1>4 DEF execute
    <2>2. registered' = registered
      BY <1>1, <2>1 DEF register_scan
    <2>3. /\ worker' \in [Scans -> WorkerStates] /\ worker'[s] = "ended"
          /\ \A t \in Scans \ {s} : worker'[t] = worker[t]
          /\ HeldInv'
      BY <1>3, <2>1, <2>2
    <2> QED
      BY <2>1, <2>3, Registering DEF HeldInv
  <1>5. ASSUME Die(s) PROVE HeldInv' /\ EntriesInv'
    <2>1. /\ worker' = [worker EXCEPT ![s] = "died"] /\ UNCHANGED <<_scans, registered>>
      BY <1>5 DEF Die
    <2>2. /\ worker'[s] = "died" /\ \A t \in Scans \ {s} : worker'[t] = worker[t]
          /\ HeldInv'
      BY <1>3, <2>1
    <2>3. \A t \in Scans : (worker'[t] = "ended") = (worker[t] = "ended")
      BY <1>1, <2>2
    <2>4. \A i \in DOMAIN _scans : _scans[i].id \in Scans
      BY EntryIds
    <2> QED
      BY <2>1, <2>2, <2>3, <2>4 DEF EntriesInv, Ids
  <1> QED
    BY <1>4, <1>5

LEMMA RegistryStep == RegistryInv /\ [Next]_vars => HeldInv' /\ EntriesInv'
  <1> SUFFICES ASSUME RegistryInv, [Next]_vars PROVE HeldInv' /\ EntriesInv'
    OBVIOUS
  <1>1. UNCHANGED <<requests, tracked>> => HeldInv' /\ EntriesInv'
    BY DEF RegistryInv, requests, tracked, HeldInv, Bound, EntriesInv, Ids
  <1>2. Reload \/ start \/ SetStop \/ Join \/ UNCHANGED vars => UNCHANGED <<requests, tracked>>
    BY DEF Reload, start, SetStop, Join, vars
  <1>3. ASSUME NEW l \in Loops, _loop(l) PROVE UNCHANGED <<requests, tracked>>
    BY <1>3 DEF _loop, LoopTest, run_once, ScanReturns, Wake, LoopGoes
  <1> QED
    BY <1>1, <1>2, <1>3, RegistryOfHandler, RegistryOfWorker DEF Next

\* For any number of request threads and scans and any size of the registry,
\* GET is never behind a scan's thread: a finished entry and an ended thread
\* are one thing, no scan has two entries, and none is lost before more were
\* entered than are retained, although the thread and its poster both write it.
THEOREM FaithfulRegistry == Spec => []RegistryIsFaithful
  <1>1. HeldInv /\ EntriesInv => RegistryIsFaithful
    BY DEF EntriesInv, RegistryIsFaithful, Ids
  <1>2. AllowanceInv => HandlerType
    BY DEF AllowanceInv
  <1> QED
    BY InitAllowance, AllowanceStep, InitRegistry, RegistryStep, <1>1, <1>2, PTL
       DEF Spec, RegistryInv
=============================================================================
