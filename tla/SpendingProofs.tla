--------------------------- MODULE SpendingProofs ---------------------------
(***************************************************************************)
(* Theorems about what bounds the spending: the budget of a portfolio scan *)
(* of any size, on any number of workers (PortfolioScan), and the windows  *)
(* in which runs are started at all (RateLimiter).                         *)
(***************************************************************************)
EXTENDS PortfolioScan, RateLimiter, FiniteSetTheorems, WellFoundedInduction, TLAPS

----------------------------------------------------------------------------
\* The scan.

\* The submitted and the skipped accounts are those the dispatcher has passed,
\* each in one of the two, the submitted ones in order.
Dispatched ==
    /\ \A a \in skipped : a < next
    /\ \A i \in DOMAIN pending : pending[i] < next /\ pending[i] \notin skipped
    /\ \A i, j \in DOMAIN pending : i < j => pending[i] < pending[j]
    /\ \A a \in Accounts : a < next => a \in skipped \/ \E i \in DOMAIN pending : pending[i] = a

\* The records answer the submitted accounts one for one.
Gathered ==
    /\ Len(runs) <= Len(pending)
    /\ \A i \in DOMAIN runs : runs[i].account = pending[i]
    /\ status = "completed" => next = Size + 1 /\ Len(runs) = Len(pending)

\* A run is submitted while something of the budget is left, and no
\* reservation is given back twice over.
ReservationBound == spent < Budget + MAX_MODEL_CALLS

IInv == TypeOK /\ Dispatched /\ Gathered /\ ReservationBound

LEMMA RunningCounted == TypeOK => Cardinality(Running) \in Nat
  <1>1. IsFiniteSet(Accounts)
    BY FS_Interval, SizeAssumption DEF Accounts
  <1>2. Running \subseteq Accounts
    BY DEF Running
  <1> QED
    BY <1>1, <1>2, FS_Subset, FS_CardinalityType

LEMMA Appended ==
    ASSUME NEW S, NEW s \in Seq(S), NEW e \in S
    PROVE  /\ Append(s, e) \in Seq(S)
           /\ Len(Append(s, e)) = Len(s) + 1
           /\ DOMAIN Append(s, e) = DOMAIN s \cup {Len(s) + 1}
           /\ \A i \in DOMAIN s : Append(s, e)[i] = s[i] /\ i < Len(s) + 1
           /\ Append(s, e)[Len(s) + 1] = e
  OBVIOUS

LEMMA InitInv == Init => IInv
  <1> SUFFICES ASSUME Init PROVE IInv
    OBVIOUS
  <1>1. TypeOK
    BY SizeAssumption, ConcurrencyAssumption, CallsAssumption DEF Init, TypeOK, Accounts
  <1>2. Dispatched
    BY DEF Init, Dispatched, Accounts
  <1>3. Gathered
    BY DEF Init, Gathered
  <1>4. ReservationBound
    BY BudgetAssumption, CallsAssumption DEF Init, ReservationBound
  <1> QED
    BY <1>1, <1>2, <1>3, <1>4 DEF IInv

LEMMA Inductive == IInv /\ [Next]_vars => IInv'
  <1> SUFFICES ASSUME IInv, [Next]_vars PROVE IInv'
    OBVIOUS
  <1> USE SizeAssumption, ConcurrencyAssumption, BudgetAssumption, CallsAssumption DEF IInv
  <1>1. ASSUME Skip PROVE IInv'
    <2>1. TypeOK'
      BY <1>1 DEF Skip, Dispatching, TypeOK, Accounts
    <2>2. Dispatched'
      BY <1>1, SMTT(30) DEF Skip, Dispatching, TypeOK, Dispatched, Accounts
    <2>3. Gathered' /\ ReservationBound'
      BY <1>1 DEF Skip, Dispatching, Gathered, ReservationBound
    <2> QED BY <2>1, <2>2, <2>3
  <1>2. ASSUME Submit PROVE IInv'
    <2>1. TypeOK'
      BY <1>2 DEF Submit, Dispatching, TypeOK, Accounts
    <2>2. /\ pending' \in Seq(Accounts) /\ Len(pending') = Len(pending) + 1
          /\ DOMAIN pending' = DOMAIN pending \cup {Len(pending) + 1}
          /\ \A i \in DOMAIN pending : pending'[i] = pending[i] /\ i < Len(pending) + 1
          /\ pending'[Len(pending) + 1] = next
      BY <1>2, Appended DEF Submit, Dispatching, TypeOK
    <2> HIDE DEF IInv
    <2>3. next \notin skipped
      BY DEF IInv, Dispatched, TypeOK, Accounts
    <2>4. Dispatched'
      <3>1. next \in Accounts /\ next' = next + 1 /\ UNCHANGED skipped
        BY <1>2 DEF Submit, Dispatching
      <3>2. Dispatched /\ DOMAIN pending \subseteq Nat /\ Len(pending) \in Nat
            /\ (\A i \in DOMAIN pending : pending[i] \in Accounts) /\ skipped \subseteq Accounts
        BY DEF IInv, TypeOK
      <3>3. (\A b \in skipped : b < next)'
        BY <3>1, <3>2 DEF Dispatched, Accounts
      <3>4. (\A i \in DOMAIN pending : pending[i] < next /\ pending[i] \notin skipped)'
        <4> SUFFICES ASSUME NEW i \in DOMAIN pending'
                     PROVE  pending'[i] < next' /\ pending'[i] \notin skipped
          BY <3>1
        <4>1. CASE i \in DOMAIN pending
          BY <4>1, <2>2, <3>1, <3>2 DEF Dispatched, Accounts
        <4>2. CASE i = Len(pending) + 1
          BY <4>2, <2>2, <2>3, <3>1 DEF Accounts
        <4> QED BY <2>2, <4>1, <4>2
      <3>5. (\A i, j \in DOMAIN pending : i < j => pending[i] < pending[j])'
        <4> SUFFICES ASSUME NEW i \in DOMAIN pending', NEW j \in DOMAIN pending', i < j
                     PROVE  pending'[i] < pending'[j]
          OBVIOUS
        <4>1. i \in 1..Len(pending) /\ DOMAIN pending = 1..Len(pending)
          <5>1. pending \in Seq(Accounts) /\ pending' \in Seq(Accounts)
            BY <2>2 DEF IInv, TypeOK
          <5>2. i \in 1..Len(pending') /\ j \in 1..Len(pending')
            BY <5>1
          <5> QED BY <5>1, <5>2, <2>2, <3>2
        <4>2. CASE j \in DOMAIN pending
          <5>1. pending'[i] = pending[i] /\ pending'[j] = pending[j]
            BY <4>1, <4>2, <2>2
          <5> QED BY <4>1, <4>2, <5>1, <3>2 DEF Dispatched
        <4>3. CASE j = Len(pending) + 1
          BY <4>1, <4>3, <2>2, <3>2 DEF Dispatched
        <4> QED BY <2>2, <4>2, <4>3
      <3>6. (\A b \in Accounts : b < next =>
                b \in skipped \/ \E i \in DOMAIN pending : pending[i] = b)'
        <4> SUFFICES ASSUME NEW b \in Accounts, b < next + 1, b \notin skipped
                     PROVE  \E i \in DOMAIN pending' : pending'[i] = b
          BY <3>1
        <4>1. CASE b = next
          BY <4>1, <2>2
        <4>2. CASE b # next
          <5>1. b < next
            BY <4>2, <3>1 DEF Accounts
          <5>2. PICK i \in DOMAIN pending : pending[i] = b
            BY <5>1, <3>2 DEF Dispatched
          <5> QED BY <5>2, <2>2
        <4> QED BY <4>1, <4>2
      <3> QED BY <3>3, <3>4, <3>5, <3>6 DEF Dispatched
    <2>5. Gathered'
      BY <1>2, <2>2 DEF IInv, Submit, Dispatching, TypeOK, Gathered, Accounts
    <2>6. ReservationBound'
      BY <1>2 DEF IInv, Submit, TypeOK, ReservationBound
    <2> QED BY <2>1, <2>4, <2>5, <2>6 DEF IInv
  <1>3. ASSUME Gather PROVE IInv'
    <2> DEFINE a == pending[Len(runs) + 1]
               record == Record(a)
    <2>1. a \in Accounts
      BY <1>3 DEF Gather, TypeOK
    <2>2. /\ record \in [account: Accounts, failed: BOOLEAN, calls: 0..MAX_MODEL_CALLS]
          /\ record.account = a
      BY <2>1 DEF Record, TypeOK
    <2>3. /\ runs' = Append(runs, record)
          /\ spent' = spent - (MAX_MODEL_CALLS - record.calls)
      BY <1>3 DEF Gather
    <2> HIDE DEF record
    <2>4. /\ runs' \in Seq([account: Accounts, failed: BOOLEAN, calls: 0..MAX_MODEL_CALLS])
          /\ Len(runs') = Len(runs) + 1
          /\ DOMAIN runs' = DOMAIN runs \cup {Len(runs) + 1}
          /\ \A i \in DOMAIN runs : runs'[i] = runs[i]
          /\ runs'[Len(runs) + 1] = record
      BY <2>2, <2>3, Appended, SMTT(30) DEF TypeOK
    <2>5. TypeOK'
      BY <1>3, <2>2, <2>3, <2>4 DEF Gather, TypeOK
    <2>6. Dispatched'
      BY <1>3 DEF Gather, Dispatched
    <2>7. Gathered'
      <3>1. /\ Len(runs) < Len(pending) /\ next > Size
            /\ status = "running" /\ UNCHANGED <<pending, next, status>>
        BY <1>3 DEF Gather
      <3>2. Len(runs) \in Nat /\ Len(pending) \in Nat
        BY DEF TypeOK
      <3>3. (\A i \in DOMAIN runs : runs[i].account = pending[i])'
        BY <2>2, <2>4, <3>1 DEF Gathered
      <3> QED BY <2>4, <3>1, <3>2, <3>3 DEF Gathered
    <2>8. ReservationBound'
      BY <2>2, <2>3 DEF TypeOK, ReservationBound
    <2> QED BY <2>5, <2>6, <2>7, <2>8
  <1>4. ASSUME Complete PROVE IInv'
    <2>1. TypeOK' /\ Dispatched' /\ ReservationBound'
      BY <1>4 DEF Complete, TypeOK, Dispatched, ReservationBound
    <2>2. Gathered'
      BY <1>4 DEF Complete, TypeOK, Gathered
    <2> QED BY <2>1, <2>2
  <1>5. ASSUME NEW a \in Accounts, Begin(a) PROVE IInv'
    <2>1. Cardinality(Running) + 1 \in 1..Concurrency
      BY <1>5, RunningCounted DEF Begin
    <2>2. TypeOK'
      BY <1>5, <2>1 DEF Begin, TypeOK
    <2>3. Dispatched' /\ Gathered' /\ ReservationBound'
      BY <1>5 DEF Begin, Dispatched, Gathered, ReservationBound
    <2> QED BY <2>2, <2>3
  <1>6. ASSUME NEW a \in Accounts, CallModel(a) \/ End(a) PROVE IInv'
    <2>1. ASSUME CallModel(a) PROVE TypeOK'
      <3>1. calls[a] + 1 \in 0..MAX_MODEL_CALLS
        BY <2>1 DEF CallModel, TypeOK
      <3>2. calls' \in [Accounts -> 0..MAX_MODEL_CALLS]
        BY <2>1, <3>1 DEF CallModel, TypeOK
      <3> QED BY <2>1, <3>2 DEF CallModel, TypeOK
    <2>2. ASSUME End(a) PROVE TypeOK'
      <3>1. job' \in [Accounts -> {"idle", "queued", "running", "returned", "raised"}]
        BY <2>2 DEF End, TypeOK
      <3> QED BY <2>2, <3>1 DEF End, TypeOK
    <2>3. Dispatched' /\ Gathered' /\ ReservationBound'
      BY <1>6 DEF CallModel, End, Dispatched, Gathered, ReservationBound
    <2> QED BY <1>6, <2>1, <2>2, <2>3
  <1>7. CASE UNCHANGED vars
    BY <1>7 DEF vars, TypeOK, Dispatched, Gathered, ReservationBound
  <1> QED
    BY <1>1, <1>2, <1>3, <1>4, <1>5, <1>6, <1>7 DEF Next, Dispatcher, Worker

\* Every variable keeps its type; in particular the meter never counts more
\* runs at a time than the pool has workers.
THEOREM TypeCorrect == Spec => []TypeOK
  <1>1. IInv => TypeOK
    BY DEF IInv
  <1> QED
    BY <1>1, InitInv, Inductive, PTL DEF Spec

\* A finished scan reports every account it was given exactly once.
THEOREM Reported == Spec => []EveryAccountIsReported
  <1>1. IInv => EveryAccountIsReported
    <2> SUFFICES ASSUME IInv, status = "completed"
                 PROVE  /\ skipped \cup {runs[i].account : i \in DOMAIN runs} = Accounts
                        /\ \A i \in DOMAIN runs : runs[i].account \notin skipped
                        /\ \A i, j \in DOMAIN runs :
                              i < j => runs[i].account < runs[j].account
      BY DEF EveryAccountIsReported
    <2> USE DEF IInv
    <2>1. DOMAIN runs = DOMAIN pending
      BY DEF Gathered, TypeOK
    <2>2. {runs[i].account : i \in DOMAIN runs} = {pending[i] : i \in DOMAIN pending}
      BY <2>1 DEF Gathered
    <2>3. \A a \in Accounts : a < next
      BY SizeAssumption DEF Gathered, Accounts
    <2>4. skipped \cup {pending[i] : i \in DOMAIN pending} = Accounts
      <3>1. {pending[i] : i \in DOMAIN pending} \subseteq Accounts
        BY DEF TypeOK
      <3> QED
        BY <3>1, <2>3 DEF Dispatched, TypeOK
    <2>5. /\ \A i \in DOMAIN runs : runs[i].account \notin skipped
          /\ \A i, j \in DOMAIN runs : i < j => runs[i].account < runs[j].account
      BY <2>1 DEF Gathered, Dispatched
    <2> QED
      BY <2>2, <2>4, <2>5
  <1> QED
    BY <1>1, InitInv, Inductive, PTL DEF Spec

\* The reservations never exceed the budget by the cost of a whole run
\* (the check and the reservation under spend_lock).
THEOREM ReservationsBounded == Spec => []ReservationBound
  <1>1. IInv => ReservationBound
    BY DEF IInv
  <1> QED
    BY <1>1, InitInv, Inductive, PTL DEF Spec
----------------------------------------------------------------------------
\* What the runs really spend. Until every account is passed nothing is given
\* back, and only submitted runs call the model.
Reserved ==
    /\ next <= Size => spent = Len(pending) * MAX_MODEL_CALLS
    /\ Len(pending) * MAX_MODEL_CALLS < Budget + MAX_MODEL_CALLS
    /\ \A a \in Accounts :
          calls[a] # 0 \/ job[a] # "idle" => \E i \in DOMAIN pending : pending[i] = a

LEMMA InitReserved == Init => Reserved
  <1> SUFFICES ASSUME Init PROVE Reserved
    OBVIOUS
  <1>1. Len(pending) = 0 /\ spent = 0 /\ 0 * MAX_MODEL_CALLS = 0
    BY CallsAssumption DEF Init
  <1>2. \A a \in Accounts : calls[a] = 0 /\ job[a] = "idle"
    BY DEF Init
  <1> QED
    BY <1>1, <1>2, BudgetAssumption, CallsAssumption DEF Reserved

LEMMA ReservedStep == IInv /\ Reserved /\ [Next]_vars => Reserved'
  <1> SUFFICES ASSUME IInv, Reserved, [Next]_vars PROVE Reserved'
    OBVIOUS
  <1>1. /\ TypeOK /\ Len(pending) \in Nat /\ pending \in Seq(Accounts)
        /\ Size \in Nat /\ Budget \in Nat /\ MAX_MODEL_CALLS \in Nat
    BY SizeAssumption, BudgetAssumption, CallsAssumption DEF IInv, TypeOK
  <1>2. ASSUME Submit PROVE Reserved'
    <2>1. /\ next \in Accounts /\ spent < Budget /\ spent' = spent + MAX_MODEL_CALLS
          /\ pending' = Append(pending, next) /\ job' = [job EXCEPT ![next] = "queued"]
          /\ calls' = calls
      BY <1>2 DEF Submit, Dispatching
    <2>2. /\ Len(pending') = Len(pending) + 1
          /\ \A i \in DOMAIN pending : i \in DOMAIN pending' /\ pending'[i] = pending[i]
          /\ Len(pending) + 1 \in DOMAIN pending' /\ pending'[Len(pending) + 1] = next
      BY <1>1, <2>1, Appended
    <2>3. spent = Len(pending) * MAX_MODEL_CALLS
      BY <1>1, <2>1 DEF Reserved, Accounts
    <2>4. (Len(pending) + 1) * MAX_MODEL_CALLS = Len(pending) * MAX_MODEL_CALLS + MAX_MODEL_CALLS
      BY <1>1
    <2>5. Len(pending') * MAX_MODEL_CALLS = spent'
      BY <2>1, <2>2, <2>3, <2>4
    <2>6. spent' < Budget + MAX_MODEL_CALLS
      BY <1>1, <2>1 DEF TypeOK
    <2>7. \A a \in Accounts : calls'[a] # 0 \/ job'[a] # "idle"
             => \E i \in DOMAIN pending' : pending'[i] = a
      <3> SUFFICES ASSUME NEW a \in Accounts, calls'[a] # 0 \/ job'[a] # "idle"
                   PROVE  \E i \in DOMAIN pending' : pending'[i] = a
        OBVIOUS
      <3>1. CASE a = next
        BY <2>2, <3>1
      <3>2. CASE a # next
        <4>1. calls[a] # 0 \/ job[a] # "idle"
          BY <1>1, <2>1, <3>2 DEF TypeOK
        <4>2. PICK i \in DOMAIN pending : pending[i] = a
          BY <4>1 DEF Reserved
        <4> QED
          BY <2>2, <4>2
      <3> QED
        BY <3>1, <3>2
    <2> QED
      BY <2>5, <2>6, <2>7 DEF Reserved
  <1>3. ASSUME NEW a \in Accounts, Worker(a) PROVE Reserved'
    <2>1. job[a] # "idle" /\ UNCHANGED <<next, spent, pending>>
      BY <1>3 DEF Worker, Begin, CallModel, End
    <2>2. \A b \in Accounts \ {a} : job'[b] = job[b] /\ calls'[b] = calls[b]
      BY <1>1, <1>3 DEF Worker, Begin, CallModel, End, TypeOK
    <2> QED
      BY <2>1, <2>2 DEF Reserved
  <1>4. ASSUME Skip \/ Gather \/ Complete PROVE Reserved'
    <2>1. next' <= Size => next <= Size /\ spent' = spent
      BY <1>1, <1>4 DEF Skip, Gather, Complete, Dispatching, Accounts, TypeOK
    <2>2. UNCHANGED <<pending, job, calls>>
      BY <1>4 DEF Skip, Gather, Complete
    <2> QED
      BY <2>1, <2>2 DEF Reserved
  <1>5. CASE UNCHANGED vars
    BY <1>5 DEF vars, Reserved
  <1> QED
    BY <1>2, <1>3, <1>4, <1>5 DEF Next, Dispatcher

\* Every call made is one of those its submitted account may make.
LEMMA CallsAreReserved ==
    IInv /\ Reserved => Called \in Nat /\ Called <= Len(pending) * MAX_MODEL_CALLS
  <1> SUFFICES ASSUME IInv, Reserved
               PROVE  Called \in Nat /\ Called <= Len(pending) * MAX_MODEL_CALLS
    OBVIOUS
  <1> DEFINE made == UNION {{a} \X (1..calls[a]) : a \in Accounts}
             n == Len(pending)
             room == (1..n) \X (1..MAX_MODEL_CALLS)
             place(a) == CHOOSE i \in 1..n : pending[i] = a
             f == [c \in made |-> <<place(c[1]), c[2]>>]
  <1>1. /\ pending \in Seq(Accounts) /\ n \in Nat /\ DOMAIN pending = 1..n
        /\ calls \in [Accounts -> 0..MAX_MODEL_CALLS] /\ MAX_MODEL_CALLS \in Nat
    BY CallsAssumption DEF IInv, TypeOK
  <1>2. IsFiniteSet(room) /\ Cardinality(room) = n * MAX_MODEL_CALLS
    <2> DEFINE rows == 1..n
               columns == 1..MAX_MODEL_CALLS
    <2>1. ASSUME NEW k \in Nat PROVE IsFiniteSet(1..k) /\ Cardinality(1..k) = k
      BY FS_Interval
    <2>2. /\ IsFiniteSet(rows) /\ Cardinality(rows) = n
          /\ IsFiniteSet(columns) /\ Cardinality(columns) = MAX_MODEL_CALLS
      BY <1>1, <2>1
    <2> HIDE DEF rows, columns
    <2>3. /\ IsFiniteSet(rows \X columns)
          /\ Cardinality(rows \X columns) = Cardinality(rows) * Cardinality(columns)
      BY <2>2, FS_Product
    <2> QED
      BY <2>2, <2>3 DEF rows, columns
  <1>3. ASSUME NEW c \in made
        PROVE  /\ c = <<c[1], c[2]>> /\ c[1] \in Accounts /\ c[2] \in 1..MAX_MODEL_CALLS
               /\ place(c[1]) \in 1..n /\ pending[place(c[1])] = c[1]
    <2>1. PICK a \in Accounts : c \in {a} \X (1..calls[a])
      OBVIOUS
    <2>2. c = <<c[1], c[2]>> /\ c[1] = a /\ c[2] \in 1..calls[a]
      BY <2>1
    <2>3. calls[a] \in 0..MAX_MODEL_CALLS /\ calls[a] # 0
      BY <1>1, <2>2
    <2>4. c[2] \in 1..MAX_MODEL_CALLS
      BY <1>1, <2>2, <2>3
    <2>5. \E i \in 1..n : pending[i] = c[1]
      BY <1>1, <2>2, <2>3 DEF Reserved
    <2> QED
      BY <2>2, <2>4, <2>5
  <1>4. f \in Injection(made, room)
    <2>1. ASSUME NEW c \in made PROVE f[c] \in room
      BY <1>3
    <2>2. ASSUME NEW b \in made, NEW c \in made, f[b] = f[c] PROVE b = c
      <3>1. place(b[1]) = place(c[1]) /\ b[2] = c[2]
        <4>1. f[b] = <<place(b[1]), b[2]>> /\ f[c] = <<place(c[1]), c[2]>>
          BY <2>2
        <4>2. <<place(b[1]), b[2]>> = <<place(c[1]), c[2]>>
          BY <2>2, <4>1
        <4> HIDE DEF place, f, made
        <4> QED
          BY <4>2
      <3>2. b[1] = c[1]
        BY <1>3, <3>1
      <3> QED
        BY <1>3, <3>1, <3>2
    <2> HIDE DEF f, made, room
    <2>3. f \in [made -> room]
      BY <2>1 DEF f
    <2> QED
      BY <2>2, <2>3 DEF Injection, IsInjective
  <1> HIDE DEF f, made, room
  <1>5. IsFiniteSet(made) /\ Cardinality(made) <= Cardinality(room)
    BY <1>2, <1>4, FS_Injection
  <1>6. Cardinality(made) \in Nat
    BY <1>5, FS_CardinalityType
  <1> QED
    BY <1>2, <1>5, <1>6 DEF Called, made

\* However the workers of a scan interleave, and although a run that raises is
\* recorded as free, the calls its runs really make stay below the budget plus
\* the most that one of them may cost, for any size, pool and budget.
THEOREM OverspendBounded == Spec => []OverspendIsBounded
  <1>1. IInv /\ Reserved => OverspendIsBounded
    <2> SUFFICES ASSUME IInv, Reserved PROVE OverspendIsBounded
      OBVIOUS
    <2>1. Called \in Nat /\ Called <= Len(pending) * MAX_MODEL_CALLS
      BY CallsAreReserved
    <2>2. Len(pending) \in Nat /\ MAX_MODEL_CALLS \in Nat /\ Budget \in Nat
      BY BudgetAssumption, CallsAssumption DEF IInv, TypeOK
    <2>3. Len(pending) * MAX_MODEL_CALLS \in Nat
      BY <2>2
    <2>4. Len(pending) * MAX_MODEL_CALLS < Budget + MAX_MODEL_CALLS
      BY DEF Reserved
    <2> QED
      BY <2>1, <2>2, <2>3, <2>4 DEF OverspendIsBounded
  <1> QED
    BY <1>1, InitInv, Inductive, InitReserved, ReservedStep, PTL DEF Spec

----------------------------------------------------------------------------
\* The windows of the limiter.

\* The least element of a set of numbers, which Min chooses.
LEMMA MinOfNat ==
    ASSUME NEW T \in SUBSET Nat, T # {}
    PROVE  Min(T) \in T /\ \A y \in T : Min(T) <= y
  <1>1. \E x \in T : \A y \in T : ~(<<y, x>> \in OpToRel(<, Nat))
    BY WFMin, NatLessThanWellFounded
  <1>2. PICK x \in T : \A y \in T : ~(<<y, x>> \in OpToRel(<, Nat))
    BY <1>1
  <1>3. ASSUME NEW y \in T PROVE x <= y
    <2>1. ~(<<y, x>> \in OpToRel(<, Nat)) /\ <<y, x>> \in Nat \X Nat
      BY <1>2
    <2>2. ~(y < x)
      BY <2>1 DEF OpToRel
    <2> QED
      BY <2>2
  <1> QED
    BY <1>2, <1>3 DEF Min

\* late is stamps without its first d elements.
Drops(stamps, late, d) ==
    /\ late \in Seq(Nat) /\ Len(late) = Len(stamps) - d
    /\ \A i \in 1..Len(late) : d + i \in 1..Len(stamps) /\ late[i] = stamps[d + i]

\* What _prune drops is exactly the longest run of stale stamps at the front.
LEMMA PruneDrops ==
    ASSUME NEW stamps \in Seq(Nat), NEW moment \in Nat, NEW window \in Nat
    PROVE  \E d \in 0..Len(stamps) :
              /\ Drops(stamps, _prune(stamps, moment, window), d)
              /\ \A i \in 1..d : moment - stamps[i] >= window
              /\ d < Len(stamps) => moment - stamps[d + 1] < window
  <1> DEFINE n == Len(stamps)
             fresh == {i \in DOMAIN stamps : moment - stamps[i] < window}
             late == _prune(stamps, moment, window)
  <1>1. n \in Nat /\ DOMAIN stamps = 1..n /\ \A i \in 1..n : stamps[i] \in Nat
    OBVIOUS
  <1>2. late = IF fresh = {} THEN <<>> ELSE SubSeq(stamps, Min(fresh), n)
    BY DEF _prune
  <1>3. CASE fresh = {}
    <2>1. \A i \in 1..n : moment - stamps[i] >= window
      BY <1>1, <1>3, SMTT(30)
    <2>2. late = <<>> /\ Len(<<>>) = 0 /\ <<>> \in Seq(Nat)
      BY <1>2, <1>3
    <2>3. Drops(stamps, late, n)
      <3> HIDE DEF late, fresh
      <3> QED
        BY <1>1, <2>2 DEF Drops
    <2> QED
      BY <1>1, <2>1, <2>3
  <1>4. CASE fresh # {}
    <2> DEFINE first == Min(fresh)
    <2>1. first \in 1..n /\ moment - stamps[first] < window /\ \A i \in fresh : first <= i
      <3>1. fresh \in SUBSET Nat
        BY <1>1
      <3>2. first \in fresh /\ \A i \in fresh : first <= i
        BY <1>4, <3>1, MinOfNat
      <3> QED
        BY <1>1, <3>2
    <2>2. \A i \in 1..(first - 1) : i \in 1..n /\ moment - stamps[i] >= window
      <3> SUFFICES ASSUME NEW i \in 1..(first - 1)
                   PROVE  i \in 1..n /\ moment - stamps[i] >= window
        OBVIOUS
      <3>1. i \in 1..n /\ ~(first <= i)
        BY <1>1, <2>1
      <3>2. i \notin fresh
        BY <2>1, <3>1
      <3>3. ~(moment - stamps[i] < window)
        BY <1>1, <3>1, <3>2
      <3> HIDE DEF first
      <3> QED
        BY <1>1, <3>1, <3>3
    <2>3. late = SubSeq(stamps, first, n)
      BY <1>2, <1>4
    <2> HIDE DEF first, fresh, late
    <2>4. /\ first \in Nat /\ n + 1 - first = n - (first - 1)
          /\ first - 1 \in 0..n /\ first - 1 < n /\ (first - 1) + 1 = first
          /\ \A i \in 1..(n - (first - 1)) :
                (first - 1) + i \in 1..n /\ first + i - 1 = (first - 1) + i
      BY <1>1, <2>1
    <2>5. Drops(stamps, late, first - 1)
      <3>1. late \in Seq(Nat)
        BY <1>1, <2>1, <2>3
      <3>2. /\ Len(late) = n - (first - 1)
            /\ \A i \in 1..(n - (first - 1)) : late[i] = stamps[first + i - 1]
        BY <1>1, <2>1, <2>3, <2>4
      <3> QED
        BY <2>4, <3>1, <3>2 DEF Drops
    <2>6. first - 1 < n => moment - stamps[(first - 1) + 1] < window
      BY <2>1, <2>4
    <2>7. first - 1 \in 0..Len(stamps)
      BY <2>4
    <2> QED
      BY <2>2, <2>5, <2>6, <2>7 DEF late
  <1> QED
    BY <1>3, <1>4

\* Pruning first, at any moment, never leaves more for a later moment.
LEMMA PruneIsMonotone ==
    ASSUME NEW stamps \in Seq(Nat), NEW moment \in Nat, NEW until \in Nat, NEW window \in Nat
    PROVE  LET late == _prune(stamps, moment, window)
           IN  Len(_prune(late, until, window)) <= Len(_prune(stamps, until, window))
  <1> DEFINE late == _prune(stamps, moment, window)
             once == _prune(stamps, until, window)
             twice == _prune(late, until, window)
  <1>1. PICK d \in 0..Len(stamps) : Drops(stamps, late, d)
    BY PruneDrops
  <1>2. late \in Seq(Nat)
    BY <1>1 DEF Drops
  <1>3. PICK e \in 0..Len(stamps) :
           Drops(stamps, once, e) /\ \A i \in 1..e : until - stamps[i] >= window
    BY PruneDrops
  <1> HIDE DEF late
  <1>4. PICK f \in 0..Len(late) :
           /\ Drops(late, twice, f)
           /\ f < Len(late) => until - late[f + 1] < window
    BY <1>2, PruneDrops
  <1>5. /\ Len(stamps) \in Nat /\ Len(late) = Len(stamps) - d
        /\ Len(once) = Len(stamps) - e /\ Len(twice) = Len(late) - f
    BY <1>1, <1>3, <1>4 DEF Drops
  <1>6. e <= d + f
    <2> SUFFICES ASSUME e > d + f PROVE FALSE
      BY <1>5
    <2>1. f < Len(late) /\ f + 1 \in 1..Len(late) /\ d + (f + 1) \in 1..e
      BY <1>5
    <2>2. late[f + 1] = stamps[d + (f + 1)]
      BY <1>1, <2>1 DEF Drops
    <2>3. until - stamps[d + (f + 1)] >= window /\ until - stamps[d + (f + 1)] < window
      BY <1>3, <1>4, <2>1, <2>2
    <2>4. d + (f + 1) \in 1..Len(stamps)
      BY <1>5, <2>1
    <2>5. stamps[d + (f + 1)] \in Nat
      BY <2>4
    <2> QED
      BY <2>3, <2>5
  <1> HIDE DEF once, twice
  <1> QED
    BY <1>5, <1>6 DEF late, once, twice

\* The stamps kept belong to the last of these times, in order, each read at most
\* MaxSkew before; what was dropped is out of the window, less that skew.
Tracks(stamps, times, window, clock) ==
    /\ stamps \in Seq(Nat) /\ times \in Seq(Nat)
    /\ \E gone \in 0..Len(times) :
          /\ Len(stamps) = Len(times) - gone
          /\ \A i \in 1..Len(stamps) : times[gone + i] - stamps[i] \in 0..MaxSkew
          /\ \A i \in 1..gone : clock - times[i] >= window - MaxSkew

LimiterType ==
    /\ limit \in [hourly : Nat, daily : Nat] /\ now \in Nat
    /\ clients \in [Clients -> Seq(Nat)] /\ global \in Seq(Nat)
    /\ admitted \in [Clients -> Seq(Nat)] /\ admitted_all \in Seq(Nat)
    /\ promise \in [Clients -> [window : {"none", "day", "hour"}, until : Nat]]

\* Every admitted run that may still count is stamped, and a window with a
\* limit never holds more stamps than that.
LimiterInv ==
    /\ LimiterType
    /\ \A c \in Clients : Tracks(clients[c], admitted[c], CLIENT_WINDOW_SECONDS, now)
    /\ Tracks(global, admitted_all, DAILY_WINDOW_SECONDS, now)
    /\ \A c \in Clients : limit.hourly # 0 => Len(clients[c]) <= limit.hourly
    /\ limit.daily # 0 => Len(global) <= limit.daily
    /\ RetryAfterIsKept

LEMMA Times == /\ CLIENT_WINDOW_SECONDS \in Nat /\ DAILY_WINDOW_SECONDS \in Nat
               /\ MaxSkew \in Nat
  BY TimesAssumption

LEMMA TracksPruned ==
    ASSUME NEW stamps, NEW times, NEW window \in Nat, NEW clock \in Nat,
           Tracks(stamps, times, window, clock), NEW moment \in 0..clock
    PROVE  Tracks(_prune(stamps, moment, window), times, window, clock)
  <1> DEFINE late == _prune(stamps, moment, window)
             n == Len(times)
  <1>1. /\ stamps \in Seq(Nat) /\ times \in Seq(Nat) /\ n \in Nat
        /\ \A i \in 1..n : times[i] \in Nat
    BY DEF Tracks
  <1>2. PICK gone \in 0..n :
           /\ Len(stamps) = n - gone
           /\ \A i \in 1..Len(stamps) : times[gone + i] - stamps[i] \in 0..MaxSkew
           /\ \A i \in 1..gone : clock - times[i] >= window - MaxSkew
    BY DEF Tracks
  <1>3. moment \in Nat
    OBVIOUS
  <1>4. PICK d \in 0..Len(stamps) :
           Drops(stamps, late, d) /\ \A i \in 1..d : moment - stamps[i] >= window
    BY <1>1, <1>3, PruneDrops
  <1> HIDE DEF late, n
  <1>5. late \in Seq(Nat) /\ Len(late) = Len(stamps) - d
        /\ \A i \in 1..Len(late) : d + i \in 1..Len(stamps) /\ late[i] = stamps[d + i]
    BY <1>4 DEF Drops
  <1>6. gone + d \in 0..n /\ Len(late) = n - (gone + d)
    BY <1>1, <1>2, <1>5
  <1>7. \A i \in 1..Len(late) : times[(gone + d) + i] - late[i] \in 0..MaxSkew
    <2> SUFFICES ASSUME NEW i \in 1..Len(late)
                 PROVE  times[(gone + d) + i] - late[i] \in 0..MaxSkew
      OBVIOUS
    <2>1. (gone + d) + i = gone + (d + i)
      BY <1>5
    <2> QED
      BY <1>2, <1>5, <2>1
  <1>8. \A i \in 1..(gone + d) : clock - times[i] >= window - MaxSkew
    <2> SUFFICES ASSUME NEW i \in 1..(gone + d), i > gone
                 PROVE  clock - times[i] >= window - MaxSkew
      BY <1>1, <1>2
    <2>1. i - gone \in 1..d /\ i - gone \in 1..Len(stamps) /\ gone + (i - gone) = i /\ i \in 1..n
      BY <1>1, <1>2
    <2>2. /\ moment - stamps[i - gone] >= window
          /\ times[i] - stamps[i - gone] \in 0..MaxSkew
      BY <1>2, <1>4, <2>1
    <2>3. stamps[i - gone] \in Nat /\ times[i] \in Nat
      BY <1>1, <2>1
    <2> QED
      BY <2>2, <2>3, Times, SMTT(30)
  <1> QED
    BY <1>1, <1>5, <1>6, <1>7, <1>8 DEF Tracks, late, n

LEMMA TracksAppend ==
    ASSUME NEW stamps, NEW times, NEW window \in Nat, NEW clock \in Nat,
           Tracks(stamps, times, window, clock), NEW moment \in 0..clock, clock - moment <= MaxSkew
    PROVE  Tracks(Append(stamps, moment), Append(times, clock), window, clock)
  <1> DEFINE n == Len(times)
             k == Len(stamps)
             later == Append(times, clock)
             more == Append(stamps, moment)
  <1>1. PICK gone \in 0..n :
           /\ k = n - gone
           /\ \A i \in 1..k : times[gone + i] - stamps[i] \in 0..MaxSkew
           /\ \A i \in 1..gone : clock - times[i] >= window - MaxSkew
    BY DEF Tracks
  <1>2. /\ stamps \in Seq(Nat) /\ times \in Seq(Nat) /\ n \in Nat /\ k \in Nat
    BY DEF Tracks
  <1>3. /\ more \in Seq(Nat) /\ Len(more) = k + 1 /\ more[k + 1] = moment
        /\ \A i \in 1..k : more[i] = stamps[i]
        /\ later \in Seq(Nat) /\ Len(later) = n + 1 /\ later[n + 1] = clock
        /\ \A i \in 1..n : later[i] = times[i]
    BY <1>2
  <1> HIDE DEF n, k, more, later
  <1>4. gone \in 0..(n + 1) /\ k + 1 = (n + 1) - gone
    BY <1>1, <1>2
  <1>5. \A i \in 1..(k + 1) : later[gone + i] - more[i] \in 0..MaxSkew
    <2> SUFFICES ASSUME NEW i \in 1..(k + 1) PROVE later[gone + i] - more[i] \in 0..MaxSkew
      OBVIOUS
    <2>1. CASE i = k + 1
      <3>1. gone + i = n + 1
        BY <1>1, <1>2, <2>1
      <3>2. clock - moment \in 0..MaxSkew
        BY Times
      <3> QED
        BY <1>3, <2>1, <3>1, <3>2
    <2>2. CASE i # k + 1
      <3>1. i \in 1..k /\ gone + i \in 1..n
        BY <1>1, <1>2, <2>2
      <3> QED
        BY <1>1, <1>3, <3>1
    <2> QED
      BY <2>1, <2>2
  <1>6. \A i \in 1..gone : clock - later[i] >= window - MaxSkew
    <2>1. \A i \in 1..gone : i \in 1..n
      BY <1>2
    <2> QED
      BY <1>1, <1>3, <2>1
  <1> QED
    BY <1>3, <1>4, <1>5, <1>6 DEF Tracks, more, later

LEMMA TracksTick ==
    ASSUME NEW stamps, NEW times, NEW window \in Nat, NEW clock \in Nat,
           Tracks(stamps, times, window, clock)
    PROVE  Tracks(stamps, times, window, clock + 1)
  <1>1. PICK gone \in 0..Len(times) :
           /\ Len(stamps) = Len(times) - gone
           /\ \A i \in 1..Len(stamps) : times[gone + i] - stamps[i] \in 0..MaxSkew
           /\ \A i \in 1..gone : clock - times[i] >= window - MaxSkew
    BY DEF Tracks
  <1>2. times \in Seq(Nat) /\ stamps \in Seq(Nat)
    BY DEF Tracks
  <1> DEFINE next_clock == clock + 1
  <1>3. \A i \in 1..gone : next_clock - times[i] >= window - MaxSkew
    <2> SUFFICES ASSUME NEW i \in 1..gone PROVE next_clock - times[i] >= window - MaxSkew
      OBVIOUS
    <2>1. i \in 1..Len(times)
      BY <1>2
    <2>2. times[i] \in Nat
      BY <1>2, <2>1
    <2>3. clock - times[i] >= window - MaxSkew
      BY <1>1
    <2> QED
      BY <2>2, <2>3, Times
  <1> HIDE DEF next_clock
  <1>4. Tracks(stamps, times, window, next_clock)
    BY <1>1, <1>2, <1>3 DEF Tracks
  <1> QED
    BY <1>4 DEF next_clock

\* A window holds a stamp for each run that still counts.
LEMMA TracksCounts ==
    ASSUME NEW stamps, NEW times, NEW window \in Nat, NEW clock \in Nat,
           Tracks(stamps, times, window, clock)
    PROVE  Cardinality({i \in DOMAIN times : times[i] > clock - (window - MaxSkew)}) <= Len(stamps)
  <1> DEFINE counted == {i \in DOMAIN times : times[i] > clock - (window - MaxSkew)}
             n == Len(times)
  <1>1. PICK gone \in 0..n :
           /\ Len(stamps) = n - gone
           /\ \A i \in 1..gone : clock - times[i] >= window - MaxSkew
    BY DEF Tracks
  <1>2. times \in Seq(Nat) /\ n \in Nat /\ DOMAIN times = 1..n
    BY DEF Tracks
  <1>3. counted \subseteq (gone + 1)..n
    <2> SUFFICES ASSUME NEW i \in 1..n, times[i] > clock - (window - MaxSkew), i \in 1..gone
                 PROVE  FALSE
      BY <1>2
    <2>1. times[i] \in Nat
      BY <1>2
    <2>2. clock - times[i] >= window - MaxSkew
      BY <1>1
    <2> QED
      BY <2>1, <2>2, Times
  <1>4. /\ IsFiniteSet((gone + 1)..n)
        /\ Cardinality((gone + 1)..n) = IF gone + 1 > n THEN 0 ELSE n - (gone + 1) + 1
    <2>1. gone + 1 \in Int /\ n \in Int
      BY <1>2
    <2> HIDE DEF n
    <2> QED
      BY <2>1, FS_Interval
  <1>5. Cardinality(counted) <= Cardinality((gone + 1)..n)
    BY <1>3, <1>4, FS_Subset
  <1>6. Cardinality((gone + 1)..n) = n - gone
    BY <1>2, <1>4
  <1> QED
    BY <1>1, <1>5, <1>6

\* At the moment a full window named, its oldest stamp leaves it.
LEMMA OldestLeaves ==
    ASSUME NEW late \in Seq(Nat), Len(late) > 0, NEW window \in Nat
    PROVE  /\ Head(late) + window \in Nat
           /\ Len(_prune(late, Head(late) + window, window)) < Len(late)
  <1>1. Head(late) = late[1] /\ late[1] \in Nat /\ Len(late) \in Nat
    OBVIOUS
  <1>2. Head(late) + window \in Nat
    BY <1>1
  <1> DEFINE until == Head(late) + window
  <1>3. until - late[1] = window
    BY <1>1
  <1> HIDE DEF until
  <1>4. PICK d \in 0..Len(late) :
           /\ Drops(late, _prune(late, until, window), d)
           /\ d < Len(late) => until - late[d + 1] < window
    BY <1>2, PruneDrops DEF until
  <1>5. d # 0
    BY <1>1, <1>3, <1>4
  <1>6. Len(_prune(late, until, window)) = Len(late) - d
    BY <1>4 DEF Drops
  <1> QED
    BY <1>1, <1>2, <1>5, <1>6 DEF until

\* What pruning does to a window that tracks its runs.
LEMMA Pruned ==
    ASSUME NEW stamps, NEW times, NEW window \in Nat, NEW clock \in Nat,
           Tracks(stamps, times, window, clock), NEW moment \in 0..clock
    PROVE  LET late == _prune(stamps, moment, window)
           IN  /\ Tracks(late, times, window, clock)
               /\ late \in Seq(Nat) /\ stamps \in Seq(Nat)
               /\ Len(late) \in Nat /\ Len(stamps) \in Nat /\ Len(late) <= Len(stamps)
               /\ \A until \in Nat :
                     Len(_prune(late, until, window)) <= Len(_prune(stamps, until, window))
  <1> DEFINE late == _prune(stamps, moment, window)
  <1>1. stamps \in Seq(Nat) /\ moment \in Nat
    BY DEF Tracks
  <1>2. Tracks(late, times, window, clock)
    BY TracksPruned
  <1>3. late \in Seq(Nat)
    BY <1>2 DEF Tracks
  <1>4. PICK d \in 0..Len(stamps) : Drops(stamps, late, d)
    BY <1>1, PruneDrops
  <1>5. \A until \in Nat :
           Len(_prune(late, until, window)) <= Len(_prune(stamps, until, window))
    BY <1>1, PruneIsMonotone
  <1> HIDE DEF late
  <1>6. Len(late) \in Nat /\ Len(stamps) \in Nat /\ Len(late) <= Len(stamps)
    BY <1>1, <1>3, <1>4 DEF Drops
  <1> QED
    BY <1>1, <1>2, <1>3, <1>5, <1>6 DEF late

LEMMA PrunedLen ==
    ASSUME NEW stamps \in Seq(Nat), NEW moment \in Nat, NEW window \in Nat
    PROVE  Len(_prune(stamps, moment, window)) \in Nat
  <1>1. PICK d \in 0..Len(stamps) : Drops(stamps, _prune(stamps, moment, window), d)
    BY PruneDrops
  <1> QED
    BY <1>1 DEF Drops

LEMMA PrunedHour ==
    ASSUME LimiterInv, NEW c \in Clients, NEW moment \in Moments
    PROVE  /\ Tracks(Hour(c, moment), admitted[c], CLIENT_WINDOW_SECONDS, now)
           /\ Hour(c, moment) \in Seq(Nat) /\ Len(Hour(c, moment)) \in Nat
           /\ limit.hourly # 0 => Len(Hour(c, moment)) <= limit.hourly
           /\ \A until \in Nat :
                 Len(_prune(Hour(c, moment), until, CLIENT_WINDOW_SECONDS))
                   <= Len(_prune(clients[c], until, CLIENT_WINDOW_SECONDS))
  <1>1. /\ Tracks(clients[c], admitted[c], CLIENT_WINDOW_SECONDS, now)
        /\ limit.hourly # 0 => Len(clients[c]) <= limit.hourly
        /\ now \in Nat /\ moment \in 0..now /\ limit.hourly \in Nat
    BY DEF LimiterInv, LimiterType, Moments
  <1> DEFINE late == _prune(clients[c], moment, CLIENT_WINDOW_SECONDS)
  <1>2. /\ Tracks(late, admitted[c], CLIENT_WINDOW_SECONDS, now)
        /\ late \in Seq(Nat)
        /\ \A until \in Nat : Len(_prune(late, until, CLIENT_WINDOW_SECONDS))
                                <= Len(_prune(clients[c], until, CLIENT_WINDOW_SECONDS))
    BY <1>1, Times, Pruned
  <1>3. Len(late) \in Nat /\ Len(clients[c]) \in Nat /\ Len(late) <= Len(clients[c])
    BY <1>1, Times, Pruned
  <1> HIDE DEF late
  <1>4. limit.hourly # 0 => Len(late) <= limit.hourly
    BY <1>1, <1>3
  <1> QED
    BY <1>2, <1>3, <1>4 DEF Hour, late

LEMMA PrunedDay ==
    ASSUME LimiterInv, NEW moment \in Moments
    PROVE  /\ Tracks(Day(moment), admitted_all, DAILY_WINDOW_SECONDS, now)
           /\ Day(moment) \in Seq(Nat) /\ Len(Day(moment)) \in Nat
           /\ limit.daily # 0 => Len(Day(moment)) <= limit.daily
           /\ \A until \in Nat :
                 Len(_prune(Day(moment), until, DAILY_WINDOW_SECONDS))
                   <= Len(_prune(global, until, DAILY_WINDOW_SECONDS))
  <1>1. /\ Tracks(global, admitted_all, DAILY_WINDOW_SECONDS, now)
        /\ limit.daily # 0 => Len(global) <= limit.daily
        /\ now \in Nat /\ moment \in 0..now /\ limit.daily \in Nat
    BY DEF LimiterInv, LimiterType, Moments
  <1> DEFINE late == _prune(global, moment, DAILY_WINDOW_SECONDS)
  <1>2. /\ Tracks(late, admitted_all, DAILY_WINDOW_SECONDS, now)
        /\ late \in Seq(Nat)
        /\ \A until \in Nat : Len(_prune(late, until, DAILY_WINDOW_SECONDS))
                                <= Len(_prune(global, until, DAILY_WINDOW_SECONDS))
    BY <1>1, Times, Pruned
  <1>3. Len(late) \in Nat /\ Len(global) \in Nat /\ Len(late) <= Len(global)
    BY <1>1, Times, Pruned
  <1> HIDE DEF late
  <1>4. limit.daily # 0 => Len(late) <= limit.daily
    BY <1>1, <1>3
  <1> QED
    BY <1>2, <1>3, <1>4 DEF Day, late

\* Whoever was promised a reset still gets it when windows only lose stamps.
LEMMA PromisesSurvive ==
    ASSUME LimiterInv, limit' = limit, clients' \in [Clients -> Seq(Nat)], global' \in Seq(Nat),
           \A d \in Clients, until \in Nat :
              Len(_prune(clients'[d], until, CLIENT_WINDOW_SECONDS))
                <= Len(_prune(clients[d], until, CLIENT_WINDOW_SECONDS)),
           \A until \in Nat : Len(_prune(global', until, DAILY_WINDOW_SECONDS))
                                <= Len(_prune(global, until, DAILY_WINDOW_SECONDS)),
           NEW d \in Clients, promise'[d] = promise[d]
    PROVE  /\ (promise[d].window = "day" => ~DayIsFull(promise[d].until))'
           /\ (promise[d].window = "hour" => ~HourIsFull(d, promise[d].until))'
  <1> DEFINE u == promise[d].until
             hour == Len(_prune(clients[d], u, CLIENT_WINDOW_SECONDS))
             hourLater == Len(_prune(clients'[d], u, CLIENT_WINDOW_SECONDS))
             day == Len(_prune(global, u, DAILY_WINDOW_SECONDS))
             dayLater == Len(_prune(global', u, DAILY_WINDOW_SECONDS))
  <1>1. u \in Nat /\ clients[d] \in Seq(Nat) /\ global \in Seq(Nat) /\ clients'[d] \in Seq(Nat)
    BY DEF LimiterInv, LimiterType
  <1>2. limit.hourly \in Nat /\ limit.daily \in Nat
    BY DEF LimiterInv, LimiterType
  <1>3. /\ promise[d].window = "day" => ~(limit.daily # 0 /\ day >= limit.daily)
        /\ promise[d].window = "hour" => ~(limit.hourly # 0 /\ hour >= limit.hourly)
    BY DEF LimiterInv, RetryAfterIsKept, DayIsFull, HourIsFull, Day, Hour
  <1>4. hour \in Nat /\ hourLater \in Nat /\ day \in Nat /\ dayLater \in Nat
    BY <1>1, PrunedLen, Times
  <1>5. hourLater <= hour /\ dayLater <= day
    BY <1>1
  <1>6. /\ DayIsFull(promise[d].until)' <=> (limit.daily # 0 /\ dayLater >= limit.daily)
        /\ HourIsFull(d, promise[d].until)' <=> (limit.hourly # 0 /\ hourLater >= limit.hourly)
    BY DEF DayIsFull, HourIsFull, Day, Hour
  <1> HIDE DEF u, hour, hourLater, day, dayLater
  <1>7. ASSUME NEW few \in Nat, NEW many \in Nat, NEW most \in Nat, few <= many,
               ~(most # 0 /\ many >= most)
        PROVE  ~(most # 0 /\ few >= most)
    BY <1>7
  <1>8. promise[d].window = "day" => ~(limit.daily # 0 /\ dayLater >= limit.daily)
    BY <1>2, <1>3, <1>4, <1>5, <1>7
  <1>9. promise[d].window = "hour" => ~(limit.hourly # 0 /\ hourLater >= limit.hourly)
    BY <1>2, <1>3, <1>4, <1>5, <1>7
  <1> QED
    BY <1>6, <1>8, <1>9

LEMMA InitLimiter == LimiterInit => LimiterInv
  <1> SUFFICES ASSUME LimiterInit PROVE LimiterInv
    OBVIOUS
  <1>1. /\ limit \in [hourly : Nat, daily : Nat] /\ now = 0
        /\ clients = [c \in Clients |-> <<>>] /\ global = <<>>
        /\ admitted = [c \in Clients |-> <<>>] /\ admitted_all = <<>>
        /\ promise = [c \in Clients |-> NoPromise]
    BY SettingsAssumption DEF LimiterInit
  <1>2. <<>> \in Seq(Nat) /\ Len(<<>>) = 0
    OBVIOUS
  <1>3. LimiterType
    BY <1>1, <1>2 DEF LimiterType, NoPromise
  <1>4. \A window \in Nat : Tracks(<<>>, <<>>, window, now)
    BY <1>2 DEF Tracks
  <1>5. RetryAfterIsKept
    BY <1>1 DEF RetryAfterIsKept, NoPromise
  <1>6. limit.hourly \in Nat /\ limit.daily \in Nat
    BY <1>1
  <1> QED
    BY <1>1, <1>2, <1>3, <1>4, <1>5, <1>6, Times DEF LimiterInv

LEMMA LimiterTick == LimiterInv /\ Tick => LimiterInv'
  <1> SUFFICES ASSUME LimiterInv, Tick PROVE LimiterInv'
    OBVIOUS
  <1>1. now \in Nat /\ now' = now + 1
        /\ UNCHANGED <<limit, clients, global, admitted, admitted_all, promise>>
    BY DEF Tick, LimiterInv, LimiterType
  <1>2. \A c \in Clients : Tracks(clients[c], admitted[c], CLIENT_WINDOW_SECONDS, now + 1)
    BY <1>1, Times, TracksTick DEF LimiterInv
  <1>3. Tracks(global, admitted_all, DAILY_WINDOW_SECONDS, now + 1)
    BY <1>1, Times, TracksTick DEF LimiterInv
  <1>4. RetryAfterIsKept' /\ LimiterType'
    BY <1>1 DEF LimiterInv, LimiterType, RetryAfterIsKept, DayIsFull, HourIsFull, Day, Hour
  <1> QED
    BY <1>1, <1>2, <1>3, <1>4 DEF LimiterInv

\* Windows that were only pruned, promises that were kept.
LEMMA AfterPruning ==
    ASSUME LimiterInv, NEW c \in Clients, NEW moment \in Moments,
           global' = Day(moment),
           clients' = clients \/ clients' = [clients EXCEPT ![c] = Hour(c, moment)],
           UNCHANGED <<limit, now, admitted, admitted_all>>,
           promise' \in [Clients -> [window : {"none", "day", "hour"}, until : Nat]],
           \A d \in Clients :
              \/ promise'[d] = promise[d]
              \/ /\ (promise[d].window = "day" => ~DayIsFull(promise[d].until))'
                 /\ (promise[d].window = "hour" => ~HourIsFull(d, promise[d].until))'
    PROVE  LimiterInv'
  <1>1. /\ clients \in [Clients -> Seq(Nat)] /\ LimiterType
        /\ \A d \in Clients : Tracks(clients[d], admitted[d], CLIENT_WINDOW_SECONDS, now)
        /\ \A d \in Clients : limit.hourly # 0 => Len(clients[d]) <= limit.hourly
        /\ limit.hourly \in Nat /\ limit.daily \in Nat
    BY DEF LimiterInv, LimiterType
  <1>2. /\ Tracks(Hour(c, moment), admitted[c], CLIENT_WINDOW_SECONDS, now)
        /\ Hour(c, moment) \in Seq(Nat)
        /\ limit.hourly # 0 => Len(Hour(c, moment)) <= limit.hourly
        /\ \A until \in Nat : Len(_prune(Hour(c, moment), until, CLIENT_WINDOW_SECONDS))
                                <= Len(_prune(clients[c], until, CLIENT_WINDOW_SECONDS))
    BY PrunedHour
  <1>3. /\ Tracks(global', admitted_all, DAILY_WINDOW_SECONDS, now)
        /\ global' \in Seq(Nat)
        /\ limit.daily # 0 => Len(global') <= limit.daily
        /\ \A until \in Nat : Len(_prune(global', until, DAILY_WINDOW_SECONDS))
                                <= Len(_prune(global, until, DAILY_WINDOW_SECONDS))
    BY PrunedDay
  <1>4. \A d \in Clients : \/ clients'[d] = clients[d]
                           \/ d = c /\ clients'[d] = Hour(c, moment)
    BY <1>1
  <1>5. clients' \in [Clients -> Seq(Nat)]
    BY <1>1, <1>2
  <1>6. \A d \in Clients : /\ Tracks(clients'[d], admitted[d], CLIENT_WINDOW_SECONDS, now)
                           /\ limit.hourly # 0 => Len(clients'[d]) <= limit.hourly
    BY <1>1, <1>2, <1>4
  <1>7. \A d \in Clients, until \in Nat :
           Len(_prune(clients'[d], until, CLIENT_WINDOW_SECONDS))
             <= Len(_prune(clients[d], until, CLIENT_WINDOW_SECONDS))
    <2> SUFFICES ASSUME NEW d \in Clients, NEW until \in Nat
                 PROVE  Len(_prune(clients'[d], until, CLIENT_WINDOW_SECONDS))
                          <= Len(_prune(clients[d], until, CLIENT_WINDOW_SECONDS))
      OBVIOUS
    <2>1. CASE clients'[d] = clients[d]
      <3>1. Len(_prune(clients[d], until, CLIENT_WINDOW_SECONDS)) \in Nat
        BY <1>1, PrunedLen, Times
      <3> QED
        BY <2>1, <3>1
    <2>2. CASE d = c /\ clients'[d] = Hour(c, moment)
      BY <1>2, <2>2
    <2> QED
      BY <1>4, <2>1, <2>2
  <1>8. \A d \in Clients :
           /\ (promise[d].window = "day" => ~DayIsFull(promise[d].until))'
           /\ (promise[d].window = "hour" => ~HourIsFull(d, promise[d].until))'
    <2> SUFFICES ASSUME NEW d \in Clients, promise'[d] = promise[d]
                 PROVE  /\ (promise[d].window = "day" => ~DayIsFull(promise[d].until))'
                        /\ (promise[d].window = "hour" => ~HourIsFull(d, promise[d].until))'
      OBVIOUS
    <2> QED
      BY <1>3, <1>5, <1>7, PromisesSurvive
  <1>9. RetryAfterIsKept'
    BY <1>8 DEF RetryAfterIsKept
  <1>10. LimiterType'
    BY <1>1, <1>3, <1>5 DEF LimiterType
  <1> QED
    BY <1>3, <1>6, <1>9, <1>10 DEF LimiterInv

LEMMA LimiterRefuses ==
    ASSUME LimiterInv, NEW c \in Clients, NEW moment \in Moments,
           RefuseDay(c, moment) \/ RefuseHour(c, moment)
    PROVE  LimiterInv'
  <1>1. promise \in [Clients -> [window : {"none", "day", "hour"}, until : Nat]]
        /\ limit.hourly \in Nat /\ limit.daily \in Nat
    BY DEF LimiterInv, LimiterType
  <1>2. ASSUME RefuseDay(c, moment) PROVE LimiterInv'
    <2> DEFINE late == Day(moment)
               until == Head(late) + DAILY_WINDOW_SECONDS
    <2>1. /\ global' = late /\ clients' = clients
          /\ UNCHANGED <<limit, now, admitted, admitted_all>>
          /\ promise' = [promise EXCEPT ![c] = [window |-> "day", until |-> until]]
      BY <1>2 DEF RefuseDay, Promise
    <2>2. limit.daily # 0 /\ Len(late) >= limit.daily
      BY <1>2 DEF RefuseDay, DayIsFull
    <2>3. late \in Seq(Nat) /\ Len(late) \in Nat /\ (limit.daily # 0 => Len(late) <= limit.daily)
      BY PrunedDay
    <2>4. Len(late) > 0 /\ Len(late) = limit.daily
      <3> HIDE DEF late
      <3> QED
        BY <1>1, <2>2, <2>3
    <2>5. until \in Nat /\ Len(_prune(late, until, DAILY_WINDOW_SECONDS)) < Len(late)
      BY <2>3, <2>4, OldestLeaves, Times
    <2>6. Len(_prune(late, until, DAILY_WINDOW_SECONDS)) \in Nat
      BY <2>3, <2>5, PrunedLen, Times
    <2> HIDE DEF late, until
    <2>7. /\ promise' \in [Clients -> [window : {"none", "day", "hour"}, until : Nat]]
          /\ promise'[c] = [window |-> "day", until |-> until]
          /\ \A d \in Clients \ {c} : promise'[d] = promise[d]
      BY <1>1, <2>1, <2>5
    <2>8. /\ (promise[c].window = "day" => ~DayIsFull(promise[c].until))'
          /\ (promise[c].window = "hour" => ~HourIsFull(c, promise[c].until))'
      <3>1. ~(Len(_prune(late, until, DAILY_WINDOW_SECONDS)) >= limit.daily)
        BY <2>4, <2>5, <2>6, <1>1
      <3>2. promise'[c].window = "day" /\ promise'[c].until = until
        BY <2>7
      <3> QED
        BY <2>1, <3>1, <3>2 DEF DayIsFull, Day
    <2>9. \A d \in Clients :
             \/ promise'[d] = promise[d]
             \/ /\ (promise[d].window = "day" => ~DayIsFull(promise[d].until))'
                /\ (promise[d].window = "hour" => ~HourIsFull(d, promise[d].until))'
      BY <2>7, <2>8
    <2> QED
      BY <2>1, <2>7, <2>9, AfterPruning DEF late
  <1>3. ASSUME RefuseHour(c, moment) PROVE LimiterInv'
    <2> DEFINE late == Hour(c, moment)
               until == Head(late) + CLIENT_WINDOW_SECONDS
    <2>1. /\ global' = Day(moment) /\ clients' = [clients EXCEPT ![c] = late]
          /\ UNCHANGED <<limit, now, admitted, admitted_all>>
          /\ promise' = [promise EXCEPT ![c] = [window |-> "hour", until |-> until]]
      BY <1>3 DEF RefuseHour, Promise
    <2>2. limit.hourly # 0 /\ Len(late) >= limit.hourly
      BY <1>3 DEF RefuseHour, HourIsFull
    <2>3. late \in Seq(Nat) /\ Len(late) \in Nat /\ (limit.hourly # 0 => Len(late) <= limit.hourly)
      BY PrunedHour
    <2>4. Len(late) > 0 /\ Len(late) = limit.hourly
      <3> HIDE DEF late
      <3> QED
        BY <1>1, <2>2, <2>3
    <2>5. until \in Nat /\ Len(_prune(late, until, CLIENT_WINDOW_SECONDS)) < Len(late)
      BY <2>3, <2>4, OldestLeaves, Times
    <2>6. Len(_prune(late, until, CLIENT_WINDOW_SECONDS)) \in Nat
      BY <2>3, <2>5, PrunedLen, Times
    <2>7. clients'[c] = late
      BY <2>1 DEF LimiterInv, LimiterType
    <2> HIDE DEF late, until
    <2>8. /\ promise' \in [Clients -> [window : {"none", "day", "hour"}, until : Nat]]
          /\ promise'[c] = [window |-> "hour", until |-> until]
          /\ \A d \in Clients \ {c} : promise'[d] = promise[d]
      BY <1>1, <2>1, <2>5
    <2>9. /\ (promise[c].window = "day" => ~DayIsFull(promise[c].until))'
          /\ (promise[c].window = "hour" => ~HourIsFull(c, promise[c].until))'
      <3>1. ~(Len(_prune(late, until, CLIENT_WINDOW_SECONDS)) >= limit.hourly)
        BY <2>4, <2>5, <2>6, <1>1
      <3>2. promise'[c].window = "hour" /\ promise'[c].until = until
        BY <2>8
      <3> QED
        BY <2>1, <2>7, <3>1, <3>2 DEF HourIsFull, Hour
    <2>10. \A d \in Clients :
             \/ promise'[d] = promise[d]
             \/ /\ (promise[d].window = "day" => ~DayIsFull(promise[d].until))'
                /\ (promise[d].window = "hour" => ~HourIsFull(d, promise[d].until))'
      BY <2>8, <2>9
    <2> QED
      BY <2>1, <2>8, <2>10, AfterPruning DEF late
  <1> QED
    BY <1>2, <1>3

LEMMA LimiterAdmits ==
    ASSUME LimiterInv, NEW c \in Clients, NEW moment \in Moments, Admit(c, moment)
    PROVE  LimiterInv'
  <1> DEFINE hour == Hour(c, moment)
             day == Day(moment)
  <1>1. /\ LimiterType /\ now \in Nat /\ moment \in 0..now /\ now - moment <= MaxSkew
        /\ limit.hourly \in Nat /\ limit.daily \in Nat
    BY DEF LimiterInv, LimiterType, Moments
  <1>2. /\ global' = Append(day, moment)
        /\ clients' = [clients EXCEPT ![c] = Append(hour, moment)]
        /\ admitted' = [admitted EXCEPT ![c] = Append(admitted[c], now)]
        /\ admitted_all' = Append(admitted_all, now)
        /\ promise' = [d \in Clients |-> NoPromise]
        /\ limit' = limit /\ now' = now
    BY DEF Admit
  <1>3. /\ Tracks(hour, admitted[c], CLIENT_WINDOW_SECONDS, now)
        /\ hour \in Seq(Nat) /\ Len(hour) \in Nat
        /\ Tracks(day, admitted_all, DAILY_WINDOW_SECONDS, now)
        /\ day \in Seq(Nat) /\ Len(day) \in Nat
    BY PrunedHour, PrunedDay
  <1>4. /\ limit.hourly # 0 => Len(hour) + 1 <= limit.hourly
        /\ limit.daily # 0 => Len(day) + 1 <= limit.daily
    <2>1. /\ ~(limit.hourly # 0 /\ Len(hour) >= limit.hourly)
          /\ ~(limit.daily # 0 /\ Len(day) >= limit.daily)
      BY DEF Admit, DayIsFull, HourIsFull
    <2>2. Len(hour) \in Nat /\ Len(day) \in Nat
      BY <1>3
    <2> HIDE DEF hour, day
    <2>3. ASSUME NEW many \in Nat, NEW most \in Nat, ~(most # 0 /\ many >= most)
          PROVE  most # 0 => many + 1 <= most
      BY <2>3
    <2> QED
      BY <1>1, <2>1, <2>2, <2>3
  <1> HIDE DEF hour, day
  <1>5. /\ Tracks(Append(hour, moment), Append(admitted[c], now), CLIENT_WINDOW_SECONDS, now)
        /\ Tracks(Append(day, moment), Append(admitted_all, now), DAILY_WINDOW_SECONDS, now)
    BY <1>1, <1>3, TracksAppend, Times
  <1>6. /\ Append(hour, moment) \in Seq(Nat) /\ Len(Append(hour, moment)) = Len(hour) + 1
        /\ Append(day, moment) \in Seq(Nat) /\ Len(Append(day, moment)) = Len(day) + 1
        /\ Append(admitted[c], now) \in Seq(Nat) /\ Append(admitted_all, now) \in Seq(Nat)
    BY <1>1, <1>3 DEF LimiterType
  <1>7. /\ clients'[c] = Append(hour, moment) /\ admitted'[c] = Append(admitted[c], now)
        /\ \A d \in Clients \ {c} : clients'[d] = clients[d] /\ admitted'[d] = admitted[d]
        /\ clients' \in [Clients -> Seq(Nat)] /\ admitted' \in [Clients -> Seq(Nat)]
    BY <1>1, <1>2, <1>6 DEF LimiterType
  <1>8. LimiterType' /\ RetryAfterIsKept'
    BY <1>1, <1>2, <1>6, <1>7 DEF LimiterType, RetryAfterIsKept, NoPromise
  <1>9. \A d \in Clients : /\ Tracks(clients'[d], admitted'[d], CLIENT_WINDOW_SECONDS, now)
                           /\ limit.hourly # 0 => Len(clients'[d]) <= limit.hourly
    <2> SUFFICES ASSUME NEW d \in Clients
                 PROVE  /\ Tracks(clients'[d], admitted'[d], CLIENT_WINDOW_SECONDS, now)
                        /\ limit.hourly # 0 => Len(clients'[d]) <= limit.hourly
      OBVIOUS
    <2>1. CASE d = c
      BY <1>4, <1>5, <1>6, <1>7, <2>1
    <2>2. CASE d # c
      BY <1>7, <2>2 DEF LimiterInv
    <2> QED
      BY <2>1, <2>2
  <1>10. limit.daily # 0 => Len(global') <= limit.daily
    BY <1>2, <1>4, <1>6
  <1> QED
    BY <1>2, <1>5, <1>8, <1>9, <1>10 DEF LimiterInv

LEMMA LimiterStep == LimiterInv /\ [LimiterNext]_limiter_vars => LimiterInv'
  <1> SUFFICES ASSUME LimiterInv, [LimiterNext]_limiter_vars PROVE LimiterInv'
    OBVIOUS
  <1>1. ASSUME NEW c \in Clients, NEW moment \in Moments, remaining(c, moment)
        PROVE  LimiterInv'
    <2>1. promise' = promise /\ promise \in [Clients -> [window : {"none", "day", "hour"}, until : Nat]]
      BY <1>1 DEF remaining, LimiterInv, LimiterType
    <2> QED
      BY <1>1, <2>1, AfterPruning DEF remaining
  <1>2. CASE UNCHANGED limiter_vars
    BY <1>2 DEF limiter_vars, LimiterInv, LimiterType, RetryAfterIsKept, DayIsFull, HourIsFull, Day, Hour
  <1> QED
    BY <1>1, <1>2, LimiterTick, LimiterRefuses, LimiterAdmits DEF LimiterNext

\* For any limits and windows, any number of callers and threads that reach the
\* lock in any order: within a window, less what a thread can lose between the
\* clock and the lock, no client and not all of them start more than allowed.
THEOREM WindowSafety == LimiterSpec => []WindowsRespected
  <1>1. LimiterInv => WindowsRespected
    <2> SUFFICES ASSUME LimiterInv PROVE WindowsRespected
      OBVIOUS
    <2>1. now \in Nat /\ limit.hourly \in Nat /\ limit.daily \in Nat
          /\ clients \in [Clients -> Seq(Nat)] /\ global \in Seq(Nat)
          /\ admitted \in [Clients -> Seq(Nat)] /\ admitted_all \in Seq(Nat)
      BY DEF LimiterInv, LimiterType
    <2>2. ASSUME NEW times \in Seq(Nat), NEW span
          PROVE  Within(span, times) \in Nat
      <3>1. IsFiniteSet(1..Len(times)) /\ DOMAIN times = 1..Len(times)
        BY FS_Interval
      <3>2. IsFiniteSet({i \in DOMAIN times : times[i] > now - span})
        BY <3>1, FS_Subset
      <3> QED
        BY <3>2, FS_CardinalityType DEF Within
    <2>3. ASSUME NEW a \in Nat, NEW b \in Nat, NEW most \in Nat, a <= b,
                 most # 0 => b <= most
          PROVE  most # 0 => a <= most
      BY <2>3
    <2>4. ASSUME NEW c \in Clients, limit.hourly # 0
          PROVE  Within(CLIENT_WINDOW_SECONDS - MaxSkew, admitted[c]) <= limit.hourly
      <3>1. Within(CLIENT_WINDOW_SECONDS - MaxSkew, admitted[c]) <= Len(clients[c])
        BY <2>1, Times, TracksCounts DEF LimiterInv, Within
      <3>2. Within(CLIENT_WINDOW_SECONDS - MaxSkew, admitted[c]) \in Nat /\ Len(clients[c]) \in Nat
        BY <2>1, <2>2
      <3>3. Len(clients[c]) <= limit.hourly
        BY <2>4 DEF LimiterInv
      <3> QED
        BY <2>1, <2>3, <2>4, <3>1, <3>2, <3>3
    <2>5. ASSUME limit.daily # 0
          PROVE  Within(DAILY_WINDOW_SECONDS - MaxSkew, admitted_all) <= limit.daily
      <3>1. Within(DAILY_WINDOW_SECONDS - MaxSkew, admitted_all) <= Len(global)
        BY <2>1, Times, TracksCounts DEF LimiterInv, Within
      <3>2. Within(DAILY_WINDOW_SECONDS - MaxSkew, admitted_all) \in Nat /\ Len(global) \in Nat
        BY <2>1, <2>2
      <3>3. Len(global) <= limit.daily
        BY <2>5 DEF LimiterInv
      <3> QED
        BY <2>1, <2>3, <2>5, <3>1, <3>2, <3>3
    <2> QED
      BY <2>4, <2>5 DEF WindowsRespected
  <1> QED
    BY InitLimiter, LimiterStep, <1>1, PTL DEF LimiterSpec

\* A caller that waits for as long as it was told is not refused for the same
\* reason again, whatever is asked in between, unless a run was admitted.
THEOREM ResetSafety == LimiterSpec => []RetryAfterIsKept
  <1>1. LimiterInv => RetryAfterIsKept
    BY DEF LimiterInv
  <1> QED
    BY InitLimiter, LimiterStep, <1>1, PTL DEF LimiterSpec
=============================================================================
