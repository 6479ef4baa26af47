---------------------------- MODULE AgentProofs ----------------------------
(***************************************************************************)
(* Theorems about what the agents do with a language model, for any number *)
(* of threads, any drafts, arguments and narratives, and any evidence.     *)
(*                                                                         *)
(* StructuredGeneration: GenerationInv carries, for one generation, the    *)
(* sum that will be its bill (Metered) and what it may still assume of the *)
(* shared mode (Undisturbed), and for all of them that a step down in      *)
(* progress writes the mode below the one in use (Climbed).                *)
(*                                                                         *)
(* Deliberation: DeliberationInv says how a winner was selected (Selected) *)
(* on inputs that no later step changes.  Whatever the four candidates,    *)
(* SearchSelects bounds the lead of a winner: the stress test never lowers *)
(* a score nor fails a branch, and the runner-up of the first round is in  *)
(* the beam, so the branches the beam dropped are led as well.             *)
(***************************************************************************)
EXTENDS StructuredGeneration, Deliberation, FiniteSetTheorems,
        WellFoundedInduction, TLAPS

----------------------------------------------------------------------------
\* Structured generation: the invariant of the shared provider object.

Endings == {"none", "refused", "error", "empty", "valid", "invalid"}
Results == {"none", "model", "deterministic", "raised"}
Doing   == {"idle", "messages", "format", "asked", "check", "index", "write"}

Generations(p) ==
    [at : Doing, role : {"plan", "candidates", "draft"}, attempt : {1, 2},
     told : BOOLEAN, format : Modes, next : Modes, total : Nat, billed : Nat,
     last : Endings, charged : Nat, result : Results, plan : {p}, alone : BOOLEAN]

GenerationTypeOK ==
    /\ requested \in Modes \cup {"auto"}
    /\ mode \in Modes /\ refused \subseteq Modes /\ contended \in BOOLEAN
    /\ gen = [t \in Threads |-> gen[t]]
    /\ \A t \in Threads : gen[t] \in Generations(gen[t].plan)

\* While a generation runs its sum is its bill, and nothing is charged yet.
Metered(g) ==
    IF g.at # "idle" THEN g.total = g.billed /\ g.charged = 0 /\ g.result = "none"
    ELSE /\ g.charged <= g.billed
         /\ g.result \in {"model", "deterministic"} /\ g.last \in {"valid", "invalid"} =>
               g.charged = g.billed

\* A generation that runs alone finds the mode as it left it.
Undisturbed(t) ==
    gen[t].alone =>
        /\ Running(t) => \A u \in Threads : Running(u) => u = t
        /\ gen[t].at = "format" => gen[t].told \/ mode = "json_schema"
        /\ gen[t].at = "asked" => gen[t].told \/ gen[t].format = "json_schema"
        /\ gen[t].at = "index" => mode # "prompt"
        /\ gen[t].result # "raised"

\* What a step down in progress has to go on, as long as nothing overlapped.
Stepping(t) ==
    /\ gen[t].at \in {"asked", "check", "index", "write"} => gen[t].format = mode
    /\ gen[t].at \in {"check", "index", "write"} => mode \in refused
    /\ gen[t].at = "write" => mode # "prompt" /\ gen[t].next = _LADDER[Rank[mode] + 1]

Climbed ==
    /\ ~contended => \A t \in Threads : gen[t].alone
    /\ \A t \in Threads : gen[t].at \in {"index", "write"} => requested = "auto"
    /\ ~contended => \A t \in Threads : Stepping(t)

GenerationInv == /\ GenerationTypeOK
                 /\ \A t \in Threads : Metered(gen[t]) /\ Undisturbed(t)
                 /\ Climbed
                 /\ LadderIsEarned

\* What is left of a generation that has ended.
Left(f, g, charge) ==
    /\ f \in Generations(f.plan)
    /\ f.at = "idle" /\ f.charged = charge
    /\ f.billed = g.billed /\ f.last = g.last /\ f.alone = g.alone

LEMMA EndedLeaves ==
    ASSUME NEW g, g \in Generations(g.plan), NEW how \in Results, NEW charge \in Nat
    PROVE  /\ Left(Ended(g, how, charge), g, charge)
           /\ Ended(g, how, charge).result = how
  <1>1. PICK e : e = Ended(g, how, charge)
    OBVIOUS
  <1>2. e = [at |-> "idle", role |-> g.role, attempt |-> 1, told |-> FALSE,
             format |-> "prompt", next |-> "prompt", total |-> 0,
             billed |-> g.billed, last |-> g.last, charged |-> charge,
             result |-> how, plan |-> <<>>, alone |-> g.alone]
    BY <1>1, Zenon DEF Ended, Fresh
  <1>3. e.plan = <<>>
    BY <1>2
  <1>4. e \in Generations(<<>>)
    BY <1>2 DEF Generations, Endings, Doing, Modes
  <1> QED
    BY <1>1, <1>2, <1>3, <1>4 DEF Left

\* Every caller's fallback leaves the same, whatever plan it puts in.
LEMMA FallbackLeaves ==
    ASSUME NEW g, g \in Generations(g.plan), NEW charge \in Nat,
           NEW f \in Fallback(g, charge)
    PROVE  Left(f, g, charge) /\ f.result = "deterministic"
  <1> DEFINE e == Ended(g, "deterministic", charge)
  <1>1. Left(e, g, charge) /\ e.result = "deterministic"
    BY EndedLeaves DEF Results
  <1>2. PICK p : f = [e EXCEPT !.plan = p]
    BY DEF Fallback
  <1> HIDE DEF e
  <1> QED
    BY <1>1, <1>2 DEF Left, Generations

LEMMA AcceptedLeaves ==
    ASSUME NEW g, g \in Generations(g.plan), NEW total \in Nat,
           NEW f \in Accepted(g, total)
    PROVE  Left(f, g, total) /\ f.result \in {"model", "deterministic"}
  <1> DEFINE e == Ended(g, "model", total)
  <1>1. Left(e, g, total) /\ e.result = "model"
    BY EndedLeaves DEF Results
  <1>2. g.role \in {"plan", "candidates", "draft"}
    BY DEF Generations
  <1>3. ASSUME g.role = "draft" PROVE f = e
    BY <1>3 DEF Accepted
  <1>4. ASSUME g.role = "candidates"
        PROVE  \E r \in {"model", "deterministic"} : f = Ended(g, r, total)
    BY <1>4 DEF Accepted
  <1>5. ASSUME NEW r \in {"model", "deterministic"}, f = Ended(g, r, total)
        PROVE  Left(f, g, total) /\ f.result = r
    BY <1>5, EndedLeaves DEF Results
  <1>6. ASSUME g.role = "plan"
        PROVE  f \in Fallback(g, total) \/ \E p : f = [e EXCEPT !.plan = p]
    BY <1>6 DEF Accepted
  <1>7. ASSUME NEW p, f = [e EXCEPT !.plan = p]
        PROVE  Left(f, g, total) /\ f.result = "model"
    <2> HIDE DEF e
    <2> QED
      BY <1>1, <1>7 DEF Left, Generations
  <1> HIDE DEF e
  <1> QED
    BY <1>1, <1>2, <1>3, <1>4, <1>5, <1>6, <1>7, FallbackLeaves

----------------------------------------------------------------------------
\* Each action changes one generation and, at most, one shared value.

\* The others are as they were.
LEMMA OthersStand ==
    ASSUME gen = [t \in Threads |-> gen[t]], NEW t \in Threads, NEW f,
           gen' = [gen EXCEPT ![t] = f]
    PROVE  /\ gen' = [u \in Threads |-> gen'[u]]
           /\ gen'[t] = f
           /\ \A u \in Threads \ {t} : gen'[u] = gen[u]
  OBVIOUS

\* A step of one generation that leaves the mode alone disturbs no other.
LEMMA LocalStep ==
    ASSUME GenerationInv, NEW t \in Threads, NEW f,
           Running(t) \/ f.at = "idle",
           gen' = [gen EXCEPT ![t] = f],
           UNCHANGED <<requested, mode, contended>>,
           refused \subseteq refused', refused' \subseteq Modes,
           f \in Generations(f.plan), Metered(f), gen[t].alone => f.alone,
           Undisturbed(t)',
           f.at \in {"index", "write"} => requested = "auto",
           ~contended => Stepping(t)'
    PROVE  GenerationInv'
  <1>1. /\ gen' = [u \in Threads |-> gen'[u]]
        /\ gen'[t] = f
        /\ \A u \in Threads \ {t} : gen'[u] = gen[u]
    BY OthersStand DEF GenerationInv, GenerationTypeOK
  <1>2. GenerationTypeOK'
    BY <1>1 DEF GenerationInv, GenerationTypeOK
  <1>3. ASSUME NEW u \in Threads PROVE Metered(gen[u])'
    BY <1>1, <1>3 DEF GenerationInv, Metered
  <1>4. ASSUME NEW u \in Threads \ {t} PROVE Undisturbed(u)'
    <2>1. Undisturbed(u) /\ gen'[u] = gen[u]
      BY <1>1 DEF GenerationInv
    <2>2. ASSUME gen[u].alone, Running(u), NEW v \in Threads, Running(v)'
          PROVE  v = u
      <3>1. Running(v)
        BY <2>2, <1>1 DEF Running
      <3> QED
        BY <2>1, <2>2, <3>1 DEF Undisturbed
    <2> QED
      BY <2>1, <2>2 DEF Undisturbed, Running
  <1>5. ASSUME NEW u \in Threads \ {t}, ~contended PROVE Stepping(u)'
    <2>1. Stepping(u) /\ gen'[u] = gen[u]
      BY <1>1, <1>5 DEF GenerationInv, Climbed
    <2> QED
      BY <2>1 DEF Stepping
  <1>6. Climbed'
    BY <1>1, <1>5 DEF GenerationInv, Climbed
  <1>7. LadderIsEarned'
    BY DEF GenerationInv, LadderIsEarned
  <1> QED
    BY <1>2, <1>3, <1>4, <1>6, <1>7 DEF GenerationInv

\* A generation that ends.
LEMMA EndStep ==
    ASSUME GenerationInv, NEW t \in Threads, NEW g, NEW f, NEW charge \in Nat,
           gen' = [gen EXCEPT ![t] = f],
           UNCHANGED <<requested, mode, refused, contended>>,
           Left(f, g, charge), gen[t].alone => g.alone,
           charge <= g.billed,
           f.result \in {"model", "deterministic"} /\ g.last \in {"valid", "invalid"} =>
               charge = g.billed,
           g.alone => f.result # "raised"
    PROVE  GenerationInv'
  <1>1. gen'[t] = f
    BY OthersStand DEF GenerationInv, GenerationTypeOK
  <1>2. Metered(f)
    BY DEF Left, Metered
  <1>3. Undisturbed(t)' /\ Stepping(t)'
    BY <1>1 DEF Left, Undisturbed, Stepping, Running
  <1> QED
    BY <1>2, <1>3, LocalStep DEF Left, GenerationInv, GenerationTypeOK

----------------------------------------------------------------------------
\* The actions.

LEMMA GenerationInit == Init => GenerationInv
  <1> SUFFICES ASSUME Init PROVE GenerationInv
    OBVIOUS
  <1>1. Fresh \in Generations(<<>>) /\ Fresh.plan = <<>>
    BY DEF Fresh, Generations, Endings, Doing, Modes, Results
  <1>2. \A t \in Threads : gen[t] = Fresh
    BY DEF Init
  <1>3. GenerationTypeOK
    BY <1>1, <1>2 DEF Init, GenerationTypeOK, Modes, _LADDER
  <1>4. /\ Fresh.at = "idle" /\ Fresh.charged = 0 /\ Fresh.billed = 0
        /\ Fresh.result = "none" /\ Fresh.alone
    BY DEF Fresh
  <1>5. \A t \in Threads : Metered(gen[t]) /\ Undisturbed(t) /\ Stepping(t)
    BY <1>2, <1>4 DEF Metered, Undisturbed, Stepping, Running
  <1>6. Climbed
    BY <1>2, <1>4, <1>5 DEF Climbed
  <1>7. LadderIsEarned
    BY DEF Init, LadderIsEarned, Rank, _LADDER, Modes
  <1> QED
    BY <1>3, <1>5, <1>6, <1>7 DEF GenerationInv

LEMMA Added ==
    ASSUME NEW n \in Nat, NEW k \in {0, 1}
    PROVE  n + k \in Nat
  OBVIOUS

\* A step that goes on with a generation changes none of the others' running.
LEMMA RunningStands ==
    ASSUME NEW t \in Threads, Running(t), gen'[t].at # "idle",
           \A u \in Threads \ {t} : gen'[u] = gen[u]
    PROVE  \A u \in Threads : Running(u)' <=> Running(u)
  BY DEF Running

LEMMA MessagesStep ==
    ASSUME GenerationInv, NEW t \in Threads, _messages(t)
    PROVE  GenerationInv'
  <1>1. PICK f : f = [gen[t] EXCEPT !.told = gen[t].attempt = 2 \/ mode # "json_schema",
                                    !.at = "format"]
    OBVIOUS
  <1>2. gen' = [gen EXCEPT ![t] = f]
    BY <1>1 DEF _messages
  <1>3. gen[t] \in Generations(gen[t].plan) /\ gen[t].at = "messages"
    BY DEF GenerationInv, GenerationTypeOK, _messages
  <1>4. /\ f \in Generations(f.plan) /\ f.at = "format" /\ f.alone = gen[t].alone
        /\ f.total = gen[t].total /\ f.billed = gen[t].billed
        /\ f.charged = gen[t].charged /\ f.result = gen[t].result
        /\ f.told \/ mode = "json_schema"
    BY <1>1, <1>3 DEF Generations, Doing
  <1>5. Running(t) /\ Metered(f)
    BY <1>3, <1>4 DEF GenerationInv, Metered, Running
  <1>6. gen'[t] = f /\ \A u \in Threads \ {t} : gen'[u] = gen[u]
    BY <1>2, OthersStand DEF GenerationInv, GenerationTypeOK
  <1>7. Undisturbed(t)'
    <2>1. \A u \in Threads : Running(u)' <=> Running(u)
      BY <1>4, <1>5, <1>6, RunningStands
    <2>2. Undisturbed(t) /\ UNCHANGED mode
      BY DEF GenerationInv, _messages
    <2> QED
      BY <1>4, <1>5, <1>6, <2>1, <2>2 DEF Undisturbed
  <1>8. Stepping(t)'
    BY <1>4, <1>6 DEF Stepping
  <1> QED
    BY <1>2, <1>4, <1>5, <1>7, <1>8, LocalStep
       DEF _messages, GenerationInv, GenerationTypeOK

LEMMA FormatStep ==
    ASSUME GenerationInv, NEW t \in Threads, _response_format(t)
    PROVE  GenerationInv'
  <1>1. PICK f : f = [gen[t] EXCEPT !.format = mode, !.at = "asked"]
    OBVIOUS
  <1>2. gen' = [gen EXCEPT ![t] = f]
    BY <1>1 DEF _response_format
  <1>3. gen[t] \in Generations(gen[t].plan) /\ gen[t].at = "format" /\ mode \in Modes
    BY DEF GenerationInv, GenerationTypeOK, _response_format
  <1>4. /\ f \in Generations(f.plan) /\ f.at = "asked" /\ f.alone = gen[t].alone
        /\ f.total = gen[t].total /\ f.billed = gen[t].billed
        /\ f.charged = gen[t].charged /\ f.result = gen[t].result
        /\ f.told = gen[t].told /\ f.format = mode
    BY <1>1, <1>3 DEF Generations, Doing
  <1>5. Running(t) /\ Metered(f)
    BY <1>3, <1>4 DEF GenerationInv, Metered, Running
  <1>6. gen'[t] = f /\ \A u \in Threads \ {t} : gen'[u] = gen[u]
    BY <1>2, OthersStand DEF GenerationInv, GenerationTypeOK
  <1>7. Undisturbed(t)'
    <2>1. \A u \in Threads : Running(u)' <=> Running(u)
      BY <1>4, <1>5, <1>6, RunningStands
    <2>2. Undisturbed(t) /\ UNCHANGED mode
      BY DEF GenerationInv, _response_format
    <2> QED
      BY <1>3, <1>4, <1>5, <1>6, <2>1, <2>2 DEF Undisturbed
  <1>8. Stepping(t)'
    BY <1>4, <1>6 DEF Stepping, _response_format
  <1> QED
    BY <1>2, <1>4, <1>5, <1>7, <1>8, LocalStep
       DEF _response_format, GenerationInv, GenerationTypeOK

LEMMA RefuseStep ==
    ASSUME GenerationInv, NEW t \in Threads, Refuse(t)
    PROVE  GenerationInv'
  <1>1. PICK f : f = [gen[t] EXCEPT !.last = "refused", !.at = "check"]
    OBVIOUS
  <1>2. gen' = [gen EXCEPT ![t] = f]
    BY <1>1 DEF Refuse
  <1>3. gen[t] \in Generations(gen[t].plan) /\ gen[t].at = "asked"
    BY DEF GenerationInv, GenerationTypeOK, Refuse
  <1>4. /\ f \in Generations(f.plan) /\ f.at = "check" /\ f.alone = gen[t].alone
        /\ f.total = gen[t].total /\ f.billed = gen[t].billed
        /\ f.charged = gen[t].charged /\ f.result = gen[t].result
        /\ f.format = gen[t].format /\ gen[t].format \in Modes
    BY <1>1, <1>3 DEF Generations, Doing, Endings
  <1>5. Running(t) /\ Metered(f)
    BY <1>3, <1>4 DEF GenerationInv, Metered, Running
  <1>6. gen'[t] = f /\ \A u \in Threads \ {t} : gen'[u] = gen[u]
    BY <1>2, OthersStand DEF GenerationInv, GenerationTypeOK
  <1>7. Undisturbed(t)'
    <2>1. \A u \in Threads : Running(u)' <=> Running(u)
      BY <1>4, <1>5, <1>6, RunningStands
    <2>2. Undisturbed(t)
      BY DEF GenerationInv
    <2> QED
      BY <1>4, <1>5, <1>6, <2>1, <2>2 DEF Undisturbed
  <1>8. ASSUME ~contended PROVE Stepping(t)'
    BY <1>3, <1>4, <1>6, <1>8 DEF GenerationInv, Climbed, Stepping, Refuse
  <1>9. refused \subseteq refused' /\ refused' \subseteq Modes
    BY <1>4 DEF Refuse, GenerationInv, GenerationTypeOK
  <1> QED
    BY <1>2, <1>4, <1>5, <1>7, <1>8, <1>9, LocalStep DEF Refuse

\* A request that fails for good carries no usage.
LEMMA FailsStep ==
    ASSUME GenerationInv, NEW t \in Threads, Running(t),
           NEW how \in Endings \ {"valid", "invalid"}, NEW bill \in {0, 1},
           Fails(t, how, bill)
    PROVE  GenerationInv'
  <1>1. gen[t] \in Generations(gen[t].plan)
    BY DEF GenerationInv, GenerationTypeOK
  <1>2. PICK billed \in Nat : billed = gen[t].billed + bill
    BY <1>1, Added DEF Generations
  <1>3. PICK g : g = [gen[t] EXCEPT !.last = how, !.billed = billed]
    OBVIOUS
  <1>4. PICK f \in Fallback(g, 0) : gen' = [gen EXCEPT ![t] = f]
    BY <1>2, <1>3 DEF Fails
  <1>5. /\ g \in Generations(g.plan) /\ g.last = how
        /\ g.alone = gen[t].alone /\ g.billed = billed
    BY <1>1, <1>3 DEF Generations
  <1>6. Left(f, g, 0) /\ f.result = "deterministic"
    BY <1>4, <1>5, FallbackLeaves
  <1>7. 0 <= billed
    OBVIOUS
  <1> QED
    BY <1>4, <1>5, <1>6, <1>7, EndStep DEF Fails

LEMMA ValidStep ==
    ASSUME GenerationInv, NEW t \in Threads, Valid(t)
    PROVE  GenerationInv'
  <1>1. gen[t] \in Generations(gen[t].plan) /\ gen[t].at = "asked"
    BY DEF GenerationInv, GenerationTypeOK, Valid
  <1>2. Running(t) /\ gen[t].total = gen[t].billed
    BY <1>1 DEF GenerationInv, Metered, Running
  <1>3. PICK bill \in Nat : bill = gen[t].billed + 1
    BY <1>1, Added DEF Generations
  <1>4. PICK g : g = [gen[t] EXCEPT !.last = "valid", !.billed = bill]
    OBVIOUS
  <1>5. /\ g \in Generations(g.plan) /\ g.total = gen[t].total
        /\ g.alone = gen[t].alone /\ g.billed = bill
    BY <1>1, <1>4 DEF Generations, Endings
  <1>6. PICK f \in Accepted(g, bill) : gen' = [gen EXCEPT ![t] = f]
    BY <1>2, <1>3, <1>4, <1>5 DEF Valid
  <1>7. Left(f, g, bill) /\ f.result \in {"model", "deterministic"}
    BY <1>5, <1>6, AcceptedLeaves
  <1>8. bill <= bill
    OBVIOUS
  <1> QED
    BY <1>2, <1>5, <1>6, <1>7, <1>8, EndStep DEF Valid

\* One repair, then the caller is charged for both replies.
LEMMA InvalidStep ==
    ASSUME GenerationInv, NEW t \in Threads, Invalid(t)
    PROVE  GenerationInv'
  <1>1. gen[t] \in Generations(gen[t].plan) /\ gen[t].at = "asked"
    BY DEF GenerationInv, GenerationTypeOK, Invalid
  <1>2. Running(t) /\ gen[t].total = gen[t].billed
    BY <1>1 DEF GenerationInv, Metered, Running
  <1>3. PICK bill \in Nat : bill = gen[t].billed + 1
    BY <1>1, Added DEF Generations
  <1>4. PICK g : g = [gen[t] EXCEPT !.last = "invalid", !.billed = bill, !.total = bill]
    OBVIOUS
  <1>5. /\ g \in Generations(g.plan) /\ g.alone = gen[t].alone
        /\ g.total = bill /\ g.billed = bill
        /\ g.charged = gen[t].charged /\ g.result = gen[t].result
        /\ g.attempt = gen[t].attempt
    BY <1>1, <1>4 DEF Generations, Endings
  <1>6. g = [gen[t] EXCEPT !.last = "invalid", !.billed = @ + 1, !.total = @ + 1]
    BY <1>2, <1>3, <1>4
  <1>7. \/ /\ g.attempt <= 1
           /\ gen' = [gen EXCEPT ![t] = [g EXCEPT !.attempt = @ + 1, !.at = "messages"]]
        \/ \E f \in Fallback(g, g.total) : gen' = [gen EXCEPT ![t] = f]
    BY <1>6 DEF Invalid, MAX_REPAIR_ATTEMPTS
  <1>8. bill <= bill
    OBVIOUS
  <1>9. ASSUME NEW f \in Fallback(g, g.total), gen' = [gen EXCEPT ![t] = f]
        PROVE  GenerationInv'
    <2>1. Left(f, g, bill) /\ f.result = "deterministic"
      BY <1>5, <1>9, FallbackLeaves
    <2> QED
      BY <1>2, <1>5, <1>8, <1>9, <2>1, EndStep DEF Invalid
  <1>10. ASSUME g.attempt <= 1,
                gen' = [gen EXCEPT ![t] = [g EXCEPT !.attempt = @ + 1, !.at = "messages"]]
        PROVE  GenerationInv'
    <2>1. g.attempt = 1
      BY <1>5, <1>10 DEF Generations
    <2>2. PICK f : f = [g EXCEPT !.attempt = 2, !.at = "messages"]
      OBVIOUS
    <2>3. gen' = [gen EXCEPT ![t] = f]
      BY <1>10, <2>1, <2>2
    <2>4. /\ f \in Generations(f.plan) /\ f.at = "messages" /\ f.alone = gen[t].alone
          /\ f.total = bill /\ f.billed = bill
          /\ f.charged = gen[t].charged /\ f.result = gen[t].result
      BY <1>5, <2>2 DEF Generations, Doing
    <2>5. Metered(f)
      BY <1>1, <2>4 DEF GenerationInv, Metered
    <2>6. gen'[t] = f /\ \A u \in Threads \ {t} : gen'[u] = gen[u]
      BY <2>3, OthersStand DEF GenerationInv, GenerationTypeOK
    <2>7. Undisturbed(t)'
      BY <1>2, <2>4, <2>6 DEF GenerationInv, Undisturbed, Running
    <2>8. Stepping(t)'
      BY <2>4, <2>6 DEF Stepping
    <2> QED
      BY <1>2, <2>3, <2>4, <2>5, <2>7, <2>8, LocalStep
         DEF Invalid, GenerationInv, GenerationTypeOK
  <1> QED
    BY <1>7, <1>9, <1>10

LEMMA CheckStepStep ==
    ASSUME GenerationInv, NEW t \in Threads, CheckStep(t)
    PROVE  GenerationInv'
  <1>1. gen[t] \in Generations(gen[t].plan) /\ gen[t].at = "check"
    BY DEF GenerationInv, GenerationTypeOK, CheckStep
  <1>2. Running(t)
    BY <1>1 DEF Running
  <1>3. \/ Fails(t, "refused", 0)
        \/ /\ requested = "auto" /\ mode # "prompt"
           /\ gen' = [gen EXCEPT ![t].at = "index"]
           /\ UNCHANGED <<requested, mode, refused, contended, calls>>
    BY DEF CheckStep
  <1>4. ASSUME requested = "auto", mode # "prompt",
               gen' = [gen EXCEPT ![t].at = "index"],
               UNCHANGED <<requested, mode, refused, contended, calls>>
        PROVE  GenerationInv'
    <2>1. PICK f : f = [gen[t] EXCEPT !.at = "index"]
      OBVIOUS
    <2>2. gen' = [gen EXCEPT ![t] = f]
      BY <1>4, <2>1
    <2>3. /\ f \in Generations(f.plan) /\ f.at = "index" /\ f.alone = gen[t].alone
          /\ f.total = gen[t].total /\ f.billed = gen[t].billed
          /\ f.charged = gen[t].charged /\ f.result = gen[t].result
          /\ f.format = gen[t].format
      BY <1>1, <2>1 DEF Generations, Doing
    <2>4. Metered(f)
      BY <1>1, <2>3 DEF GenerationInv, Metered
    <2>5. gen'[t] = f /\ \A u \in Threads \ {t} : gen'[u] = gen[u]
      BY <2>2, OthersStand DEF GenerationInv, GenerationTypeOK
    <2>6. Undisturbed(t)'
      BY <1>2, <1>4, <2>3, <2>5 DEF GenerationInv, Undisturbed, Running
    <2>7. ASSUME ~contended PROVE Stepping(t)'
      BY <1>1, <1>4, <2>3, <2>5, <2>7 DEF GenerationInv, Climbed, Stepping
    <2> QED
      BY <1>2, <1>4, <2>2, <2>3, <2>4, <2>6, <2>7, LocalStep
         DEF GenerationInv, GenerationTypeOK
  <1> QED
    BY <1>2, <1>3, <1>4, FailsStep DEF Endings

\* Only a mode another thread wrote can be past the end of the ladder.
LEMMA IndexStepStep ==
    ASSUME GenerationInv, NEW t \in Threads, IndexStep(t)
    PROVE  GenerationInv'
  <1>1. gen[t] \in Generations(gen[t].plan) /\ gen[t].at = "index"
    BY DEF GenerationInv, GenerationTypeOK, IndexStep
  <1>2. Running(t)
    BY <1>1 DEF Running
  <1>3. ASSUME mode = "prompt" PROVE GenerationInv'
    <2>1. PICK f : f = Ended(gen[t], "raised", 0)
      OBVIOUS
    <2>2. gen' = [gen EXCEPT ![t] = f]
      BY <1>3, <2>1 DEF IndexStep
    <2>3. Left(f, gen[t], 0) /\ f.result = "raised"
      BY <1>1, <2>1, EndedLeaves DEF Results
    <2>4. ~gen[t].alone
      BY <1>1, <1>3 DEF GenerationInv, Undisturbed
    <2>5. gen[t].billed \in Nat
      BY <1>1 DEF Generations
    <2>6. 0 <= gen[t].billed
      BY <2>5
    <2> QED
      BY <2>2, <2>3, <2>4, <2>6, EndStep DEF IndexStep
  <1>4. ASSUME mode # "prompt" PROVE GenerationInv'
    <2>1. PICK m : m = _LADDER[Rank[mode] + 1]
      OBVIOUS
    <2>2. m \in Modes
      BY <1>4, <2>1 DEF GenerationInv, GenerationTypeOK, _LADDER, Rank, Modes
    <2>3. PICK f : f = [gen[t] EXCEPT !.next = m, !.at = "write"]
      OBVIOUS
    <2>4. gen' = [gen EXCEPT ![t] = f]
      BY <1>4, <2>1, <2>3 DEF IndexStep
    <2>5. /\ f \in Generations(f.plan) /\ f.at = "write" /\ f.alone = gen[t].alone
          /\ f.total = gen[t].total /\ f.billed = gen[t].billed
          /\ f.charged = gen[t].charged /\ f.result = gen[t].result
          /\ f.format = gen[t].format /\ f.next = m
      BY <1>1, <2>2, <2>3 DEF Generations, Doing
    <2>6. Metered(f)
      BY <1>1, <2>5 DEF GenerationInv, Metered
    <2>7. gen'[t] = f /\ \A u \in Threads \ {t} : gen'[u] = gen[u]
      BY <2>4, OthersStand DEF GenerationInv, GenerationTypeOK
    <2>8. Undisturbed(t)'
      BY <1>2, <2>5, <2>7 DEF GenerationInv, Undisturbed, Running
    <2>9. ASSUME ~contended PROVE Stepping(t)'
      <3>1. gen[t].format = mode /\ mode \in refused
        BY <1>1, <2>9 DEF GenerationInv, Climbed, Stepping
      <3> QED
        BY <1>4, <2>1, <2>5, <2>7, <3>1 DEF Stepping, IndexStep
    <2>10. requested = "auto"
      BY <1>1 DEF GenerationInv, Climbed
    <2> QED
      BY <1>2, <2>4, <2>5, <2>6, <2>8, <2>9, <2>10, LocalStep
         DEF IndexStep, GenerationInv, GenerationTypeOK
  <1> QED
    BY <1>3, <1>4

\* The next mode of the ladder is the strongest one left.
LEMMA NextOfLadder ==
    ASSUME NEW m \in Modes, m # "prompt", NEW k \in Modes,
           Rank[k] < Rank[_LADDER[Rank[m] + 1]]
    PROVE  k = m \/ Rank[k] < Rank[m]
  BY DEF Modes, Rank, _LADDER

LEMMA WriteStepStep ==
    ASSUME GenerationInv, NEW t \in Threads, WriteStep(t)
    PROVE  GenerationInv'
  <1>1. gen[t] \in Generations(gen[t].plan) /\ gen[t].at = "write"
    BY DEF GenerationInv, GenerationTypeOK, WriteStep
  <1>2. Running(t) /\ requested = "auto" /\ gen[t].next \in Modes
    BY <1>1 DEF GenerationInv, Climbed, Running, Generations
  <1>3. PICK f : f = [gen[t] EXCEPT !.at = "messages"]
    OBVIOUS
  <1>4. gen' = [gen EXCEPT ![t] = f]
    BY <1>3 DEF WriteStep
  <1>5. /\ f \in Generations(f.plan) /\ f.at = "messages" /\ f.alone = gen[t].alone
        /\ f.total = gen[t].total /\ f.billed = gen[t].billed
        /\ f.charged = gen[t].charged /\ f.result = gen[t].result
    BY <1>1, <1>3 DEF Generations, Doing
  <1>6. Metered(f)
    BY <1>1, <1>5 DEF GenerationInv, Metered
  <1>7. /\ gen' = [u \in Threads |-> gen'[u]]
        /\ gen'[t] = f /\ \A u \in Threads \ {t} : gen'[u] = gen[u]
    BY <1>4, OthersStand DEF GenerationInv, GenerationTypeOK
  <1>8. ASSUME NEW u \in Threads, gen[u].alone, u # t PROVE ~Running(u)
    BY <1>2, <1>8 DEF GenerationInv, Undisturbed
  <1>9. GenerationTypeOK'
    BY <1>2, <1>5, <1>7 DEF GenerationInv, GenerationTypeOK, WriteStep
  <1>10. ASSUME NEW u \in Threads PROVE Metered(gen[u])'
    BY <1>6, <1>7 DEF GenerationInv, Metered
  <1>11. ASSUME NEW u \in Threads PROVE Undisturbed(u)'
    <2>1. CASE u = t
      BY <1>2, <1>5, <1>7, <2>1 DEF GenerationInv, Undisturbed, Running
    <2>2. CASE u # t
      BY <1>7, <1>8, <2>2 DEF GenerationInv, Undisturbed, Running
    <2> QED
      BY <2>1, <2>2
  <1>12. ASSUME NEW u \in Threads, ~contended PROVE Stepping(u)'
    <2>1. CASE u = t
      BY <1>5, <1>7, <2>1 DEF Stepping
    <2>2. CASE u # t
      BY <1>7, <1>8, <1>12, <2>2 DEF GenerationInv, Climbed, Stepping, Running
    <2> QED
      BY <2>1, <2>2
  <1>13. Climbed'
    BY <1>5, <1>7, <1>12 DEF GenerationInv, Climbed, WriteStep
  <1>14. LadderIsEarned'
    <2>1. ASSUME ~contended, NEW m \in Modes, Rank[m] < Rank[mode'] PROVE m \in refused
      <3>1. mode # "prompt" /\ mode' = _LADDER[Rank[mode] + 1] /\ mode \in refused
        BY <1>1, <2>1 DEF GenerationInv, Climbed, Stepping, WriteStep
      <3>2. m = mode \/ Rank[m] < Rank[mode]
        BY <2>1, <3>1, NextOfLadder DEF GenerationInv, GenerationTypeOK
      <3> QED
        BY <1>2, <2>1, <3>1, <3>2 DEF GenerationInv, LadderIsEarned
    <2> QED
      BY <1>2, <2>1 DEF WriteStep, LadderIsEarned
  <1> QED
    BY <1>9, <1>10, <1>11, <1>13, <1>14 DEF GenerationInv

LEMMA UnaskedStep ==
    ASSUME GenerationInv, NEW t \in Threads, NEW who \in {"plan", "candidates", "draft"},
           ~Running(t), Unasked(t, who), UNCHANGED <<requested, mode, refused>>
    PROVE  GenerationInv'
  <1>1. PICK g : g = [Fresh EXCEPT !.role = who]
    OBVIOUS
  <1>2. g \in Generations(g.plan) /\ g.alone /\ g.billed = 0
    BY <1>1 DEF Fresh, Generations, Endings, Doing, Modes, Results
  <1>3. PICK f \in Fallback(g, 0) : gen' = [gen EXCEPT ![t] = f]
    BY <1>1 DEF Unasked
  <1>4. Left(f, g, 0) /\ f.result = "deterministic"
    BY <1>2, <1>3, FallbackLeaves
  <1>5. 0 <= g.billed
    BY <1>2
  <1>6. UNCHANGED <<requested, mode, refused, contended>>
    BY DEF Unasked
  <1>7. /\ gen[t].alone => g.alone
        /\ f.result \in {"model", "deterministic"} /\ g.last \in {"valid", "invalid"} =>
              0 = g.billed
        /\ g.alone => f.result # "raised"
    BY <1>2, <1>4
  <1> QED
    BY <1>3, <1>4, <1>5, <1>6, <1>7, EndStep

\* A generation that begins ends the solitude of those it finds running.
LEMMA AskStep ==
    ASSUME GenerationInv, NEW t \in Threads, NEW who \in {"plan", "candidates", "draft"},
           ~Running(t), Ask(t, who), UNCHANGED <<requested, mode, refused>>
    PROVE  GenerationInv'
  <1> DEFINE Others == {u \in Threads : Running(u)}
  <1>1. PICK lone \in BOOLEAN : lone = (Others = {})
    OBVIOUS
  <1>2. PICK f : f = [Fresh EXCEPT !.role = who, !.at = "messages", !.alone = lone]
    OBVIOUS
  <1>3. /\ f \in Generations(f.plan) /\ f.at = "messages" /\ f.alone = lone
        /\ f.total = 0 /\ f.billed = 0 /\ f.charged = 0 /\ f.result = "none"
    <2>1. /\ Fresh \in Generations(Fresh.plan) /\ Fresh.total = 0 /\ Fresh.billed = 0
          /\ Fresh.charged = 0 /\ Fresh.result = "none"
      BY DEF Fresh, Generations, Endings, Doing, Modes, Results
    <2>2. "messages" \in Doing
      BY DEF Doing
    <2> QED
      BY <1>2, <2>1, <2>2 DEF Generations
  <1>4. /\ gen' = [u \in Threads |-> IF u = t THEN f
                                     ELSE IF u \in Others THEN [gen[u] EXCEPT !.alone = FALSE]
                                     ELSE gen[u]]
        /\ contended' = (contended \/ Others # {})
    BY <1>1, <1>2 DEF Ask
  <1>5. t \notin Others /\ gen'[t] = f /\ gen' = [u \in Threads |-> gen'[u]]
    BY <1>4
  <1>6. ASSUME NEW u \in Threads, u # t, ~Running(u) PROVE gen'[u] = gen[u]
    BY <1>4, <1>6
  <1>7. ASSUME NEW u \in Threads, u # t, Running(u)
        PROVE  /\ gen'[u] \in Generations(gen'[u].plan)
               /\ gen'[u].at = gen[u].at /\ ~gen'[u].alone
               /\ gen'[u].total = gen[u].total /\ gen'[u].billed = gen[u].billed
               /\ gen'[u].charged = gen[u].charged /\ gen'[u].result = gen[u].result
    <2>1. gen'[u] = [gen[u] EXCEPT !.alone = FALSE]
      BY <1>4, <1>7
    <2>2. gen[u] \in Generations(gen[u].plan)
      BY DEF GenerationInv, GenerationTypeOK
    <2> QED
      BY <2>1, <2>2 DEF Generations
  <1> HIDE DEF Others
  <1>8. GenerationTypeOK'
    <2>1. ASSUME NEW u \in Threads PROVE gen'[u] \in Generations(gen'[u].plan)
      BY <1>3, <1>5, <1>6, <1>7 DEF GenerationInv, GenerationTypeOK
    <2> QED
      BY <1>4, <1>5, <2>1 DEF GenerationInv, GenerationTypeOK
  <1>9. ASSUME NEW u \in Threads PROVE Metered(gen[u])'
    <2>1. CASE u = t
      BY <1>3, <1>5, <2>1 DEF Metered
    <2>2. CASE u # t /\ ~Running(u)
      BY <1>6, <2>2 DEF GenerationInv, Metered
    <2>3. CASE u # t /\ Running(u)
      BY <1>7, <2>3 DEF GenerationInv, Metered, Running
    <2> QED
      BY <2>1, <2>2, <2>3
  <1>10. ASSUME NEW u \in Threads PROVE Undisturbed(u)'
    <2>1. CASE u = t
      <3>1. ASSUME lone, NEW v \in Threads, Running(v)' PROVE v = t
        BY <1>1, <1>6, <3>1 DEF Running, Others
      <3> QED
        BY <1>3, <1>5, <2>1, <3>1 DEF Undisturbed
    <2>2. CASE u # t /\ ~Running(u)
      BY <1>6, <2>2 DEF GenerationInv, Undisturbed, Running
    <2>3. CASE u # t /\ Running(u)
      BY <1>7, <2>3 DEF Undisturbed
    <2> QED
      BY <2>1, <2>2, <2>3
  <1>11. ~contended' => \A u \in Threads : ~Running(u)
    BY <1>4 DEF Others
  <1>12. Climbed'
    <2>1. ASSUME ~contended', NEW u \in Threads PROVE gen'[u].alone /\ Stepping(u)'
      <3>1. CASE u = t
        BY <1>1, <1>3, <1>4, <1>5, <2>1, <3>1 DEF Stepping
      <3>2. CASE u # t
        BY <1>4, <1>6, <1>11, <2>1, <3>2 DEF GenerationInv, Climbed, Stepping, Running
      <3> QED
        BY <3>1, <3>2
    <2>2. ASSUME NEW u \in Threads, gen'[u].at \in {"index", "write"}
          PROVE  requested' = "auto"
      BY <1>3, <1>5, <1>6, <1>7, <2>2 DEF GenerationInv, Climbed
    <2> QED
      BY <2>1, <2>2 DEF Climbed
  <1>13. LadderIsEarned'
    BY <1>4 DEF GenerationInv, LadderIsEarned
  <1> QED
    BY <1>8, <1>9, <1>10, <1>12, <1>13 DEF GenerationInv

LEMMA GenerationStep == GenerationInv /\ [Next]_vars => GenerationInv'
  <1> SUFFICES ASSUME GenerationInv, [Next]_vars PROVE GenerationInv'
    OBVIOUS
  <1>1. ASSUME NEW t \in Threads, Begin(t) PROVE GenerationInv'
    BY <1>1, UnaskedStep, AskStep DEF Begin
  <1>2. ASSUME NEW t \in Threads, Break(t) \/ Empty(t) PROVE GenerationInv'
    BY <1>2, FailsStep DEF Break, Empty, Running, Endings
  <1>3. ASSUME UNCHANGED vars PROVE GenerationInv'
    <2>1. UNCHANGED <<requested, mode, gen, refused, contended>>
      BY <1>3 DEF vars
    <2>2. GenerationTypeOK' /\ Climbed' /\ LadderIsEarned'
      BY <2>1 DEF GenerationInv, GenerationTypeOK, Climbed, Stepping, LadderIsEarned
    <2>3. \A t \in Threads : Metered(gen[t])' /\ Undisturbed(t)'
      BY <2>1 DEF GenerationInv, Metered, Undisturbed, Running
    <2> QED
      BY <2>2, <2>3 DEF GenerationInv
  <1> QED
    BY <1>1, <1>2, <1>3, MessagesStep, FormatStep, RefuseStep, ValidStep, InvalidStep,
       CheckStepStep, IndexStepStep, WriteStepStep DEF Next, Step

\* A generation that overlaps no other is always told the schema and is never
\* killed by the ladder, whatever mode earlier overlaps left behind
\* (openai_compatible.py, _messages, _response_format, _step_down).
THEOREM LoneSafety == Spec => []LoneCallIsTold
  <1>1. GenerationInv => LoneCallIsTold
    BY DEF GenerationInv, Undisturbed, LoneCallIsTold
  <1> QED
    BY <1>1, GenerationInit, GenerationStep, PTL DEF Spec

\* Until two generations overlap the mode in use is the strongest one not yet
\* refused, and an explicit mode is never left (openai_compatible.py).
THEOREM LadderSafety == Spec => []LadderIsEarned
  <1>1. GenerationInv => LadderIsEarned
    BY DEF GenerationInv
  <1> QED
    BY <1>1, GenerationInit, GenerationStep, PTL DEF Spec

\* The charge of a generation never exceeds its bill, and is its bill unless
\* the last request broke off (base.py, generate_structured).
THEOREM BillSafety == Spec => []BillIsComplete
  <1>1. ASSUME GenerationInv, NEW t \in Threads
        PROVE  /\ gen[t].charged <= gen[t].billed
               /\ gen[t].result \in {"model", "deterministic"}
                     /\ gen[t].last \in {"valid", "invalid"} =>
                    gen[t].charged = gen[t].billed
    <2>1. gen[t] \in Generations(gen[t].plan) /\ Metered(gen[t])
      BY <1>1 DEF GenerationInv, GenerationTypeOK
    <2>2. gen[t].billed \in Nat
      BY <2>1 DEF Generations
    <2>3. 0 <= gen[t].billed
      BY <2>2
    <2> QED
      BY <2>1, <2>3 DEF Metered
  <1>2. GenerationInv => BillIsComplete
    BY <1>1 DEF BillIsComplete
  <1> QED
    BY <1>2, GenerationInit, GenerationStep, PTL DEF Spec

----------------------------------------------------------------------------
\* Orders on a finite set: what is best of a non-empty one.

LEMMA LeastOfNat ==
    ASSUME NEW T \in SUBSET Nat, T # {}
    PROVE  \E n \in T : \A m \in T : n <= m
  <1>1. PICK n \in T : \A m \in T : <<m, n>> \notin OpToRel(<, Nat)
    BY WFMin, NatLessThanWellFounded
  <1>2. ASSUME NEW m \in T PROVE n <= m
    <2>1. <<m, n>> \in Nat \X Nat /\ m \in Nat /\ n \in Nat
      BY <1>2
    <2>2. ~(m < n)
      BY <1>1, <2>1 DEF OpToRel
    <2> QED
      BY <2>1, <2>2
  <1> QED
    BY <1>2

\* A strict order leaves a finite set with a member nothing precedes: one with
\* the fewest predecessors has none, since a predecessor would have fewer.
LEMMA Unbeaten ==
    ASSUME NEW S, IsFiniteSet(S), S # {}, NEW R,
           \A a \in S : <<a, a>> \notin R,
           \A a, b, c \in S : <<a, b>> \in R /\ <<b, c>> \in R => <<a, c>> \in R
    PROVE  \E a \in S : \A b \in S : <<b, a>> \notin R
  <1> DEFINE before(a) == {b \in S : <<b, a>> \in R}
             size == [a \in S |-> Cardinality(before(a))]
  <1>1. ASSUME NEW a \in S PROVE IsFiniteSet(before(a)) /\ size[a] \in Nat
    <2>1. before(a) \subseteq S
      OBVIOUS
    <2>2. IsFiniteSet(before(a))
      BY <2>1, FS_Subset
    <2> QED
      BY <2>2, FS_CardinalityType
  <1> DEFINE sizes == {size[a] : a \in S}
  <1>2. sizes \subseteq Nat /\ sizes # {}
    <2>1. \A a \in S : size[a] \in Nat
      BY <1>1
    <2> HIDE DEF size
    <2> QED
      BY <2>1
  <1>3. PICK n \in sizes : \A m \in sizes : n <= m
    <2> HIDE DEF sizes
    <2> QED
      BY <1>2, LeastOfNat
  <1>4. PICK a \in S : n = size[a]
    BY <1>3
  <1>5. ASSUME NEW b \in S, <<b, a>> \in R PROVE FALSE
    <2>1. before(b) \subseteq before(a) /\ b \in before(a) /\ b \notin before(b)
      BY <1>5
    <2>2. before(b) # before(a)
      BY <2>1
    <2>3. Cardinality(before(b)) < Cardinality(before(a))
      <3> HIDE DEF before
      <3> QED
        BY <1>1, <2>1, <2>2, FS_Subset
    <2>4. size[b] < size[a] /\ size[b] \in sizes
      BY <2>3
    <2>5. size[a] <= size[b] /\ size[a] \in Nat /\ size[b] \in Nat
      BY <1>1, <1>3, <1>4, <2>4
    <2> QED
      BY <2>4, <2>5
  <1> QED
    BY <1>5

LEMMA MaxIsTop ==
    ASSUME NEW S, IsFiniteSet(S), S # {}, S \subseteq Int
    PROVE  Max(S) \in S /\ \A n \in S : n <= Max(S)
  <1> DEFINE R == {p \in S \X S : p[1] > p[2]}
  <1>1. \A a \in S : <<a, a>> \notin R
    OBVIOUS
  <1>2. \A a, b, c \in S : <<a, b>> \in R /\ <<b, c>> \in R => <<a, c>> \in R
    OBVIOUS
  <1>3. PICK a \in S : \A b \in S : <<b, a>> \notin R
    <2> HIDE DEF R
    <2> QED
      BY <1>1, <1>2, Unbeaten
  <1>4. ASSUME NEW b \in S PROVE b <= a
    <2>1. ~(b > a)
      BY <1>3
    <2> QED
      BY <2>1
  <1> QED
    BY <1>4 DEF Max

----------------------------------------------------------------------------
\* The verified citations.

\* The inputs of a run do not change; the screen keeps places in retrieval order.
Gathered ==
    /\ retrieved \in Seq(Citations)
    /\ distribution \in [Outcomes -> 0..100]
    /\ \E o \in Outcomes : distribution[o] > 0
    /\ predicted \in Favourites
    /\ kept \subseteq DOMAIN retrieved

LEMMA KeptIsFinite ==
    ASSUME Gathered
    PROVE  IsFiniteSet(kept)
  <1>1. Len(retrieved) \in Nat /\ DOMAIN retrieved = 1..Len(retrieved)
    BY DEF Gathered
  <1>2. IsFiniteSet(1..Len(retrieved))
    BY <1>1, FS_Interval
  <1> QED
    BY <1>1, <1>2, FS_Subset DEF Gathered

\* Places of kept citations carry a numeric score.
LEMMA KeptScore ==
    ASSUME Gathered, NEW i \in kept
    PROVE  i \in Nat \ {0} /\ retrieved[i] \in Citations /\ retrieved[i].score \in Int
  <1>1. i \in 1..Len(retrieved) /\ Len(retrieved) \in Nat
    BY DEF Gathered
  <1>2. retrieved[i] \in Citations
    BY <1>1 DEF Gathered
  <1>3. retrieved[i].score \in Int
    BY <1>2 DEF Citations
  <1> QED
    BY <1>1, <1>2, <1>3

LEMMA SidesAreKept ==
    ASSUME Gathered, NEW o
    PROVE  /\ _agreeing_citations(o) \subseteq kept
           /\ _opposing_citations(o) \subseteq kept
           /\ IsFiniteSet(_agreeing_citations(o))
           /\ IsFiniteSet(_opposing_citations(o))
  <1>1. _agreeing_citations(o) \subseteq kept /\ _opposing_citations(o) \subseteq kept
    BY DEF _agreeing_citations, _opposing_citations, Pointing
  <1> QED
    BY <1>1, KeptIsFinite, FS_Subset

\* The strongest of some verified citations: there is one, it outscores the
\* rest, and it is among the strongest k.
LEMMA StrongestLeads ==
    ASSUME Gathered, NEW S, S \subseteq kept, S # {}, NEW k \in Nat \ {0}
    PROVE  /\ Strongest(S, 1) # {} /\ Strongest(S, 1) \subseteq Strongest(S, k)
           /\ \A i \in Strongest(S, 1) : \A j \in S : retrieved[i].score >= retrieved[j].score
  <1>1. IsFiniteSet(S)
    BY KeptIsFinite, FS_Subset
  <1>2. \A i \in S : i \in Nat /\ retrieved[i].score \in Int
    BY KeptScore
  <1> DEFINE R == {p \in S \X S : Outranks(p[1], p[2])}
             over(i) == {j \in S : Outranks(j, i)}
  <1>3. \A a \in S : <<a, a>> \notin R
    BY <1>2 DEF Outranks
  <1>4. \A a, b, c \in S : <<a, b>> \in R /\ <<b, c>> \in R => <<a, c>> \in R
    BY <1>2 DEF Outranks
  <1>5. PICK a \in S : \A b \in S : <<b, a>> \notin R
    <2> HIDE DEF R
    <2> QED
      BY <1>1, <1>3, <1>4, Unbeaten
  <1>6. over(a) = {}
    BY <1>5
  <1>7. ASSUME NEW i \in S PROVE Cardinality(over(i)) \in Nat /\ (Cardinality(over(i)) = 0 <=> over(i) = {})
    <2>1. over(i) \subseteq S
      OBVIOUS
    <2>2. IsFiniteSet(over(i))
      BY <1>1, <2>1, FS_Subset
    <2> HIDE DEF over
    <2> QED
      BY <2>2, FS_CardinalityType, FS_EmptySet
  <1>8. Strongest(S, 1) = {i \in S : over(i) = {}}
    <2>1. Strongest(S, 1) = {i \in S : Cardinality(over(i)) < 1}
      BY DEF Strongest
    <2> HIDE DEF over
    <2> QED
      BY <1>7, <2>1
  <1>9. Strongest(S, k) = {i \in S : Cardinality(over(i)) < k}
    BY DEF Strongest
  <1>10. ASSUME NEW i \in S, over(i) = {} PROVE Cardinality(over(i)) < k
    <2> HIDE DEF over
    <2> QED
      BY <1>7, <1>10
  <1>11. Strongest(S, 1) \subseteq Strongest(S, k)
    <2> HIDE DEF over
    <2> QED
      BY <1>8, <1>9, <1>10
  <1>12. ASSUME NEW i \in S, over(i) = {}, NEW j \in S
         PROVE  retrieved[i].score >= retrieved[j].score
    <2>1. ~Outranks(j, i)
      BY <1>12
    <2> QED
      BY <1>2, <2>1 DEF Outranks
  <1> QED
    <2> HIDE DEF over
    <2> QED
      BY <1>5, <1>6, <1>8, <1>11, <1>12

LEMMA StrongestAreOfIt ==
    ASSUME NEW S, NEW k
    PROVE  Strongest(S, k) \subseteq S
  BY DEF Strongest

----------------------------------------------------------------------------
\* The rubric.

\* A share of a dimension lies between nothing and the whole of it.
LEMMA DivBounds ==
    ASSUME NEW a \in Nat, NEW b \in Nat, NEW n \in Nat \ {0}, a <= b, b <= n
    PROVE  /\ (Unit * a) \div n \in Nat /\ (Unit * b) \div n \in Nat
           /\ (Unit * a) \div n <= (Unit * b) \div n /\ (Unit * b) \div n <= Unit
  BY DEF Unit

LEMMA ShareGrows ==
    ASSUME NEW part, NEW more, NEW whole, IsFiniteSet(whole), whole # {},
           part \cap whole \subseteq more
    PROVE  /\ Share(part, whole) \in Nat /\ Share(more, whole) \in Nat
           /\ Share(part, whole) <= Share(more, whole) /\ Share(more, whole) <= Unit
  <1> DEFINE p == part \cap whole
             m == more \cap whole
  <1>1. p \subseteq m /\ m \subseteq whole
    OBVIOUS
  <1>2. Share(part, whole) = (Unit * Cardinality(p)) \div Cardinality(whole)
    BY DEF Share
  <1>3. Share(more, whole) = (Unit * Cardinality(m)) \div Cardinality(whole)
    BY DEF Share
  <1> HIDE DEF p, m
  <1>4. IsFiniteSet(m) /\ IsFiniteSet(p)
    BY <1>1, FS_Subset
  <1>5. /\ Cardinality(p) \in Nat /\ Cardinality(m) \in Nat
        /\ Cardinality(whole) \in Nat \ {0}
    BY <1>4, FS_CardinalityType, FS_EmptySet
  <1>6. Cardinality(p) <= Cardinality(m) /\ Cardinality(m) <= Cardinality(whole)
    BY <1>1, <1>4, FS_Subset
  <1> QED
    BY <1>2, <1>3, <1>5, <1>6, DivBounds

\* The forecast's own outcome is as plausible as an outcome can be.
LEMMA PlausibilityBounds ==
    ASSUME Gathered, NEW o \in Outcomes
    PROVE  /\ plausibility(o) \in Nat /\ plausibility(o) <= Unit
           /\ plausibility(predicted) = Unit
  <1>1. /\ predicted \in Outcomes
        /\ \A p \in Outcomes : distribution[p] <= distribution[predicted]
        /\ \A p \in Outcomes : distribution[p] \in Nat
    <2>1. \A p \in Outcomes : distribution[p] \in 0..100
      BY DEF Gathered
    <2>2. \A p \in Outcomes : distribution[p] \in Nat
      BY <2>1
    <2> QED
      BY <2>2 DEF Gathered, Favourites
  <1> DEFINE chances == {distribution[p] : p \in Outcomes}
             top == distribution[predicted]
  <1>2. Max(chances) = top
    <2>1. top \in chances /\ \A x \in chances : x <= top /\ x \in Nat
      BY <1>1
    <2> HIDE DEF chances, top
    <2> QED
      BY <2>1 DEF Max
  <1>3. top \in Nat /\ top > 0
    <2>1. PICK p \in Outcomes : distribution[p] > 0
      BY DEF Gathered
    <2> QED
      BY <1>1, <2>1
  <1>4. distribution[o] \in Nat /\ distribution[o] <= top
    BY <1>1
  <1>5. /\ plausibility(o) = (Unit * distribution[o]) \div top
        /\ plausibility(predicted) = (Unit * top) \div top
    BY <1>2 DEF plausibility
  <1>6. (Unit * top) \div top = Unit
    <2> HIDE DEF top
    <2> QED
      BY <1>3 DEF Unit
  <1>7. top <= top
    BY <1>3
  <1> HIDE DEF top
  <1> QED
    BY <1>3, <1>4, <1>5, <1>6, <1>7, DivBounds

\* A branch is a record of these fields, whoever argued it.
Branch(c) == c = [supports |-> c.supports, counters |-> c.counters,
                  strongest |-> c.strongest, prose |-> c.prose,
                  boasts |-> c.boasts, source |-> c.source]

LEMMA DimensionBounds ==
    ASSUME Gathered, NEW o \in Outcomes, NEW c
    PROVE  /\ grounding(o, c) \in Nat /\ grounding(o, c) <= Unit
           /\ completeness(o, c) \in Nat /\ completeness(o, c) <= Unit
           /\ resolution(o, c) \in {0, Unit}
  <1>1. grounding(o, c) \in Nat /\ grounding(o, c) <= Unit
    <2>1. CASE _agreeing_citations(o) = {}
      BY <2>1 DEF grounding, Unit
    <2>2. CASE _agreeing_citations(o) # {}
      <3>1. c.supports \cap _agreeing_citations(o) \subseteq c.supports
        OBVIOUS
      <3> QED
        BY <2>2, <3>1, ShareGrows, SidesAreKept DEF grounding
    <2> QED
      BY <2>1, <2>2
  <1>2. completeness(o, c) \in Nat /\ completeness(o, c) <= Unit
    <2>1. CASE _opposing_citations(o) = {}
      BY <2>1 DEF completeness, Unit
    <2>2. CASE _opposing_citations(o) # {}
      <3>1. c.counters \cap _opposing_citations(o) \subseteq c.counters
        OBVIOUS
      <3> QED
        BY <2>2, <3>1, ShareGrows, SidesAreKept DEF completeness
    <2> QED
      BY <2>1, <2>2
  <1>3. resolution(o, c) \in {0, Unit}
    BY DEF resolution
  <1> QED
    BY <1>1, <1>2, <1>3

LEMMA ScoreType ==
    ASSUME Gathered, NEW o \in Outcomes, NEW c
    PROVE  /\ score_candidate(o, c) \in Nat /\ evaluate(o, c) \in Nat
           /\ score_candidate(o, c) = grounding(o, c) + completeness(o, c) + resolution(o, c)
                 + plausibility(o) + IF c.boasts THEN 0 ELSE Unit
  <1>1. grounding(o, c) \in Nat /\ completeness(o, c) \in Nat /\ plausibility(o) \in Nat
    BY DimensionBounds, PlausibilityBounds
  <1>2. resolution(o, c) \in Nat /\ (IF c.boasts THEN 0 ELSE Unit) \in Nat
    BY DimensionBounds DEF Unit
  <1>3. score_candidate(o, c) = grounding(o, c) + completeness(o, c) + resolution(o, c)
           + plausibility(o) + IF c.boasts THEN 0 ELSE Unit
    BY DEF score_candidate
  <1>4. score_candidate(o, c) \in Nat
    BY <1>1, <1>2, <1>3
  <1> QED
    BY <1>3, <1>4 DEF evaluate

\* What the stress test makes of a branch that passed the hard checks: it still
\* passes, it scores no less, and it names the strongest citation against it.
LEMMA StressKeeps ==
    ASSUME Gathered, NEW o \in Outcomes, NEW c, Branch(c), hard_checks(o, c),
           NEW ch, ch = _stress_child(o, c)
    PROVE  /\ Branch(ch) /\ hard_checks(o, ch)
           /\ ch.prose = c.prose /\ ch.source = c.source /\ ch.supports = c.supports
           /\ c.counters \subseteq ch.counters
           /\ ch.counters \subseteq c.counters \cup Strongest(_opposing_citations(o), 1)
           /\ resolution(o, ch) = Unit
           /\ evaluate(o, ch) >= evaluate(o, c)
           /\ _opposing_citations(o) # {} =>
                 ch.strongest \in ch.counters \cap Strongest(_opposing_citations(o), 1)
  <1> DEFINE Opp == _opposing_citations(o)
             worst == Strongest(Opp, 1)
  <1>1. worst \subseteq Opp /\ Opp \subseteq kept
    BY StrongestAreOfIt, SidesAreKept
  <1>2. Opp # {} <=> worst # {}
    BY <1>1, StrongestLeads
  <1>3. PICK w : w = IF worst = {} THEN Unnamed ELSE CHOOSE i \in worst : TRUE
    OBVIOUS
  <1>4. worst # {} => w \in worst
    BY <1>3
  <1>5. w # Blank
    <2>1. worst # {} => w \in kept
      BY <1>1, <1>4
    <2>2. w \in Nat
      <3> HIDE DEF worst
      <3> QED
        BY <1>3, <2>1, KeptScore DEF Unnamed
    <2>3. \A n \in Nat : n # -1
      OBVIOUS
    <2> QED
      BY <2>2, <2>3 DEF Blank
  <1>6. ch = IF worst = {} THEN [c EXCEPT !.strongest = w]
             ELSE [c EXCEPT !.counters = c.counters \cup worst, !.strongest = w]
    BY <1>3 DEF _stress_child
  <1> HIDE DEF worst, Opp
  <1>7. /\ Branch(ch) /\ ch.prose = c.prose /\ ch.source = c.source
        /\ ch.supports = c.supports /\ ch.boasts = c.boasts
        /\ ch.strongest = w /\ ch.counters = c.counters \cup worst
    BY <1>6 DEF Branch
  <1>8. hard_checks(o, ch)
    BY <1>1, <1>2, <1>7 DEF hard_checks, is_verified, CitesRetrieved, Omits,
                            cited_document_ids, Opp
  <1>9. resolution(o, ch) = Unit
    BY <1>2, <1>5, <1>7 DEF resolution, Opp
  <1>10. completeness(o, c) <= completeness(o, ch)
    <2>1. CASE Opp = {}
      BY <2>1 DEF completeness, Opp, Unit
    <2>2. CASE Opp # {}
      <3>1. c.counters \cap Opp \subseteq ch.counters
        BY <1>7
      <3>2. IsFiniteSet(Opp)
        BY SidesAreKept DEF Opp
      <3>3. completeness(o, c) = Share(c.counters, Opp) /\ completeness(o, ch) = Share(ch.counters, Opp)
        BY <2>2 DEF completeness, Opp
      <3> QED
        BY <2>2, <3>1, <3>2, <3>3, ShareGrows
    <2> QED
      BY <2>1, <2>2
  <1>11. grounding(o, ch) = grounding(o, c)
    BY <1>7 DEF grounding
  <1>12. evaluate(o, ch) >= evaluate(o, c)
    <2>1. evaluate(o, ch) = score_candidate(o, ch) /\ evaluate(o, c) = score_candidate(o, c)
      BY <1>8 DEF evaluate
    <2>2. PICK boast : boast = IF c.boasts THEN 0 ELSE Unit
      OBVIOUS
    <2>3. boast = IF ch.boasts THEN 0 ELSE Unit
      BY <1>7, <2>2
    <2>4. boast \in Nat
      BY <2>2 DEF Unit
    <2>5. score_candidate(o, c) = grounding(o, c) + completeness(o, c) + resolution(o, c)
              + plausibility(o) + boast
      BY <2>2, ScoreType
    <2>6. score_candidate(o, ch) = grounding(o, c) + completeness(o, ch) + resolution(o, ch)
              + plausibility(o) + boast
      BY <1>11, <2>3, ScoreType
    <2>7. resolution(o, c) <= resolution(o, ch) /\ resolution(o, c) \in Nat /\ resolution(o, ch) \in Nat
      BY <1>9, DimensionBounds DEF Unit
    <2>8. /\ grounding(o, c) \in Nat /\ completeness(o, c) \in Nat
          /\ completeness(o, ch) \in Nat /\ plausibility(o) \in Nat
      BY DimensionBounds, PlausibilityBounds
    <2> QED
      BY <1>10, <2>1, <2>4, <2>5, <2>6, <2>7, <2>8
  <1> QED
    BY <1>2, <1>4, <1>7, <1>8, <1>9, <1>12 DEF Opp, worst

----------------------------------------------------------------------------
\* The bounded search.

LEMMA OutcomesAreFinite == IsFiniteSet(Outcomes)
  <1>1. IsFiniteSet({"Churned"})
    BY FS_Singleton
  <1>2. IsFiniteSet({"Churned"} \cup {"Contracted"})
    BY <1>1, FS_AddElement
  <1>3. IsFiniteSet(({"Churned"} \cup {"Contracted"}) \cup {"Expanded"})
    BY <1>2, FS_AddElement
  <1>4. IsFiniteSet((({"Churned"} \cup {"Contracted"}) \cup {"Expanded"}) \cup {"Renewed"})
    BY <1>3, FS_AddElement
  <1>5. Outcomes = (({"Churned"} \cup {"Contracted"}) \cup {"Expanded"}) \cup {"Renewed"}
    BY DEF Outcomes
  <1> QED
    BY <1>4, <1>5

LEMMA PlaceType ==
    ASSUME NEW o \in Outcomes
    PROVE  Place(o) \in 1..4
  <1>1. \E i \in 1..4 : ByName[i] = o
    BY DEF Outcomes, ByName
  <1> QED
    BY <1>1 DEF Place

\* Among some branches there is one that no other outranks.
LEMMA LeaderExists ==
    ASSUME NEW S, S \subseteq Outcomes, S # {}, NEW score, \A o \in S : score[o] \in Nat
    PROVE  \E o \in S : \A p \in S : ~Ranks(score, p, o)
  <1> DEFINE R == {p \in S \X S : Ranks(score, p[1], p[2])}
  <1>1. \A a \in S : score[a] \in Nat /\ Place(a) \in Nat
    BY PlaceType
  <1>2. \A a \in S : <<a, a>> \notin R
    BY <1>1 DEF Ranks
  <1>3. \A a, b, c \in S : <<a, b>> \in R /\ <<b, c>> \in R => <<a, c>> \in R
    BY <1>1 DEF Ranks
  <1>4. IsFiniteSet(S)
    BY OutcomesAreFinite, FS_Subset
  <1>5. PICK a \in S : \A b \in S : <<b, a>> \notin R
    <2> HIDE DEF R
    <2> QED
      BY <1>2, <1>3, <1>4, Unbeaten
  <1> QED
    BY <1>5

\* A branch outranked by one other at most is among the first two.
LEMMA FirstTwo ==
    ASSUME NEW S, NEW score, NEW b \in S, NEW w,
           \A p \in S \ {w} : ~Ranks(score, p, b)
    PROVE  b \in First(score, S, 2)
  <1> DEFINE over == {p \in S : Ranks(score, p, b)}
  <1>1. over \subseteq {w}
    OBVIOUS
  <1>2. IsFiniteSet({w}) /\ Cardinality({w}) = 1
    BY FS_Singleton
  <1>3. IsFiniteSet(over) /\ Cardinality(over) <= 1 /\ Cardinality(over) \in Nat
    <2> HIDE DEF over
    <2> QED
      BY <1>1, <1>2, FS_Subset, FS_CardinalityType
  <1>4. Cardinality(over) < 2
    <2> HIDE DEF over
    <2> QED
      BY <1>3
  <1> QED
    BY <1>4 DEF First

LEMMA FirstLeads ==
    ASSUME NEW S, S \subseteq Outcomes, S # {}, NEW score, \A o \in S : score[o] \in Nat
    PROVE  First(score, S, 1) # {} /\ First(score, S, 1) \subseteq S
  <1>1. PICK o \in S : \A p \in S : ~Ranks(score, p, o)
    BY LeaderExists
  <1>2. {p \in S : Ranks(score, p, o)} = {}
    BY <1>1
  <1>3. Cardinality({p \in S : Ranks(score, p, o)}) < 1
    BY <1>2, FS_EmptySet
  <1> QED
    BY <1>3 DEF First

LEMMA ScoresAreFinite ==
    ASSUME NEW T, IsFiniteSet(T), NEW score
    PROVE  IsFiniteSet({score[o] : o \in T})
  <1> DEFINE image == {score[o] : o \in T}
             f == [o \in T |-> score[o]]
  <1>1. f \in Surjection(T, image)
    BY DEF Surjection
  <1> HIDE DEF f
  <1>2. IsFiniteSet(image)
    BY <1>1, FS_Surjection
  <1> QED
    BY <1>2

\* The lead over the best of the others is a lead over each of them.
LEMMA LeadOverEach ==
    ASSUME NEW S, S \subseteq Outcomes, NEW score, \A o \in S : score[o] \in Nat,
           NEW leader \in S, NEW o \in S \ {leader},
           score[leader] - Max({score[p] : p \in S \ {leader}}) >= TIE_BAND
    PROVE  score[leader] >= score[o] + TIE_BAND
  <1> DEFINE others == {score[p] : p \in S \ {leader}}
  <1>1. IsFiniteSet(S \ {leader})
    BY OutcomesAreFinite, FS_Subset
  <1>2. IsFiniteSet(others)
    BY <1>1, ScoresAreFinite
  <1>3. others \subseteq Int /\ score[o] \in others
    OBVIOUS
  <1>4. PICK top : top = Max(others)
    OBVIOUS
  <1>5. top \in Int /\ score[o] <= top
    <2> HIDE DEF others
    <2> QED
      BY <1>2, <1>3, <1>4, MaxIsTop
  <1>6. score[leader] - top >= TIE_BAND
    BY <1>4
  <1>7. score[leader] \in Int /\ score[o] \in Int
    OBVIOUS
  <1> HIDE DEF others
  <1> QED
    BY <1>5, <1>6, <1>7 DEF TIE_BAND

\* A vote never selects: it re-scores the same gap.
LEMMA JudgedSelects ==
    ASSUME NEW S, S \subseteq Outcomes, S # {}, NEW score, \A o \in S : score[o] \in Nat,
           NEW children, NEW r \in Judged(score, S, children), r.winner # "none"
    PROVE  /\ r.winner \in S /\ r.survivors = children /\ r.voted = FALSE
           /\ \A o \in S \ {r.winner} : score[r.winner] >= score[o] + TIE_BAND
  <1>1. PICK leader : leader = CHOOSE o \in First(score, S, 1) : TRUE
    OBVIOUS
  <1>2. leader \in S
    BY <1>1, FirstLeads
  <1>3. PICK lead : lead = IF Cardinality(S) = 1 THEN TIE_BAND + 1
                           ELSE score[leader] - Max({score[o] : o \in S \ {leader}})
    OBVIOUS
  <1>4. r \in IF score[leader] < MINIMUM_WINNING_SCORE THEN {Abstains(children, FALSE)}
              ELSE (IF lead >= TIE_BAND THEN {Selects(leader, children, FALSE)} ELSE {})
                   \cup (IF lead <= TIE_BAND THEN {_consistency_vote(lead, leader, children)}
                         ELSE {})
    BY <1>1, <1>3 DEF Judged
  <1>5. Abstains(children, FALSE).winner = "none" /\ Abstains(children, TRUE).winner = "none"
    BY DEF Abstains
  <1>6. lead \in Int
    <2>1. CASE Cardinality(S) = 1
      BY <1>3, <2>1 DEF TIE_BAND
    <2>2. CASE Cardinality(S) # 1
      <3> DEFINE others == {score[o] : o \in S \ {leader}}
      <3>1. IsFiniteSet(S \ {leader})
        BY OutcomesAreFinite, FS_Subset
      <3>2. S \ {leader} # {}
        <4>1. S # {leader}
          BY <2>2, FS_Singleton
        <4> QED
          BY <1>2, <4>1
      <3>3. IsFiniteSet(others)
        BY <3>1, ScoresAreFinite
      <3>4. others # {} /\ others \subseteq Int
        BY <3>2
      <3>5. Max(others) \in Int
        <4> HIDE DEF others
        <4> QED
          BY <3>3, <3>4, MaxIsTop
      <3>6. lead = score[leader] - Max(others) /\ score[leader] \in Int
        BY <1>2, <1>3, <2>2
      <3> HIDE DEF others
      <3> QED
        BY <3>5, <3>6
    <2> QED
      BY <2>1, <2>2
  <1>7. lead <= TIE_BAND => ~(lead > TIE_BAND)
    BY <1>6 DEF TIE_BAND
  <1>8. lead <= TIE_BAND => _consistency_vote(lead, leader, children) = Abstains(children, TRUE)
    BY <1>7 DEF _consistency_vote
  <1>9. lead >= TIE_BAND /\ r = Selects(leader, children, FALSE)
    BY <1>4, <1>5, <1>8
  <1>10. r.winner = leader /\ r.survivors = children /\ r.voted = FALSE
    BY <1>9 DEF Selects
  <1>11. ASSUME NEW o \in S \ {leader} PROVE score[leader] >= score[o] + TIE_BAND
    <2>1. Cardinality(S) # 1
      <3>1. ASSUME Cardinality(S) = 1 PROVE FALSE
        <4>1. IsFiniteSet(S)
          BY OutcomesAreFinite, FS_Subset
        <4>2. Cardinality({leader}) = 1
          BY FS_Singleton
        <4>3. {leader} \subseteq S
          BY <1>2
        <4>4. S = {leader}
          BY <3>1, <4>1, <4>2, <4>3, FS_Subset
        <4> QED
          BY <4>4
      <3> QED
        BY <3>1
    <2> QED
      BY <1>2, <1>3, <1>9, <2>1, LeadOverEach
  <1> QED
    BY <1>2, <1>10, <1>11

\* A winner has passed the hard checks and its stress test, and leads every
\* branch that passed them, whether or not the beam kept that branch.
LEMMA SearchSelects ==
    ASSUME Gathered, NEW branch, \A o \in Outcomes : Branch(branch[o]),
           NEW r \in search(branch), r.winner # "none"
    PROVE  /\ r.winner \in Outcomes /\ hard_checks(r.winner, branch[r.winner])
           /\ r.survivors[r.winner] = _stress_child(r.winner, branch[r.winner])
           /\ r.voted = FALSE
           /\ \A o \in Outcomes \ {r.winner} :
                 hard_checks(o, branch[o]) =>
                    evaluate(r.winner, r.survivors[r.winner])
                        >= evaluate(o, branch[o]) + TIE_BAND
  <1> DEFINE depth_one == [o \in Outcomes |-> evaluate(o, branch[o])]
             valid     == {o \in Outcomes : hard_checks(o, branch[o])}
             beam      == First(depth_one, valid, TOT_BEAM_WIDTH)
             children  == [o \in beam |-> _stress_child(o, branch[o])]
             depth_two == [o \in beam |-> evaluate(o, children[o])]
             still     == {o \in beam : hard_checks(o, children[o])}
  <1>1. r \in IF still = {} THEN {Abstains(children, FALSE)}
              ELSE Judged(depth_two, still, children)
    BY DEF search
  <1>2. beam \subseteq valid
    BY DEF First
  <1> HIDE DEF beam
  <1>3. ASSUME NEW o \in beam
        PROVE  /\ o \in Outcomes /\ hard_checks(o, branch[o])
               /\ children[o] = _stress_child(o, branch[o])
               /\ o \in still /\ depth_two[o] \in Nat /\ depth_one[o] \in Nat
               /\ depth_two[o] = evaluate(o, children[o])
               /\ depth_two[o] >= depth_one[o]
    <2>1. o \in Outcomes /\ hard_checks(o, branch[o]) /\ Branch(branch[o])
      BY <1>2
    <2>2. children[o] = _stress_child(o, branch[o]) /\ depth_two[o] = evaluate(o, children[o])
          /\ depth_one[o] = evaluate(o, branch[o])
      BY <2>1
    <2> HIDE DEF children, depth_one, depth_two
    <2>3. hard_checks(o, children[o]) /\ evaluate(o, children[o]) >= evaluate(o, branch[o])
      BY <2>1, <2>2, StressKeeps
    <2> QED
      BY <2>1, <2>2, <2>3, ScoreType
  <1>4. still \subseteq beam
    OBVIOUS
  <1> HIDE DEF still, children, depth_two
  <1>5. r \in Judged(depth_two, still, children) /\ still # {}
    BY <1>1 DEF Abstains
  <1>6. still \subseteq Outcomes /\ \A o \in still : depth_two[o] \in Nat
    BY <1>3, <1>4
  <1>7. /\ r.winner \in still /\ r.survivors = children /\ r.voted = FALSE
        /\ \A o \in still \ {r.winner} : depth_two[r.winner] >= depth_two[o] + TIE_BAND
    BY <1>5, <1>6, JudgedSelects
  <1> DEFINE w == r.winner
  <1>8. w \in beam
    BY <1>4, <1>7
  <1>9. ASSUME NEW o \in Outcomes \ {w}, hard_checks(o, branch[o])
        PROVE  depth_two[w] >= evaluate(o, branch[o]) + TIE_BAND
    <2>1. \A p \in Outcomes : depth_one[p] = evaluate(p, branch[p]) /\ depth_one[p] \in Nat
      BY ScoreType
    <2>2. valid \ {w} \subseteq Outcomes /\ o \in valid \ {w}
      BY <1>9
    <2> HIDE DEF depth_one, valid
    <2>3. PICK b \in valid \ {w} : \A p \in valid \ {w} : ~Ranks(depth_one, p, b)
      BY <2>1, <2>2, LeaderExists
    <2>4. b \in beam
      BY <2>3, FirstTwo DEF beam, TOT_BEAM_WIDTH
    <2>5. depth_two[w] >= depth_two[b] + TIE_BAND
      BY <1>3, <1>7, <2>3, <2>4
    <2>6. depth_one[o] <= depth_one[b] /\ depth_one[b] \in Nat
      <3>1. ~Ranks(depth_one, o, b)
        BY <2>2, <2>3
      <3>2. depth_one[o] \in Nat /\ depth_one[b] \in Nat
        BY <2>1, <2>2, <2>3
      <3> QED
        BY <3>1, <3>2 DEF Ranks
    <2>7. depth_two[b] >= depth_one[b] /\ depth_two[b] \in Nat /\ depth_two[w] \in Nat
      BY <1>3, <1>8, <2>4
    <2>8. depth_one[o] \in Nat /\ depth_one[o] = evaluate(o, branch[o])
      BY <2>1, <2>2
    <2> HIDE DEF w
    <2> QED
      BY <2>5, <2>6, <2>7, <2>8 DEF TIE_BAND
  <1> QED
    BY <1>3, <1>7, <1>8, <1>9

----------------------------------------------------------------------------
\* The deterministic floor.

LEMMA FloorBranch ==
    ASSUME Gathered, NEW o \in Outcomes, NEW c, c = deterministic_candidate(o)
    PROVE  /\ Branch(c) /\ c.prose /\ ~c.boasts /\ c.source = "deterministic"
           /\ c.counters = Strongest(_opposing_citations(o), 2)
           /\ c.strongest # Blank
           /\ hard_checks(o, c)
  <1> DEFINE Opp == _opposing_citations(o)
             Agr == _agreeing_citations(o)
  <1>1. PICK w : w = IF Strongest(Opp, 2) = {} THEN Unnamed
                     ELSE CHOOSE i \in Strongest(Strongest(Opp, 2), 1) : TRUE
    OBVIOUS
  <1>2. PICK S : S = IF Strongest(Agr, 3) = {} /\ Strongest(Opp, 2) = {}
                     THEN Strongest(Pointing("neutral"), 3) ELSE Strongest(Agr, 3)
    OBVIOUS
  <1>3. c = [supports |-> S, counters |-> Strongest(Opp, 2), strongest |-> w,
             prose |-> TRUE, boasts |-> FALSE, source |-> "deterministic"]
    BY <1>1, <1>2 DEF deterministic_candidate, MAX_CANDIDATE_CITATIONS
  <1>4. /\ c.supports = S /\ c.counters = Strongest(Opp, 2) /\ c.strongest = w
        /\ c.prose /\ ~c.boasts /\ c.source = "deterministic" /\ Branch(c)
    BY <1>3 DEF Branch
  <1>5. /\ Opp \subseteq kept /\ Agr \subseteq kept /\ Pointing("neutral") \subseteq kept
        /\ Strongest(Opp, 2) \subseteq Opp /\ S \subseteq kept
    BY <1>2, SidesAreKept, StrongestAreOfIt DEF Pointing
  <1>6. Opp # {} => Strongest(Opp, 2) # {}
    <2>1. 2 \in Nat \ {0}
      OBVIOUS
    <2> QED
      BY <1>5, <2>1, StrongestLeads
  <1>7. w # Blank
    <2>1. CASE Strongest(Opp, 2) = {}
      BY <1>1, <2>1 DEF Unnamed, Blank
    <2>2. CASE Strongest(Opp, 2) # {}
      <3>1. 1 \in Nat \ {0} /\ Strongest(Opp, 2) \subseteq kept
        BY <1>5
      <3>2. Strongest(Strongest(Opp, 2), 1) # {}
        BY <2>2, <3>1, StrongestLeads
      <3>3. w \in Strongest(Strongest(Opp, 2), 1)
        BY <1>1, <2>2, <3>2
      <3>4. w \in kept
        BY <3>1, <3>3, StrongestAreOfIt
      <3>5. w \in Nat
        BY <3>4, KeptScore
      <3>6. \A n \in Nat : n # -1
        OBVIOUS
      <3> QED
        BY <3>5, <3>6 DEF Blank
    <2> QED
      BY <2>1, <2>2
  <1> HIDE DEF Opp
  <1>8. CitesRetrieved(c) /\ ~Omits(o, c) /\ is_verified(c)
    BY <1>4, <1>5, <1>6 DEF CitesRetrieved, cited_document_ids, Omits, is_verified, Opp
  <1> QED
    BY <1>4, <1>7, <1>8 DEF hard_checks, Opp

\* With anything verified at all a deterministic branch cites something.
LEMMA FloorCites ==
    ASSUME Gathered, kept # {}, NEW o \in Outcomes,
           NEW c, c = deterministic_candidate(o)
    PROVE  c.supports \cup c.counters # {}
  <1> DEFINE Opp == Strongest(_opposing_citations(o), 2)
             Agr == Strongest(_agreeing_citations(o), 3)
             Neu == Strongest(Pointing("neutral"), 3)
  <1>1. c.counters = Opp /\ c.supports = IF Agr = {} /\ Opp = {} THEN Neu ELSE Agr
    BY DEF deterministic_candidate, MAX_CANDIDATE_CITATIONS
  <1>2. PICK i \in kept : TRUE
    OBVIOUS
  <1>3. retrieved[i].signal \in Signals
    BY <1>2, KeptScore DEF Citations
  <1>4. /\ i \in _opposing_citations(o) \/ i \in _agreeing_citations(o)
           \/ i \in Pointing("neutral")
        /\ Pointing("neutral") \subseteq kept
    BY <1>2, <1>3 DEF Signals, _opposing_citations, _agreeing_citations, Pointing, _side, _other
  <1>5. 2 \in Nat \ {0} /\ 3 \in Nat \ {0}
    OBVIOUS
  <1>6. /\ _opposing_citations(o) # {} => Opp # {}
        /\ _agreeing_citations(o) # {} => Agr # {}
        /\ Pointing("neutral") # {} => Neu # {}
    BY <1>4, <1>5, SidesAreKept, StrongestLeads
  <1> HIDE DEF Opp, Agr, Neu
  <1> QED
    BY <1>1, <1>4, <1>6

\* The stress test adds nothing to a deterministic branch, which has named the
\* strongest citation against it already.
LEMMA FloorScore ==
    ASSUME Gathered, NEW o \in Outcomes, NEW c, c = deterministic_candidate(o),
           NEW ch, ch = _stress_child(o, c)
    PROVE  /\ evaluate(o, c) = grounding(o, c) + completeness(o, c) + plausibility(o) + 2 * Unit
           /\ evaluate(o, ch) = evaluate(o, c)
  <1> DEFINE Opp == _opposing_citations(o)
  <1>1. /\ Branch(c) /\ ~c.boasts /\ c.counters = Strongest(Opp, 2)
        /\ c.strongest # Blank /\ hard_checks(o, c)
    BY FloorBranch
  <1>2. /\ Branch(ch) /\ hard_checks(o, ch) /\ ch.supports = c.supports
        /\ c.counters \subseteq ch.counters
        /\ ch.counters \subseteq c.counters \cup Strongest(Opp, 1)
        /\ resolution(o, ch) = Unit
    BY <1>1, StressKeeps
  <1>3. ch.boasts = c.boasts
    BY <1>1 DEF _stress_child, Branch
  <1>4. Opp \subseteq kept /\ 2 \in Nat \ {0}
    BY SidesAreKept
  <1>5. Strongest(Opp, 1) \subseteq Strongest(Opp, 2) /\ (Opp # {} => Strongest(Opp, 2) # {})
    <2>1. CASE Opp = {}
      BY <2>1, StrongestAreOfIt
    <2>2. CASE Opp # {}
      BY <1>4, <2>2, StrongestLeads
    <2> QED
      BY <2>1, <2>2
  <1>6. ch.counters = c.counters
    BY <1>1, <1>2, <1>5
  <1>7. resolution(o, c) = Unit
    BY <1>1, <1>5 DEF resolution
  <1>8. grounding(o, ch) = grounding(o, c) /\ completeness(o, ch) = completeness(o, c)
    BY <1>2, <1>6 DEF grounding, completeness
  <1>9. evaluate(o, c) = score_candidate(o, c) /\ evaluate(o, ch) = score_candidate(o, ch)
    BY <1>1, <1>2 DEF evaluate
  <1>10. /\ score_candidate(o, c) = grounding(o, c) + completeness(o, c) + Unit
                + plausibility(o) + Unit
         /\ score_candidate(o, ch) = grounding(o, c) + completeness(o, c) + Unit
                + plausibility(o) + Unit
    BY <1>1, <1>2, <1>3, <1>7, <1>8, ScoreType
  <1>11. grounding(o, c) \in Nat /\ completeness(o, c) \in Nat /\ plausibility(o) \in Nat
    BY DimensionBounds, PlausibilityBounds
  <1> QED
    BY <1>9, <1>10, <1>11 DEF Unit

\* Why a deterministic search overrules the forecast only on evidence: on the
\* forecast's own side every branch is the same but for its plausibility, and
\* with nothing in its favour no branch outscores the forecast's.
LEMMA FloorOverrules ==
    ASSUME Gathered, NEW w \in Outcomes,
           evaluate(w, deterministic_candidate(w))
               >= evaluate(predicted, deterministic_candidate(predicted)) + TIE_BAND
    PROVE  /\ w \in ADVERSE_OUTCOMES <=> predicted \notin ADVERSE_OUTCOMES
           /\ _agreeing_citations(w) # {}
  <1>1. predicted \in Outcomes
    BY DEF Gathered, Favourites
  <1>2. PICK c : c = deterministic_candidate(w)
    OBVIOUS
  <1>3. PICK p : p = deterministic_candidate(predicted)
    OBVIOUS
  <1>4. /\ evaluate(w, c) = grounding(w, c) + completeness(w, c) + plausibility(w) + 2 * Unit
        /\ evaluate(predicted, p) = grounding(predicted, p) + completeness(predicted, p)
               + Unit + 2 * Unit
    <2>1. plausibility(predicted) = Unit
      BY PlausibilityBounds
    <2> QED
      BY <1>1, <1>2, <1>3, <2>1, FloorScore
  <1>5. /\ grounding(w, c) \in Nat /\ completeness(w, c) \in Nat /\ completeness(w, c) <= Unit
        /\ plausibility(w) \in Nat /\ plausibility(w) <= Unit
        /\ grounding(predicted, p) \in Nat /\ completeness(predicted, p) \in Nat
    BY <1>1, DimensionBounds, PlausibilityBounds
  <1>6. ~(/\ grounding(w, c) <= grounding(predicted, p)
          /\ completeness(w, c) <= completeness(predicted, p))
    <2>1. evaluate(w, c) >= evaluate(predicted, p) + TIE_BAND
      BY <1>2, <1>3
    <2> QED
      BY <1>4, <1>5, <2>1 DEF Unit, TIE_BAND
  <1>7. ASSUME w \in ADVERSE_OUTCOMES <=> predicted \in ADVERSE_OUTCOMES PROVE FALSE
    <2>1. /\ _agreeing_citations(w) = _agreeing_citations(predicted)
          /\ _opposing_citations(w) = _opposing_citations(predicted)
      BY <1>7 DEF _agreeing_citations, _opposing_citations, _side, _other
    <2>2. c = p
      BY <1>2, <1>3, <2>1 DEF deterministic_candidate
    <2>3. grounding(w, c) = grounding(predicted, p) /\ completeness(w, c) = completeness(predicted, p)
      BY <2>1, <2>2 DEF grounding, completeness
    <2> QED
      BY <1>5, <1>6, <2>3
  <1>8. ASSUME _agreeing_citations(w) = {}, ~(w \in ADVERSE_OUTCOMES <=> predicted \in ADVERSE_OUTCOMES)
        PROVE  FALSE
    <2>1. _opposing_citations(predicted) = {}
      BY <1>8 DEF _agreeing_citations, _opposing_citations, _side, _other
    <2>2. grounding(w, c) = 0 /\ completeness(predicted, p) = Unit
      BY <1>8, <2>1 DEF grounding, completeness
    <2> QED
      BY <1>5, <1>6, <2>2
  <1> QED
    BY <1>7, <1>8

----------------------------------------------------------------------------
\* The invariant of a run of the search.

\* A branch the model did not argue is still the floor's.
Drafted ==
    candidates # NoOne =>
        \A o \in Outcomes :
            /\ Branch(candidates[o])
            /\ candidates[o].source = "deterministic" =>
                   candidates[o] = deterministic_candidate(o)

\* How the winner was selected, kept true by the inputs it was selected on.
Selected ==
    Won => /\ candidates # NoOne /\ result.winner \in Outcomes
           /\ hard_checks(result.winner, candidates[result.winner])
           /\ Winner = _stress_child(result.winner, candidates[result.winner])
           /\ WinnerLeadsEveryBranch

\* The step a run is at, and what it has computed by then.
Timely ==
    /\ pc \notin {"screen", "degraded"} => kept # {}
    /\ pc = "screen" => candidates = NoOne
    /\ pc = "search" => candidates # NoOne
    /\ pc \in {"screen", "gate", "generate", "search"} => ~Won

\* No narrative composed from verified values is waiting to be rejected.
Composed ==
    /\ pc = "verify" /\ decision.source = "deterministic" => verify_output(decision)
    /\ pc \in {"screen", "gate", "draft", "fallback"} =>
           decision.source # "deterministic"

DeliberationInv == Gathered /\ Drafted /\ Selected /\ Timely /\ Composed

\* What the search reads and what the critic says of it do not change while
\* the inputs and the screened citations stand.
LEMMA CriticStands ==
    ASSUME UNCHANGED <<inputs, kept>>, NEW o, NEW c
    PROVE  /\ evaluate(o, c)' = evaluate(o, c)
           /\ hard_checks(o, c)' = hard_checks(o, c)
           /\ _stress_child(o, c)' = _stress_child(o, c)
           /\ deterministic_candidate(o)' = deterministic_candidate(o)
           /\ verify_output(c)' = verify_output(c)
  <1>1. evaluate(o, c)' = evaluate(o, c) /\ hard_checks(o, c)' = hard_checks(o, c)
    BY DEF inputs, CitesRetrieved, _opposing_citations, Pointing, _other, cited_document_ids,
           hard_checks, Omits, is_verified, evaluate, score_candidate, grounding,
           completeness, resolution, plausibility, _agreeing_citations, _side, Share
  <1>2. _stress_child(o, c)' = _stress_child(o, c)
    BY DEF inputs, _stress_child, Strongest, Outranks, _opposing_citations, Pointing, _other
  <1>3. deterministic_candidate(o)' = deterministic_candidate(o)
    BY DEF inputs, deterministic_candidate, Strongest, Outranks, _opposing_citations,
           _agreeing_citations, Pointing, _other, _side
  <1>4. verify_output(c)' = verify_output(c)
    BY DEF inputs, verify_output, is_verified, cited_document_ids
  <1> QED
    BY <1>1, <1>2, <1>3, <1>4

LEMMA GatheredStands ==
    ASSUME UNCHANGED <<inputs, kept>>, Gathered
    PROVE  Gathered'
  BY DEF inputs, Gathered, Favourites

LEMMA SearchStands ==
    ASSUME UNCHANGED <<inputs, kept, search_>>, Drafted, Selected
    PROVE  Drafted' /\ Selected'
  <1>1. UNCHANGED <<inputs, kept>> /\ UNCHANGED candidates /\ UNCHANGED result
    BY DEF search_
  <1>2. Drafted'
    BY <1>1, CriticStands DEF Drafted, Branch
  <1>3. Selected'
    BY <1>1, CriticStands DEF Selected, Won, Winner, WinnerLeadsEveryBranch
  <1> QED
    BY <1>2, <1>3

LEMMA NoOneIsEmpty ==
    ASSUME NEW f, DOMAIN f = Outcomes
    PROVE  f # NoOne
  BY DEF NoOne, Outcomes

LEMMA DeliberationBegins == DeliberationInit => DeliberationInv
  <1> SUFFICES ASSUME DeliberationInit PROVE DeliberationInv
    OBVIOUS
  <1>1. PICK c \in Cases : retrieved = c.retrieved /\ distribution = c.distribution
    BY DEF DeliberationInit
  <1>2. Gathered
    BY <1>1, CasesAssumption DEF DeliberationInit, Gathered
  <1>3. Drafted /\ Selected /\ Timely
    BY DEF DeliberationInit, Drafted, Selected, Timely, Won, NoResult
  <1>4. Composed
    BY DEF DeliberationInit, Composed, NoDecision
  <1> QED
    BY <1>2, <1>3, <1>4 DEF DeliberationInv

LEMMA ScreenStep ==
    ASSUME DeliberationInv, Screen
    PROVE  DeliberationInv'
  <1>1. /\ kept' = {i \in DOMAIN retrieved : ~citation_violation(retrieved[i])}
        /\ pc' = IF kept' = {} THEN "degraded" ELSE "gate"
        /\ UNCHANGED <<inputs, fired, search_, decision, attempts>>
        /\ candidates = NoOne /\ ~Won
    BY DEF Screen, DeliberationInv, Timely
  <1>2. kept' \subseteq DOMAIN retrieved
    BY <1>1
  <1>3. Gathered'
    BY <1>1, <1>2 DEF DeliberationInv, Gathered, Favourites, inputs
  <1>4. candidates' = NoOne /\ ~Won'
    BY <1>1 DEF search_, Won
  <1>5. Drafted' /\ Selected'
    BY <1>4 DEF Drafted, Selected
  <1>6. Timely'
    BY <1>1, <1>4 DEF Timely
  <1>7. Composed'
    <2>1. pc = "screen" /\ pc' \in {"degraded", "gate"} /\ decision' = decision
      BY <1>1 DEF Screen
    <2> QED
      BY <2>1 DEF DeliberationInv, Composed
  <1> QED
    BY <1>3, <1>5, <1>6, <1>7 DEF DeliberationInv

LEMMA GenerateStep ==
    ASSUME DeliberationInv, GenerateFloor \/ GenerateArgued
    PROVE  DeliberationInv'
  <1>1. /\ pc = "generate" /\ pc' = "search"
        /\ UNCHANGED <<inputs, kept>> /\ result' = result
        /\ DOMAIN candidates' = Outcomes
    BY DEF GenerateFloor, GenerateArgued, Floor
  <1>2. Gathered /\ Gathered' /\ kept # {} /\ ~Won
    BY <1>1, GatheredStands DEF DeliberationInv, Timely
  <1>3. ASSUME NEW o \in Outcomes
        PROVE  /\ Branch(candidates'[o])
               /\ candidates'[o].source = "deterministic" =>
                      candidates'[o] = deterministic_candidate(o)
    <2>1. PICK d : d = deterministic_candidate(o)
      OBVIOUS
    <2>2. Branch(d)
      BY <1>2, <2>1, FloorBranch
    <2>3. ASSUME GenerateFloor PROVE candidates'[o] = d
      BY <2>1, <2>3 DEF GenerateFloor, Floor
    <2>4. ASSUME GenerateArgued
          PROVE  \/ candidates'[o] = d
                 \/ /\ Branch(candidates'[o])
                    /\ candidates'[o].source = "model"
      <3>1. PICK draft : candidates' = [x \in Outcomes |-> Argued(x, draft[x])]
        BY <2>4 DEF GenerateArgued
      <3>2. candidates'[o] = Argued(o, draft[o])
        BY <3>1
      <3>3. PICK a : a = draft[o]
        OBVIOUS
      <3>4. \/ Argued(o, a) = d
            \/ Argued(o, a) = [supports |-> a.supports, counters |-> a.counters,
                               strongest |-> a.strongest, prose |-> a.prose,
                               boasts |-> a.boasts, source |-> "model"]
        BY <2>1 DEF Argued
      <3> QED
        BY <3>2, <3>3, <3>4 DEF Branch
    <2> QED
      BY <2>1, <2>2, <2>3, <2>4
  <1>4. Drafted'
    BY <1>1, <1>3, CriticStands DEF Drafted, Branch
  <1>5. ~Won'
    BY <1>1, <1>2 DEF Won
  <1>6. Selected' /\ Composed'
    BY <1>1, <1>5 DEF Selected, Composed
  <1>7. Timely'
    BY <1>1, <1>2, <1>5, NoOneIsEmpty DEF Timely
  <1> QED
    BY <1>2, <1>4, <1>6, <1>7 DEF DeliberationInv

\* The winner is selected; what it says of itself will pass its replay.
LEMMA TotStep ==
    ASSUME DeliberationInv, TotAdjudication
    PROVE  DeliberationInv'
  <1>1. /\ pc = "search" /\ result' \in search(candidates)
        /\ UNCHANGED <<inputs, kept, candidates>>
        /\ IF result'.winner = "none" THEN pc' = "abstained" /\ UNCHANGED decision
           ELSE /\ pc' = "verify"
                /\ decision' = FromCandidate(result'.winner, result'.survivors[result'.winner])
    BY DEF TotAdjudication
  <1>2. Gathered /\ Gathered' /\ kept # {} /\ candidates # NoOne
    BY <1>1, GatheredStands DEF DeliberationInv, Timely
  <1>3. \A o \in Outcomes : /\ Branch(candidates[o])
                            /\ candidates[o].source = "deterministic" =>
                                   candidates[o] = deterministic_candidate(o)
    BY <1>2 DEF DeliberationInv, Drafted
  <1>4. Drafted'
    BY <1>1, CriticStands DEF DeliberationInv, Drafted, Branch
  <1>5. ASSUME result'.winner # "none" PROVE Selected' /\ Composed'
    <2>1. PICK r : r = result'
      OBVIOUS
    <2>2. r \in search(candidates) /\ r.winner # "none"
      BY <1>1, <1>5, <2>1
    <2>3. PICK w : w = r.winner
      OBVIOUS
    <2>4. PICK ch : ch = r.survivors[w]
      OBVIOUS
    <2>5. /\ w \in Outcomes /\ hard_checks(w, candidates[w])
          /\ ch = _stress_child(w, candidates[w]) /\ r.voted = FALSE
          /\ \A o \in Outcomes \ {w} :
                hard_checks(o, candidates[o]) =>
                    evaluate(w, ch) >= evaluate(o, candidates[o]) + TIE_BAND
      BY <1>2, <1>3, <2>2, <2>3, <2>4, SearchSelects
    <2>6. WinnerLeadsEveryBranch'
      BY <1>1, <2>1, <2>3, <2>4, <2>5, CriticStands DEF WinnerLeadsEveryBranch, Winner
    <2>7. Selected'
      BY <1>1, <1>2, <2>1, <2>3, <2>4, <2>5, <2>6, CriticStands DEF Selected, Winner
    <2>8. decision' = [outcome |-> w, cites |-> ch.supports \cup ch.counters,
                       prose |-> ch.prose, source |-> ch.source, by |-> "tree_of_thought"]
      BY <1>1, <1>5, <2>1, <2>3, <2>4 DEF FromCandidate
    <2>9. ASSUME ch.source = "deterministic" PROVE verify_output(decision')
      <3>1. PICK c : c = candidates[w]
        OBVIOUS
      <3>2. /\ hard_checks(w, ch) /\ ch.source = c.source /\ ch.supports = c.supports
            /\ c.counters \subseteq ch.counters
        BY <1>2, <1>3, <2>5, <3>1, StressKeeps
      <3>3. c = deterministic_candidate(w)
        BY <1>3, <2>5, <2>9, <3>1, <3>2
      <3>4. ch.supports \cup ch.counters # {}
        BY <1>2, <2>5, <3>2, <3>3, FloorCites
      <3> QED
        BY <2>8, <3>2, <3>4 DEF verify_output, hard_checks, is_verified, CitesRetrieved
    <2>10. Composed'
      BY <1>1, <1>5, <2>8, <2>9, CriticStands DEF Composed
    <2> QED
      BY <2>7, <2>10
  <1>6. ASSUME result'.winner = "none" PROVE Selected' /\ Composed'
    BY <1>1, <1>6 DEF Selected, Won, Composed
  <1>7. Timely'
    BY <1>1, <1>2 DEF Timely
  <1> QED
    BY <1>2, <1>4, <1>5, <1>6, <1>7 DEF DeliberationInv

LEMMA DraftPasses ==
    ASSUME NEW outcome, NEW by
    PROVE  /\ verify_output(deterministic_draft(outcome, by))
           /\ deterministic_draft(outcome, by).source = "deterministic"
  BY DEF verify_output, deterministic_draft, is_verified

\* The steps that leave the search as it is.
LEMMA NarrateStep ==
    ASSUME DeliberationInv,
           ConflictGate \/ FastAdjudication \/ Verify \/ SafeFallback
             \/ UNCHANGED deliberation_vars
    PROVE  DeliberationInv'
  <1>1. UNCHANGED <<inputs, kept, search_>>
    BY DEF ConflictGate, FastAdjudication, Verify, SafeFallback, deliberation_vars
  <1>2. UNCHANGED <<inputs, kept>> /\ kept' = kept /\ candidates' = candidates /\ result' = result
    BY <1>1 DEF search_
  <1>3. Gathered' /\ Drafted' /\ Selected'
    BY <1>1, <1>2, GatheredStands, SearchStands DEF DeliberationInv
  <1>4. Timely' /\ Composed'
    <2>1. CASE ConflictGate
      <3>1. pc = "gate" /\ pc' \in {"draft", "generate"} /\ decision' = decision
        BY <2>1 DEF ConflictGate
      <3>2. Timely'
        BY <1>2, <3>1 DEF DeliberationInv, Timely, Won
      <3>3. ASSUME pc' = "draft" PROVE decision'.source # "deterministic"
        BY <3>1, <3>3 DEF DeliberationInv, Composed
      <3> QED
        BY <3>1, <3>2, <3>3 DEF Composed
    <2>2. CASE FastAdjudication
      <3>1. pc = "draft" /\ pc' = "verify"
        BY <2>2 DEF FastAdjudication
      <3>2. decision'.source = "deterministic" => verify_output(decision')
        BY <2>2, DraftPasses DEF FastAdjudication
      <3>3. Timely'
        BY <1>2, <3>1 DEF DeliberationInv, Timely, Won
      <3>4. Composed'
        BY <1>2, <3>1, <3>2, CriticStands DEF Composed
      <3> QED
        BY <3>3, <3>4
    <2>3. CASE Verify
      <3>1. /\ pc = "verify" /\ decision' = decision
            /\ pc' \in {"released", "draft", "fallback"}
            /\ pc' \in {"draft", "fallback"} => ~verify_output(decision)
        BY <2>3 DEF Verify
      <3> QED
        BY <1>2, <3>1 DEF DeliberationInv, Timely, Won, Composed
    <2>4. CASE SafeFallback
      <3>1. pc = "fallback" /\ pc' = "released"
        BY <2>4 DEF SafeFallback
      <3> QED
        BY <1>2, <3>1 DEF DeliberationInv, Timely, Won, Composed
    <2>5. CASE UNCHANGED deliberation_vars
      <3>1. pc' = pc /\ decision' = decision
        BY <2>5 DEF deliberation_vars
      <3> QED
        BY <1>2, <3>1, CriticStands DEF DeliberationInv, Timely, Won, Composed
    <2> QED
      BY <2>1, <2>2, <2>3, <2>4, <2>5
  <1> QED
    BY <1>3, <1>4 DEF DeliberationInv

LEMMA DeliberationInductive == DeliberationSpec => []DeliberationInv
  <1>1. DeliberationInv /\ [DeliberationNext]_deliberation_vars => DeliberationInv'
    BY ScreenStep, GenerateStep, TotStep, NarrateStep DEF DeliberationNext, Finished
  <1> QED
    BY <1>1, DeliberationBegins, PTL DEF DeliberationSpec

\* A released winner rests on screened evidence and has named the strongest
\* verified citation against it, whatever a model argued for it or left out
\* (tot.py, hard_checks and _stress_child).
THEOREM WinnerSafety == DeliberationSpec => []WinnerFacesItsCounterargument
  <1>1. ASSUME DeliberationInv, Won
        PROVE  /\ Winner.prose /\ CitesRetrieved(Winner)
               /\ \A i \in _opposing_citations(result.winner) :
                     \E j \in Winner.counters \cap _opposing_citations(result.winner) :
                        /\ retrieved[j].score >= retrieved[i].score
                        /\ Winner.strongest = j
    <2>1. PICK w : w = result.winner
      OBVIOUS
    <2>2. PICK c : c = candidates[w]
      OBVIOUS
    <2>3. PICK ch : ch = Winner
      OBVIOUS
    <2>4. /\ Gathered /\ w \in Outcomes /\ Branch(c) /\ hard_checks(w, c)
          /\ ch = _stress_child(w, c)
      BY <1>1, <2>1, <2>2, <2>3 DEF DeliberationInv, Selected, Drafted
    <2>5. /\ hard_checks(w, ch)
          /\ _opposing_citations(w) # {} =>
                ch.strongest \in ch.counters \cap Strongest(_opposing_citations(w), 1)
      BY <2>4, StressKeeps
    <2>6. ASSUME NEW i \in _opposing_citations(w)
          PROVE  /\ ch.strongest \in ch.counters \cap _opposing_citations(w)
                 /\ retrieved[ch.strongest].score >= retrieved[i].score
      <3>1. _opposing_citations(w) \subseteq kept /\ 1 \in Nat \ {0}
        BY <2>4, SidesAreKept
      <3> QED
        BY <2>4, <2>5, <2>6, <3>1, StrongestLeads, StrongestAreOfIt
    <2> QED
      BY <2>1, <2>3, <2>5, <2>6 DEF hard_checks, is_verified
  <1>2. DeliberationInv => WinnerFacesItsCounterargument
    BY <1>1 DEF WinnerFacesItsCounterargument
  <1> QED
    BY <1>2, DeliberationInductive, PTL

\* A released winner leads every branch that passed the hard checks, those the
\* beam dropped included, and no vote ever releases one (tot.py, search).
THEOREM LeadSafety == DeliberationSpec => []WinnerLeadsEveryBranch
  <1>1. DeliberationInv => WinnerLeadsEveryBranch
    BY DEF DeliberationInv, Selected, WinnerLeadsEveryBranch
  <1> QED
    BY <1>1, DeliberationInductive, PTL

\* A search over deterministic candidates overrules the forecaster only for the
\* other side, and only on verified evidence (tot.py with
\* forecast_adjudicator.py, deterministic_candidate).
THEOREM OverruleSafety == DeliberationSpec => []OverruledOnEvidence
  <1>1. ASSUME DeliberationInv, Won,
               \A o \in Outcomes : candidates[o].source = "deterministic",
               result.winner # predicted
        PROVE  /\ result.winner \in ADVERSE_OUTCOMES <=> predicted \notin ADVERSE_OUTCOMES
               /\ _agreeing_citations(result.winner) # {}
    <2>1. PICK w : w = result.winner
      OBVIOUS
    <2>2. /\ Gathered /\ w \in Outcomes /\ predicted \in Outcomes \ {w}
      BY <1>1, <2>1 DEF DeliberationInv, Gathered, Favourites, Selected
    <2>3. \A o \in Outcomes : candidates[o] = deterministic_candidate(o)
      BY <1>1 DEF DeliberationInv, Selected, Drafted
    <2>4. PICK c : c = deterministic_candidate(w)
      OBVIOUS
    <2>5. PICK p : p = deterministic_candidate(predicted)
      OBVIOUS
    <2>6. PICK ch : ch = _stress_child(w, c)
      OBVIOUS
    <2>7. hard_checks(predicted, p)
      BY <2>2, <2>5, FloorBranch
    <2>8. Winner = ch
      BY <1>1, <2>1, <2>2, <2>3, <2>4, <2>6 DEF DeliberationInv, Selected
    <2>9. evaluate(w, ch) >= evaluate(predicted, p) + TIE_BAND
      BY <1>1, <2>1, <2>2, <2>3, <2>5, <2>7, <2>8
         DEF DeliberationInv, Selected, WinnerLeadsEveryBranch
    <2>10. evaluate(w, ch) = evaluate(w, c)
      BY <2>2, <2>4, <2>6, FloorScore
    <2> QED
      BY <2>1, <2>2, <2>4, <2>5, <2>9, <2>10, FloorOverrules
  <1>2. DeliberationInv => OverruledOnEvidence
    BY <1>1 DEF OverruledOnEvidence
  <1> QED
    BY <1>2, DeliberationInductive, PTL

\* Nothing composed from verified values is ever rejected: no deterministic
\* branch fails a hard check and no deterministic narrative is replaced
\* (forecast_adjudicator.py).
THEOREM FloorSafety == DeliberationSpec => []FloorHolds
  <1>1. ASSUME DeliberationInv, candidates # NoOne, NEW o \in Outcomes,
               candidates[o].source = "deterministic"
        PROVE  hard_checks(o, candidates[o])
    <2>1. PICK c : c = candidates[o]
      OBVIOUS
    <2>2. Gathered /\ c = deterministic_candidate(o)
      BY <1>1, <2>1 DEF DeliberationInv, Drafted
    <2> QED
      BY <2>1, <2>2, FloorBranch
  <1>2. DeliberationInv => FloorHolds
    BY <1>1 DEF FloorHolds, DeliberationInv, Composed
  <1> QED
    BY <1>2, DeliberationInductive, PTL
=============================================================================
