--------------------------- MODULE MCDeliberation ---------------------------
(* Small instances of Deliberation. *)
EXTENDS Deliberation

Sound(signal, score) ==
    [signal |-> signal, score |-> score, owner |-> Self, date |-> 1,
     leaks |-> FALSE, source |-> "note"]

A == Sound("adverse", 80)     a == Sound("adverse", 30)
F == Sound("favorable", 70)   f == Sound("favorable", 40)
N == Sound("neutral", 60)

Dist(c, k, e, r) == [o \in Outcomes |->
    CASE o = "Churned" -> c [] o = "Contracted" -> k
      [] o = "Expanded" -> e [] OTHER -> r]

Quiet == [trend |-> 0, lost |-> 0, level |-> 5, good |-> 0, mood |-> 0,
          bad |-> 0, unfinished |-> 0, median |-> 5]

Readings == {Quiet,
             [Quiet EXCEPT !.trend = 1, !.lost = 1],
             [Quiet EXCEPT !.level = 4, !.good = 1, !.unfinished = Missing],
             [Quiet EXCEPT !.level = 6, !.unfinished = 1, !.mood = 1, !.bad = 1],
             [Quiet EXCEPT !.median = Missing, !.trend = Missing]}

Clear   == Dist(70, 10, 5, 15)    Close == Dist(40, 5, 5, 50)
NearTie == Dist(10, 45, 5, 40)   Flat == Dist(25, 25, 25, 25)
Spread  == Dist(20, 10, 30, 40)

Case(r, g, d, m, p) == [retrieved |-> r, guidance |-> g, distribution |-> d,
                        reading |-> m, provider |-> p]

\* Every short retrieval, longer ones that dilute a rubric share, and ones the
\* screen cuts down.
Short == UNION {[1..n -> {A, a, F, f, N}] : n \in 1..3}
Long  == {<<F, N, F, F>>, <<A, A, A, A>>, <<F, F, F, A, F>>, <<A, A, f, A, A, F>>}
Cut   == {<<A, [A EXCEPT !.owner = "other"], F>>,
          <<[F EXCEPT !.date = Undated], A, [F EXCEPT !.date = 3]>>,
          <<[N EXCEPT !.leaks = TRUE]>>,
          <<[N EXCEPT !.source = "knowledge_base", !.owner = "none"], F>>}

\* Without a provider: the whole floor.  With one: fewer inputs, every argument.
MCCases ==
    {Case(r, {}, d, Quiet, FALSE) : r \in Short \cup Long \cup Cut,
                                    d \in {Clear, Close, NearTie, Flat, Spread}}
    \cup {Case(r, {Article}, Clear, m, TRUE) : r \in {<<A, N>>, <<A, A>>} \cup Cut,
                                             m \in Readings}
    \cup {Case(r, {Article}, d, Quiet, TRUE) : r \in {<<A, F>>, <<F, F, A>>, <<N, N>>},
                                             d \in {Close, NearTie}}

Argument == [supports |-> {1}, counters |-> {}, strongest |-> Unnamed,
             prose |-> TRUE, boasts |-> FALSE, empty |-> FALSE]

MCArguments == {[Argument EXCEPT !.empty = TRUE],
                [Argument EXCEPT !.counters = {1, 2}, !.strongest = 2],
                [Argument EXCEPT !.boasts = TRUE, !.strongest = Blank],
                [Argument EXCEPT !.supports = {7}, !.counters = {Article}],
                [Argument EXCEPT !.supports = {}],
                [Argument EXCEPT !.prose = FALSE]}

MCNarratives == {[cites |-> {1}, prose |-> TRUE], [cites |-> {1}, prose |-> FALSE],
                 [cites |-> {7}, prose |-> TRUE], [cites |-> {}, prose |-> TRUE]}
=============================================================================
