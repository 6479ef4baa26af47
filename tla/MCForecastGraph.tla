-------------------------- MODULE MCForecastGraph --------------------------
(* A small instance of ForecastGraph: two sub-goals, three kinds of request, *)
(* and a provider whose spending can reach the token budget.                 *)
EXTENDS ForecastGraph

Request(asOf, pause, value, stored) ==
    [asOf |-> asOf, pauseOnRed |-> pause, highValue |-> value, stored |-> stored]
Quant(provenance, adverse, tie) ==
    [available |-> TRUE, provenance |-> provenance, adverse |-> adverse,
     tie |-> tie, stale |-> FALSE]
Found(cites, thin) == [cites |-> cites, thin |-> thin]
Bill(calls, spent, ok) == [attempts |-> calls, tokens |-> spent, ok |-> ok]

\* A red answer that may pause, one without application memory, and a tightened
\* cutoff on an account of high value.
MCRequests == {Request(None, TRUE, FALSE, TRUE), Request(None, TRUE, FALSE, FALSE),
               Request(1, FALSE, TRUE, TRUE)}

\* An adverse forecast, a near tie, and metrics that fail their provenance rule.
MCQuantResults == {Quant(TRUE, TRUE, FALSE), Quant(TRUE, FALSE, TRUE),
                   Quant(FALSE, FALSE, FALSE)}

\* Nothing, something graded insufficient, enough, and enough with a citation
\* that is out of scope.
MCObservations == {Found({}, TRUE), Found({"sound"}, TRUE), Found({"sound"}, FALSE),
                   Found({"sound", "foreign"}, FALSE)}

\* A retrieval that only ever finds what the screen withholds.
ForeignObservations == {Found({"foreign"}, FALSE)}

\* A long generation accepted at once, and a short one given up after its
\* repair: either budget can be the one that runs out.
MCBills == {Bill(1, 2, TRUE), Bill(2, 1, FALSE)}
=============================================================================
