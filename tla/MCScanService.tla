--------------------------- MODULE MCScanService ---------------------------
(* Small instances of ScanService. *)
EXTENDS ScanService

MCHandlers == {"h1", "h2"}

\* One account renews too late for the short horizon, one has renewed already.
MCPortfolio == <<[renewal |-> 5, as_of |-> 1], [renewal |-> 3, as_of |-> 1],
                 [renewal |-> 1, as_of |-> 2]>>

MCBodies == {[accounts |-> <<>>, horizon |-> 2, cap |-> 1],
             [accounts |-> <<>>, horizon |-> 1, cap |-> 2],
             [accounts |-> <<1, 9>>, horizon |-> 2, cap |-> 2],
             [accounts |-> <<3, 3>>, horizon |-> 2, cap |-> 1]}

MCQuestions == [account: {1, 9}, text: {"why", "unsafe"}]
=============================================================================
