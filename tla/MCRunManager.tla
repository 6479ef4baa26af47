---------------------------- MODULE MCRunManager ----------------------------
(* Small instances of RunManager. *)
EXTENDS RunManager, TLC

CONSTANTS a, b, s1, s2
TwoRuns == {a, b}
TwoStreams == {s1, s2}
=============================================================================
