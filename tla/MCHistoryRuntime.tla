-------------------------- MODULE MCHistoryRuntime --------------------------
(* HistoryRuntime for TLC: two interchangeable sockets of the owner.       *)
EXTENDS HistoryRuntime, TLC

CONSTANTS c1, c2

Interchangeable == Permutations({c1, c2})
=============================================================================
