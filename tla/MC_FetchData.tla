---------------------------- MODULE MC_FetchData ----------------------------
(* Five ranks and a window of two, so that the window slides (rank 3 and  *)
(* rank 4 wait for a free slot) as in scenario S4 of the spec.             *)
EXTENDS FetchData

MCNRanks == 5
MCFetchWidth == 2
=============================================================================
