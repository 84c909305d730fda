--------------------------- MODULE MCScanService ---------------------------
(* ScanService with small constants for TLC. *)
EXTENDS ScanService, TLC

\* The goroutines are interchangeable; for safety runs only.
JobSymmetry == Permutations(Jobs)
============================================================================
