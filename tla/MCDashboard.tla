---------------------------- MODULE MCDashboard ----------------------------
(* Dashboard with small constants for TLC. *)
EXTENDS Dashboard, TLC

\* Requests are interchangeable.
RequestSymmetry == Permutations(Requests)
============================================================================
