------------------------------ MODULE MCDigest ------------------------------
(* Digest, and Review within it, with small constants for TLC. *)
EXTENDS Digest, TLC

\* Items, and reviews, are interchangeable.
ReviewSymmetry == Permutations(Items) \cup Permutations(Reviewers)
=============================================================================
