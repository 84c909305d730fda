--------------------------- MODULE MCDockerScan ---------------------------
(* DockerScan with small constants for TLC. *)
EXTENDS DockerScan, TLC

\* Containers are interchangeable, and so are volumes.
WorldSymmetry == Permutations(Containers) \cup Permutations(Volumes)
===========================================================================
