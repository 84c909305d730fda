----------------------------- MODULE MCScanPass -----------------------------
(* ScanPass with small constants for TLC: a tree three levels deep, two      *)
(* roots that overlap, and "/" as a root; as DockerScan's for the daemon.    *)
EXTENDS ScanPass, TLC

TreeFiles == << <<"a", "b", "c", "f">>, <<"a", "h">>, <<"a", "tmp", "i">> >>

TreeRoots == << [path |-> <<"a">>, depth |-> 1],
                [path |-> <<>>, depth |-> 1],
                [path |-> <<"a", "b">>, depth |-> 0] >>

\* Containers are interchangeable, and so are volumes.
WorldSymmetry == Permutations(Containers) \cup Permutations(Volumes)
=============================================================================
