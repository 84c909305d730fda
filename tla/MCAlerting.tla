----------------------------- MODULE MCAlerting -----------------------------
(* Alerting with small constants for TLC: a disk at each of the thresholds,  *)
(* one of size 0, and one key that is no rule's.                             *)
EXTENDS Alerting, TLC

SmallCapacities == {[total |-> 10, avail |-> 2], [total |-> 10, avail |-> 1],
                    [total |-> 0, avail |-> 0]}

AlertKeys == RuleKeys \cup Levels \X FS \cup {<<"digest", 0>>}

\* Goroutines are interchangeable.
SenderSymmetry == Permutations(Senders)
=============================================================================
