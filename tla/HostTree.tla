------------------------------ MODULE HostTree ------------------------------
(***************************************************************************)
(* What scanner.HostScanner is given, and the pure parts of its walk: the  *)
(* directories a file is charged to, and the heap of the largest files.    *)
(*                                                                         *)
(* A path is the sequence of its names, "/" is the empty one; roots are    *)
(* absolute and clean.  The patterns of Ignore are the names they match.   *)
(***************************************************************************)
EXTENDS Integers, Sequences, FiniteSets

CONSTANTS
    Files,      \* the paths of the files there may be, in the order of the walk
    Roots,      \* HostPaths: a sequence of [path, depth], depth 0 for no limit
    Ignored,    \* the names a pattern of Ignore matches
    Sizes,      \* sizes a file can have
    Top         \* bigFilesTop

ASSUME HostAssumption ==
    /\ Files \in Seq(Seq(STRING) \ {<<>>})
    /\ Roots \in Seq([path : Seq(STRING), depth : Nat])
    /\ Sizes \subseteq Nat
    /\ Top \in Nat

----------------------------------------------------------------------------
(* Paths.                                                                  *)

\* strings.Count(path, "/"): the root directory is a separator itself.
Separators(path) == IF path = <<>> THEN 1 ELSE Len(path)

\* A path lies at or under another.
Under(path, top) == Len(top) <= Len(path) /\ SubSeq(path, 1, Len(top)) = top

\* The walk of a root gets to a file when no name from the root's own on is ignored: an
\* ignored directory is not entered.
Reaches(r, path) ==
    /\ Under(path, r.path)
    /\ \A n \in 1..Len(path) : n >= Len(r.path) => path[n] \notin Ignored

\* Mutant: the limit is exclusive.
ChargedShort(r, path) ==
    LET climb[n \in 0..Len(path)] ==
            LET dir   == SubSeq(path, 1, n)
                depth == Separators(dir) - Separators(r.path)
            IN  IF depth < 0 THEN {}
                ELSE (IF r.depth = 0 \/ depth < r.depth THEN {dir} ELSE {})
                     \cup (IF dir = r.path \/ n = 0 THEN {} ELSE climb[n - 1])
    IN  climb[Len(path) - 1]

\* The loop from the file's directory upwards, to the root, to "/" or out of the tree.
Charged(r, path) ==
    LET climb[n \in 0..Len(path)] ==
            LET dir   == SubSeq(path, 1, n)
                depth == Separators(dir) - Separators(r.path)
            IN  IF depth < 0 THEN {}
                ELSE (IF r.depth = 0 \/ depth <= r.depth THEN {dir} ELSE {})
                     \cup (IF dir = r.path \/ n = 0 THEN {} ELSE climb[n - 1])
    IN  climb[Len(path) - 1]

----------------------------------------------------------------------------
(* The heap.                                                               *)

\* minHeap: the entry at index 0 is a smallest one; of equals, any.
Smallest(heap) == {b \in heap : \A c \in heap : b.size <= c.size}

\* Mutant: a file as large as the smallest entry, or smaller, takes its place.
ConsideredAlways(heap, e) ==
    IF Top = 0 THEN {heap}
    ELSE IF Cardinality(heap) < Top THEN {heap \cup {e}}
    ELSE {(heap \ {b}) \cup {e} : b \in Smallest(heap)}

\* consider: what the heap can be afterwards.
Considered(heap, e) ==
    IF Top = 0 THEN {heap}
    ELSE IF Cardinality(heap) < Top THEN {heap \cup {e}}
    ELSE {IF e.size > b.size THEN (heap \ {b}) \cup {e} ELSE heap : b \in Smallest(heap)}
=============================================================================
