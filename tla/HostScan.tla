------------------------------ MODULE HostScan ------------------------------
(***************************************************************************)
(* scanner.HostScanner.Scan: the walk over the configured host paths.      *)
(*                                                                         *)
(* Every root is walked in turn.  A file that is met is charged to the     *)
(* directories above it, up to the root and down to the root's max_depth,  *)
(* and offered to one heap that keeps the largest files of all roots.      *)
(* Nothing stops the disk meanwhile: files are written and removed between *)
(* any two steps, and whatever cannot be read is passed over.              *)
(***************************************************************************)
EXTENDS HostTree, FiniteSetsExt

CONSTANT
    MaxWrites   \* bound: changes of the disk during one scan

Absent == -1

VARIABLES
    disk,       \* the size of each file, or Absent
    walk,       \* whether a walk is under way
    root,       \* the root being walked
    at,         \* the next file of the walk
    sizes,      \* bytes per <<root, directory>>: the maps of walkPath
    bigs,       \* the entries of the bigFilesHeap
    met,        \* history: the files walked over, with the sizes they had then
    writes      \* bound

hostVars == <<disk, walk, root, at, sizes, bigs, met, writes>>

Entry == [root : 1..Len(Roots), file : 1..Len(Files), size : Nat]
NoDisk == [f \in 1..Len(Files) |-> Absent]
NoSizes == [k \in {} |-> 0]

HostInit ==
    /\ disk = NoDisk
    /\ walk = "idle"
    /\ root = 1 /\ at = 1
    /\ sizes = NoSizes /\ bigs = {} /\ met = {}
    /\ writes = 0

----------------------------------------------------------------------------
(* The scan.                                                               *)

\* The disk is as it happens to be.
BeginWalk ==
    /\ walk = "idle"
    /\ walk' = "walking"
    /\ disk' \in [1..Len(Files) -> Sizes \cup {Absent}]
    /\ UNCHANGED <<root, at, sizes, bigs, met, writes>>

\* Somebody writes or removes a file.
Write ==
    /\ walk = "walking"
    /\ writes < MaxWrites
    /\ writes' = writes + 1
    /\ \E f \in 1..Len(Files), s \in Sizes \cup {Absent} :
          /\ s # disk[f]
          /\ disk' = [disk EXCEPT ![f] = s]
    /\ UNCHANGED <<walk, root, at, sizes, bigs, met>>

Walking == walk = "walking" /\ root <= Len(Roots) /\ at <= Len(Files)

\* Mutant: the directory's total is the size of its last file.
AddedLast(bytes, dirs, size) ==
    [d \in DOMAIN bytes \cup dirs |-> IF d \in dirs THEN size ELSE bytes[d]]

\* sizes[dir] += info.Size()
Added(bytes, dirs, size) ==
    [d \in DOMAIN bytes \cup dirs |->
        (IF d \in DOMAIN bytes THEN bytes[d] ELSE 0) + (IF d \in dirs THEN size ELSE 0)]

\* The walk meets a file, and reads its size.
Meet ==
    /\ Walking
    /\ Reaches(Roots[root], Files[at])
    /\ disk[at] # Absent
    /\ LET e == [root |-> root, file |-> at, size |-> disk[at]]
       IN  /\ bigs' \in Considered(bigs, e)
           /\ met' = met \cup {e}
    /\ sizes' = Added(sizes, {root} \X Charged(Roots[root], Files[at]), disk[at])
    /\ at' = at + 1
    /\ UNCHANGED <<disk, walk, root, writes>>

\* The file is not there, not under the root, ignored, gone before Info, or not to be
\* read, as a directory above it may not be: permission errors are skipped.
PassOver ==
    /\ Walking
    /\ at' = at + 1
    /\ UNCHANGED <<disk, walk, root, sizes, bigs, met, writes>>

NextRoot ==
    /\ walk = "walking"
    /\ root <= Len(Roots)
    /\ at > Len(Files)
    /\ root' = root + 1
    /\ at' = 1
    /\ UNCHANGED <<disk, walk, sizes, bigs, met, writes>>

\* The samples go to the caller; the next scan finds another disk.
EndWalk ==
    /\ walk = "walking"
    /\ root > Len(Roots)
    /\ walk' = "idle"
    /\ disk' = NoDisk
    /\ root' = 1 /\ at' = 1
    /\ sizes' = NoSizes /\ bigs' = {} /\ met' = {}
    /\ writes' = 0

HostNext == BeginWalk \/ Write \/ Meet \/ PassOver \/ NextRoot \/ EndWalk

HostSpec == HostInit /\ [][HostNext]_hostVars

----------------------------------------------------------------------------
\* The shape of the state.
HostTypeOK ==
    /\ disk \in [1..Len(Files) -> Sizes \cup {Absent}]
    /\ walk \in {"idle", "walking"}
    /\ root \in 1..Len(Roots) + 1 /\ at \in 1..Len(Files) + 1
    /\ \A k \in DOMAIN sizes : k[1] \in 1..Len(Roots) /\ sizes[k] \in Nat
    /\ bigs \subseteq Entry /\ met \subseteq Entry
    /\ writes \in Nat

\* The directories above a file.
Above(path) == {SubSeq(path, 1, n) : n \in 0..Len(path) - 1}

\* The levels of directories that max_depth stands for.
Levels(r) == IF r.path = <<>> THEN r.depth + 1 ELSE r.depth

\* The roots that no file takes the place of: host_paths are "directories to walk".  A root
\* that is a file is walked too, and charged to "/" if it lies there, else to nothing.
DirectoryRoots == {i \in 1..Len(Roots) : \A f \in 1..Len(Files) : Files[f] # Roots[i].path}

\* What files take together.
Bytes(entries) == MapThenSumSet(LAMBDA m : m.size, entries)

\* "One sample per directory up to MaxDepth": the directories that have a sample are
\* those at most max_depth levels under the root (one level more when the root is "/")
\* with a file somewhere beneath them, and a sample is the sum of these files, each
\* counted once, whatever is written, removed or unreadable while the walk goes on and
\* however the roots overlap.
DirectoriesAddUp ==
    \A i \in DirectoryRoots :
        LET r     == Roots[i]
            In(d) == {m \in met : m.root = i /\ Under(Files[m.file], d) /\ Files[m.file] # d}
            Due   == {d \in UNION {Above(Files[m.file]) : m \in met} :
                        /\ Under(d, r.path)
                        /\ r.depth = 0 \/ Len(d) <= Len(r.path) + Levels(r)
                        /\ In(d) # {}}
        IN  /\ {k \in DOMAIN sizes : k[1] = i} = {i} \X Due
            /\ \A d \in Due : sizes[<<i, d>>] = Bytes(In(d))

\* "The N largest individual files across all paths": of the files met, the heap holds
\* as many as it can, and none that is left out is larger than one that is kept.  A file
\* under two roots counts once for each.
BiggestFilesAreKept ==
    /\ bigs \subseteq met
    /\ Cardinality(bigs) = IF Cardinality(met) < Top THEN Cardinality(met) ELSE Top
    /\ \A b \in bigs, m \in met \ bigs : m.size <= b.size
=============================================================================
