--------------------------- MODULE ScanPassProofs ---------------------------
(***************************************************************************)
(* A pass over the host and the daemon.  First the heap of the largest     *)
(* files, for any tree, roots and capacity: what is let go is never missed *)
(* later, though only its size against the smallest entry of the moment    *)
(* was looked at.  The invariant adds to the property that the walk never  *)
(* meets an entry twice, so that sets count what the heap counts.  Then    *)
(* the totals of the directories, which need two facts about data: what    *)
(* a fold over a set computes, and what the loop upwards gets to.  Both    *)
(* are proved from a least counterexample.  Last the composition, which is *)
(* a behaviour of each of its parts.                                       *)
(***************************************************************************)
EXTENDS ScanPass, DockerScanProofs, FiniteSetTheorems, SequenceTheorems,
        NaturalsInduction, WellFoundedInduction

\* What a heap of Top entries is worth, for the entries offered so far.
Kept(heap, offered) ==
    /\ heap \subseteq offered
    /\ Cardinality(heap) = IF Cardinality(offered) < Top THEN Cardinality(offered) ELSE Top
    /\ \A b \in heap, m \in offered \ heap : m.size <= b.size

\* One more entry is offered.
LEMMA ConsideredKeeps ==
    ASSUME NEW heap, NEW offered, NEW e \in Entry, NEW next \in Considered(heap, e),
           offered \subseteq Entry, IsFiniteSet(offered), e \notin offered, Kept(heap, offered)
    PROVE  Kept(next, offered \cup {e})
<1>. DEFINE more == offered \cup {e}
<1>1. Top \in Nat
  BY HostAssumption
<1>2. Cardinality(offered) \in Nat /\ Cardinality(more) = Cardinality(offered) + 1
  BY FS_AddElement, FS_CardinalityType
<1>3. heap \subseteq offered /\ e \notin heap /\ IsFiniteSet(heap)
  BY FS_Subset DEF Kept
<1>4. Cardinality(heap) \in Nat
  BY <1>3, FS_CardinalityType
<1>5. CASE Top = 0
  <2>1. next = heap
    BY <1>5 DEF Considered
  <2>2. heap = {}
    BY <1>1, <1>2, <1>3, <1>5, FS_EmptySet DEF Kept
  <2>. QED  BY <1>1, <1>2, <1>5, <2>1, <2>2, FS_EmptySet DEF Kept
<1>6. CASE Top # 0 /\ Cardinality(heap) < Top
  <2>1. next = heap \cup {e}
    BY <1>6 DEF Considered
  <2>2. Cardinality(heap) = Cardinality(offered)
    BY <1>1, <1>2, <1>4, <1>6 DEF Kept
  <2>3. heap = offered
    BY <1>3, <2>2, FS_Subset
  <2>4. next = more
    BY <2>1, <2>3
  <2>5. Cardinality(more) < Top \/ Cardinality(more) = Top
    BY <1>1, <1>2, <1>4, <1>6, <2>2
  <2>. QED  BY <1>1, <1>2, <2>4, <2>5 DEF Kept
<1>7. CASE Top # 0 /\ ~(Cardinality(heap) < Top)
  <2>1. PICK b \in Smallest(heap) :
           next = IF e.size > b.size THEN (heap \ {b}) \cup {e} ELSE heap
    BY <1>7 DEF Considered
  <2>2. b \in heap /\ \A c \in heap : b.size <= c.size
    BY <2>1 DEF Smallest
  <2>3. \A m \in more : m.size \in Nat
    BY DEF Entry
  <2>4. /\ Cardinality(heap) = Top /\ ~(Cardinality(offered) < Top)
        /\ ~(Cardinality(more) < Top)
    BY <1>1, <1>2, <1>4, <1>7 DEF Kept
  <2>5. CASE e.size > b.size
    <3>1. next = (heap \ {b}) \cup {e}
      BY <2>1, <2>5
    <3>2. Cardinality(next) = Top
      <4>1. IsFiniteSet(heap \ {b}) /\ Cardinality(heap \ {b}) = Cardinality(heap) - 1
        BY <1>3, <2>2, FS_RemoveElement
      <4>2. Cardinality(next) = Cardinality(heap \ {b}) + 1
        BY <1>3, <3>1, <4>1, FS_AddElement
      <4>. QED  BY <1>4, <2>4, <4>1, <4>2
    <3>3. ASSUME NEW c \in next, NEW m \in more \ next PROVE m.size <= c.size
      <4>1. c = e \/ c \in heap
        BY <3>1
      <4>2. m = b \/ m \in offered \ heap
        BY <1>3, <2>2, <3>1, <3>3
      <4>3. m.size <= b.size
        BY <2>2, <2>3, <4>2 DEF Kept
      <4>4. b.size <= c.size
        BY <1>3, <2>2, <2>3, <2>5, <4>1
      <4>5. m.size \in Nat /\ b.size \in Nat /\ c.size \in Nat
        BY <1>3, <2>2, <2>3, <4>1
      <4>. QED  BY <4>3, <4>4, <4>5
    <3>4. next \subseteq more
      BY <1>3, <3>1
    <3>. QED  BY <2>4, <3>2, <3>3, <3>4 DEF Kept
  <2>6. CASE ~(e.size > b.size)
    <3>1. next = heap
      BY <2>1, <2>6
    <3>2. ASSUME NEW c \in heap, NEW m \in more \ heap PROVE m.size <= c.size
      <4>1. CASE m = e
        <5>1. m.size <= b.size /\ b.size <= c.size
          BY <1>3, <2>2, <2>3, <2>6, <4>1
        <5>2. m.size \in Nat /\ b.size \in Nat /\ c.size \in Nat
          BY <1>3, <2>2, <2>3
        <5>. QED  BY <5>1, <5>2
      <4>2. CASE m # e
        BY <4>2 DEF Kept
      <4>. QED  BY <4>1, <4>2
    <3>. QED  BY <1>3, <2>4, <3>1, <3>2 DEF Kept
  <2>. QED  BY <2>5, <2>6
<1>. QED  BY <1>1, <1>4, <1>5, <1>6, <1>7

----------------------------------------------------------------------------
(* The walk.                                                               *)

\* The entries met lie behind the walk.
Behind == \A m \in met : m.root < root \/ (m.root = root /\ m.file < at)

HeapInv ==
    /\ HostTypeOK
    /\ IsFiniteSet(met)
    /\ Behind
    /\ BiggestFilesAreKept

LEMMA Lengths == Len(Files) \in Nat /\ Len(Roots) \in Nat
BY HostAssumption

\* A file charged to directories leaves the totals naturals, of roots there are.
LEMMA SizesType ==
    ASSUME HostTypeOK, Walking, NEW dirs, NEW bytes \in Nat
    PROVE  LET next == Added(sizes, {root} \X dirs, bytes)
           IN  \A k \in DOMAIN next : k[1] \in 1..Len(Roots) /\ next[k] \in Nat
<1>. DEFINE next == Added(sizes, {root} \X dirs, bytes)
<1>1. root \in 1..Len(Roots)
  BY Lengths DEF HostTypeOK, Walking
<1>2. DOMAIN next = DOMAIN sizes \cup ({root} \X dirs)
  BY DEF Added
<1>3. ASSUME NEW k \in DOMAIN next PROVE k[1] \in 1..Len(Roots)
  BY <1>1, <1>2, <1>3 DEF HostTypeOK
<1>4. ASSUME NEW k \in DOMAIN next PROVE next[k] \in Nat
  <2>1. next[k] = (IF k \in DOMAIN sizes THEN sizes[k] ELSE 0)
                  + (IF k \in {root} \X dirs THEN bytes ELSE 0)
    BY <1>2, <1>4 DEF Added
  <2>2. k \in DOMAIN sizes => sizes[k] \in Nat
    BY DEF HostTypeOK
  <2>. QED  BY <2>1, <2>2
<1>. QED  BY <1>3, <1>4

LEMMA InitHeap == ASSUME HostInit PROVE HeapInv
<1>1. HostTypeOK
  BY Lengths DEF HostInit, HostTypeOK, NoDisk, NoSizes
<1>2. IsFiniteSet(met) /\ Cardinality(met) = 0 /\ bigs = {} /\ met = {}
  BY FS_EmptySet DEF HostInit
<1>3. BiggestFilesAreKept
  BY <1>2, HostAssumption DEF BiggestFilesAreKept
<1>. QED  BY <1>1, <1>2, <1>3 DEF HeapInv, Behind

\* The entry of a file that is met is none of those met before.
LEMMA MetAnew ==
    ASSUME HeapInv, Meet
    PROVE  LET e == [root |-> root, file |-> at, size |-> disk[at]]
           IN  /\ e \in Entry /\ e \notin met /\ met \subseteq Entry
               /\ root \in 1..Len(Roots) /\ at \in 1..Len(Files) /\ disk[at] \in Nat
<1>. DEFINE e == [root |-> root, file |-> at, size |-> disk[at]]
<1>1. /\ root \in 1..Len(Roots) /\ at \in 1..Len(Files)
      /\ disk[at] \in Nat
  <2>1. root \in 1..Len(Roots) /\ at \in 1..Len(Files)
    BY Lengths DEF HeapInv, HostTypeOK, Meet, Walking
  <2>2. disk[at] \in Sizes \cup {Absent} /\ disk[at] # Absent
    BY <2>1 DEF HeapInv, HostTypeOK, Meet
  <2>. QED  BY <2>1, <2>2, HostAssumption
<1>2. e \in Entry /\ met \subseteq Entry
  BY <1>1 DEF Entry, HeapInv, HostTypeOK
<1>3. e \notin met
  BY <1>1, <1>2 DEF HeapInv, Behind, Entry
<1>. QED  BY <1>1, <1>2, <1>3

LEMMA MeetHeap == ASSUME HeapInv, Meet PROVE HeapInv'
<1>. DEFINE e == [root |-> root, file |-> at, size |-> disk[at]]
<1>1. /\ root \in 1..Len(Roots) /\ at \in 1..Len(Files)
      /\ disk[at] \in Nat
  BY MetAnew
<1>2. e \in Entry /\ met \subseteq Entry /\ e \notin met
  BY MetAnew
<1>3. bigs \subseteq met
  BY DEF HeapInv, BiggestFilesAreKept
<1>5. bigs' \in Considered(bigs, e) /\ met' = met \cup {e}
  BY DEF Meet
<1>6. Kept(bigs, met) /\ IsFiniteSet(met)
  BY DEF HeapInv, BiggestFilesAreKept, Kept
<1>7. Kept(bigs', met')
  BY <1>2, <1>3, <1>5, <1>6, ConsideredKeeps
<1>8. BiggestFilesAreKept'
  BY <1>7 DEF BiggestFilesAreKept, Kept
<1>9. IsFiniteSet(met')
  BY <1>5, <1>6, FS_AddElement
<1>10. Behind'
  <2>1. root' = root /\ at' = at + 1
    BY DEF Meet
  <2>. QED  BY <1>1, <1>2, <1>5, <2>1 DEF HeapInv, Behind, Entry
<1>11. HostTypeOK'
  <2>1. sizes' = Added(sizes, {root} \X Charged(Roots[root], Files[at]), disk[at])
    BY DEF Meet
  <2>2. \A k \in DOMAIN sizes' : k[1] \in 1..Len(Roots) /\ sizes'[k] \in Nat
    BY <1>1, <2>1, SizesType DEF HeapInv, Meet
  <2>3. met' \subseteq Entry /\ bigs' \subseteq Entry
    BY <1>2, <1>3, <1>5, <1>7 DEF Kept
  <2>4. root' = root /\ at' \in 1..Len(Files) + 1
    BY <1>1, Lengths DEF Meet
  <2>. QED  BY <2>2, <2>3, <2>4 DEF HeapInv, HostTypeOK, Meet
<1>. QED  BY <1>8, <1>9, <1>10, <1>11 DEF HeapInv

\* A step that leaves the heap and what was met alone.
LEMMA OtherHeap ==
    ASSUME HeapInv, UNCHANGED <<bigs, met>>, HostTypeOK', Behind'
    PROVE  HeapInv'
BY DEF HeapInv, BiggestFilesAreKept

LEMMA NextHeap == ASSUME HeapInv, [HostNext]_hostVars PROVE HeapInv'
<1>1. HostTypeOK /\ Behind
  BY DEF HeapInv
<1>2. CASE BeginWalk
  <2>1. HostTypeOK'
    BY <1>1, <1>2 DEF HostTypeOK, BeginWalk
  <2>. QED  BY <1>1, <1>2, <2>1, OtherHeap DEF BeginWalk, Behind
<1>3. CASE Write
  <2>1. disk' \in [1..Len(Files) -> Sizes \cup {Absent}]
    BY <1>1, <1>3 DEF HostTypeOK, Write
  <2>2. HostTypeOK'
    BY <1>1, <1>3, <2>1 DEF HostTypeOK, Write
  <2>. QED  BY <1>1, <1>3, <2>2, OtherHeap DEF Write, Behind
<1>4. CASE Meet
  BY <1>4, MeetHeap
<1>5. CASE PassOver
  <2>1. HostTypeOK'
    BY <1>1, <1>5, Lengths DEF HostTypeOK, PassOver, Walking
  <2>2. Behind'
    BY <1>1, <1>5 DEF HostTypeOK, PassOver, Behind, Entry
  <2>. QED  BY <1>5, <2>1, <2>2, OtherHeap DEF PassOver
<1>6. CASE NextRoot
  <2>1. HostTypeOK'
    BY <1>1, <1>6, Lengths DEF HostTypeOK, NextRoot
  <2>2. Behind'
    BY <1>1, <1>6 DEF HostTypeOK, NextRoot, Behind, Entry
  <2>. QED  BY <1>6, <2>1, <2>2, OtherHeap DEF NextRoot
<1>7. CASE EndWalk
  <2>1. HostTypeOK'
    BY <1>7, Lengths DEF HostTypeOK, EndWalk, NoDisk, NoSizes
  <2>2. met' = {} /\ bigs' = {}
    BY <1>7 DEF EndWalk
  <2>3. BiggestFilesAreKept'
    BY <2>2, FS_EmptySet, HostAssumption DEF BiggestFilesAreKept
  <2>. QED  BY <2>1, <2>2, <2>3, FS_EmptySet DEF HeapInv, Behind
<1>8. CASE UNCHANGED hostVars
  <2>1. HostTypeOK'
    BY <1>1, <1>8 DEF HostTypeOK, hostVars
  <2>. QED  BY <1>1, <1>8, <2>1, OtherHeap DEF hostVars, Behind
<1>. QED  BY <1>2, <1>3, <1>4, <1>5, <1>6, <1>7, <1>8 DEF HostNext

LEMMA HeapInvariant == HostSpec => []HeapInv
BY InitHeap, NextHeap, PTL DEF HostSpec

\* The walk's state keeps its shape, for any tree of files and any roots.
THEOREM HostTypeCorrect == HostSpec => []HostTypeOK
<1>1. HeapInv => HostTypeOK
  BY DEF HeapInv
<1>. QED  BY <1>1, HeapInvariant, PTL

\* "The N largest individual files across all paths": whatever the order in which the
\* files are met, and whatever happens to the disk meanwhile, consider keeps as many of
\* them as there is room for and lets none go that is larger than one it keeps.
THEOREM BiggestAreKept == HostSpec => []BiggestFilesAreKept
<1>1. HeapInv => BiggestFilesAreKept
  BY DEF HeapInv
<1>. QED  BY <1>1, HeapInvariant, PTL

----------------------------------------------------------------------------
(* What files take together: a fold over a set, as a sum.                  *)

\* A function on the subsets of a set that sums their sizes.
Sums(g, S) ==
    /\ g \in [SUBSET S -> Nat]
    /\ g[{}] = 0
    /\ \A s \in SUBSET S : \A x \in s : g[s] = x.size + g[s \ {x}]

\* Of some subsets of a finite set, one is smallest: what a proof by induction needs.
LEMMA Least ==
    ASSUME NEW S, IsFiniteSet(S), NEW Bad, Bad \subseteq SUBSET S, Bad # {}
    PROVE  \E T \in Bad : \A U \in Bad : U \subseteq T => U = T
<1>. DEFINE R == StrictSubsetOrdering(S)
            F == FiniteSubsetsOf(S)
<1>1. IsWellFoundedOn(R, F)
  BY FS_StrictSubsetOrderingWellFounded
<1>2. Bad \subseteq F
  BY FS_Subset DEF FiniteSubsetsOf
<1>3. \A T, U \in SUBSET S : U \subseteq T /\ U # T => <<U, T>> \in R
  BY DEF StrictSubsetOrdering
<1>. HIDE DEF R, F
<1>4. PICK T \in Bad : \A U \in Bad : ~(<<U, T>> \in R)
  BY <1>1, <1>2, WFMin
<1>. QED  BY <1>3, <1>4

\* There is such a function: with one more element e, a subset that has e is worth e.size
\* more than the rest of it.
LEMMA SumsExist ==
    ASSUME NEW S, IsFiniteSet(S), \A m \in S : m.size \in Nat
    PROVE  \E g : Sums(g, S)
<1>. DEFINE Bad == {T \in SUBSET S : ~\E g : Sums(g, T)}
<1>1. SUFFICES ASSUME Bad # {} PROVE FALSE
  OBVIOUS
<1>2. PICK T \in Bad : \A U \in Bad : U \subseteq T => U = T
  <2>1. Bad \subseteq SUBSET S
    OBVIOUS
  <2>. HIDE DEF Bad
  <2>. QED  BY <1>1, <2>1, Least
<1>3. T # {}
  <2>1. Sums([s \in SUBSET {} |-> 0], {})
    BY DEF Sums
  <2>. QED  BY <1>2, <2>1
<1>4. PICK e \in T : TRUE
  BY <1>3
<1>. DEFINE U == T \ {e}
<1>5. PICK h : Sums(h, U)
  BY <1>2, <1>4
<1>. DEFINE g == [s \in SUBSET T |-> IF e \in s THEN e.size + h[s \ {e}] ELSE h[s]]
<1>6. e.size \in Nat
  BY <1>2, <1>4
<1>7. \A s \in SUBSET U : h[s] \in Nat
  BY <1>5 DEF Sums
<1>8. \A s \in SUBSET T : s \ {e} \in SUBSET U /\ (e \notin s => s \in SUBSET U)
  OBVIOUS
<1>9. g \in [SUBSET T -> Nat]
  <2>1. ASSUME NEW s \in SUBSET T
        PROVE  (IF e \in s THEN e.size + h[s \ {e}] ELSE h[s]) \in Nat
    BY <1>6, <1>7, <1>8
  <2>. QED  BY <2>1
<1>10. g[{}] = 0
  BY <1>5 DEF Sums
<1>11. ASSUME NEW s \in SUBSET T, NEW x \in s PROVE g[s] = x.size + g[s \ {x}]
  <2>1. s \ {x} \in SUBSET T
    OBVIOUS
  <2>2. CASE x = e
    BY <2>1, <2>2
  <2>3. CASE x # e /\ e \notin s
    <3>1. h[s] = x.size + h[s \ {x}]
      BY <1>5, <1>8, <2>3 DEF Sums
    <3>. QED  BY <2>1, <2>3, <3>1
  <2>4. CASE x # e /\ e \in s
    <3>1. x \in s \ {e} /\ s \ {e} \in SUBSET U
      BY <2>4
    <3>2. h[s \ {e}] = x.size + h[(s \ {e}) \ {x}]
      BY <1>5, <3>1 DEF Sums
    <3>3. (s \ {e}) \ {x} = (s \ {x}) \ {e}
      OBVIOUS
    <3>4. g[s] = e.size + h[s \ {e}] /\ g[s \ {x}] = e.size + h[(s \ {x}) \ {e}]
      BY <2>1, <2>4
    <3>5. x.size \in Nat /\ h[(s \ {x}) \ {e}] \in Nat
      BY <1>2, <1>7, <1>8, <2>1
    <3>6. h[s \ {e}] = x.size + h[(s \ {x}) \ {e}]
      BY <3>2, <3>3
    <3>. DEFINE rest == h[(s \ {x}) \ {e}]
    <3>7. g[s] = e.size + (x.size + rest) /\ g[s \ {x}] = e.size + rest /\ rest \in Nat
      BY <3>4, <3>5, <3>6
    <3>. HIDE DEF g, rest
    <3>. QED  BY <1>6, <3>5, <3>7
  <2>. QED  BY <2>2, <2>3, <2>4
<1>12. Sums(g, T)
  BY <1>9, <1>10, <1>11 DEF Sums
<1>. QED  BY <1>2, <1>12

\* The fold takes the elements in an order of its own, and arrives at the same sum.
LEMMA SumsAgree ==
    ASSUME NEW S, IsFiniteSet(S), NEW g, Sums(g, S)
    PROVE  Bytes(S) = g[S]
<1>. DEFINE Step(f, s) == IF s = {} THEN 0
                          ELSE LET x == CHOOSE x \in s : TRUE IN x.size + f[s \ {x}]
            iter == CHOOSE iter : iter = [s \in SUBSET S |-> Step(iter, s)]
<1>1. Bytes(S) = iter[S]
  BY DEF Bytes, MapThenSumSet, MapThenFoldSet
<1>2. g = [s \in SUBSET S |-> Step(g, s)]
  <2>1. ASSUME NEW s \in SUBSET S PROVE g[s] = Step(g, s)
    BY DEF Sums
  <2>2. g = [s \in SUBSET S |-> g[s]]
    BY DEF Sums
  <2>. QED  BY <2>1, <2>2
<1>3. iter = [s \in SUBSET S |-> Step(iter, s)]
  <2>1. \E f : f = [s \in SUBSET S |-> Step(f, s)]
    BY <1>2
  <2>. QED  BY <2>1
<1>. HIDE DEF iter
<1>. DEFINE Bad == {s \in SUBSET S : iter[s] # g[s]}
<1>4. ASSUME Bad # {} PROVE FALSE
  <2>1. PICK T \in Bad : \A U \in Bad : U \subseteq T => U = T
    <3>1. Bad \subseteq SUBSET S
      OBVIOUS
    <3>. HIDE DEF Bad
    <3>. QED  BY <1>4, <3>1, Least
  <2>2. iter[T] = Step(iter, T) /\ g[T] = Step(g, T)
    BY <1>2, <1>3, <2>1
  <2>3. T # {}
    BY <2>1, <2>2
  <2>. DEFINE x == CHOOSE x \in T : TRUE
  <2>4. x \in T
    BY <2>3
  <2>5. iter[T \ {x}] = g[T \ {x}]
    BY <2>1, <2>4
  <2>. QED  BY <2>1, <2>2, <2>3, <2>5
<1>. QED  BY <1>1, <1>4

\* The sum of nothing.
LEMMA BytesOfNone == Bytes({}) = 0
<1>1. Sums([s \in SUBSET {} |-> 0], {})
  BY DEF Sums
<1>. QED  BY <1>1, SumsAgree, FS_EmptySet

\* The sum with one more entry.
LEMMA BytesOfOneMore ==
    ASSUME NEW S, IsFiniteSet(S), NEW e, e \notin S, e.size \in Nat, \A m \in S : m.size \in Nat
    PROVE  Bytes(S \cup {e}) = Bytes(S) + e.size /\ Bytes(S) \in Nat
<1>. DEFINE T == S \cup {e}
<1>1. IsFiniteSet(T)
  BY FS_AddElement
<1>2. PICK g : Sums(g, T)
  BY <1>1, SumsExist
<1>. DEFINE h == [s \in SUBSET S |-> g[s]]
<1>3. Sums(h, S)
  BY <1>2 DEF Sums
<1>4. Bytes(T) = g[T] /\ Bytes(S) = h[S]
  BY <1>1, <1>2, <1>3, SumsAgree
<1>5. g[T] = e.size + g[S] /\ g[S] \in Nat
  <2>1. T \ {e} = S
    OBVIOUS
  <2>. QED  BY <1>2, <2>1 DEF Sums
<1>. QED  BY <1>4, <1>5
----------------------------------------------------------------------------
(* The directories a file is charged to, without the loop.                 *)

Path == Seq(STRING)

\* The directories that walkPath is to have a sample of, were there a file below.
Wanted(r, d) == Under(d, r.path) /\ (r.depth = 0 \/ Len(d) <= Len(r.path) + Levels(r))

\* The first names of a path.
LEMMA Prefix ==
    ASSUME NEW path \in Path, NEW n \in 0..Len(path)
    PROVE  /\ SubSeq(path, 1, n) \in Path
           /\ Len(SubSeq(path, 1, n)) = n
           /\ \A k \in 0..n : SubSeq(SubSeq(path, 1, n), 1, k) = SubSeq(path, 1, k)
<1>1. SubSeq(path, 1, n) \in Path /\ Len(SubSeq(path, 1, n)) = n
  BY SubSeqProperties DEF Path
<1>2. ASSUME NEW k \in 0..n
      PROVE  SubSeq(SubSeq(path, 1, n), 1, k) = SubSeq(path, 1, k)
  <2>. DEFINE p == SubSeq(path, 1, n)
              a == SubSeq(p, 1, k)
              b == SubSeq(path, 1, k)
  <2>1. Len(path) \in Nat /\ k \in Nat /\ k <= Len(path) /\ n \in Nat
    BY DEF Path
  <2>2. a \in Path /\ b \in Path /\ Len(a) = k /\ Len(b) = k
    BY <1>1, <2>1, SubSeqProperties DEF Path
  <2>3. ASSUME NEW i \in 1..k PROVE a[i] = b[i]
    <3>1. a[i] = p[i] /\ p[i] = path[i] /\ b[i] = path[i]
      BY <1>1, <2>1, SubSeqProperties DEF Path
    <3>. QED  BY <3>1
  <2>. HIDE DEF a, b
  <2>. QED  BY <2>2, <2>3, SeqEqual DEF Path
<1>. QED  BY <1>1, <1>2

\* The directories above a path are those it lies under, itself apart.
LEMMA AboveIsUnder ==
    ASSUME NEW path \in Path, NEW d \in Path
    PROVE  d \in Above(path) <=> Under(path, d) /\ path # d
<1>1. Len(path) \in Nat /\ Len(d) \in Nat
  BY DEF Path
<1>2. ASSUME d \in Above(path) PROVE Under(path, d) /\ path # d
  <2>1. PICK n \in 0..Len(path) - 1 : d = SubSeq(path, 1, n)
    BY <1>2 DEF Above
  <2>2. Len(d) = n /\ n \in 0..Len(path)
    BY <1>1, <2>1, Prefix
  <2>. QED  BY <1>1, <2>1, <2>2 DEF Under
<1>3. ASSUME Under(path, d), path # d PROVE d \in Above(path)
  <2>1. Len(d) <= Len(path) /\ SubSeq(path, 1, Len(d)) = d
    BY <1>3 DEF Under
  <2>2. SubSeq(path, 1, Len(path)) = path
    BY <1>1, SubSeqFull DEF Path
  <2>3. Len(d) \in 0..Len(path) - 1
    BY <1>1, <1>3, <2>1, <2>2
  <2>. QED  BY <2>1, <2>3 DEF Above
<1>. QED  BY <1>2, <1>3

\* The loop charges exactly the directories above the file that are wanted: it stops at the
\* root, and the way max_depth counts separators is Levels.
LEMMA ChargedAreWanted ==
    ASSUME NEW r \in [path : Path, depth : Nat], NEW path \in Path,
           Under(path, r.path), path # r.path
    PROVE  Charged(r, path) = {d \in Above(path) : Wanted(r, d)}
<1>. DEFINE k == Len(r.path)
            N == 0..Len(path)
            Dir(n) == SubSeq(path, 1, n)
            Deep(n) == Separators(Dir(n)) - Separators(r.path)
            Step(c, n) ==
                IF Deep(n) < 0 THEN {}
                ELSE (IF r.depth = 0 \/ Deep(n) <= r.depth THEN {Dir(n)} ELSE {})
                     \cup (IF Dir(n) = r.path \/ n = 0 THEN {} ELSE c[n - 1])
            climb == CHOOSE climb : climb = [n \in N |-> Step(climb, n)]
            Fits(m) == r.depth = 0 \/ m <= k + Levels(r)
            All(n) == IF k <= n THEN {Dir(m) : m \in {j \in k..n : Fits(j)}}
                      ELSE IF k = 1 THEN {<<>>} ELSE {}
            f == [n \in N |-> All(n)]
<1>1. /\ k \in Nat /\ Len(path) \in Nat /\ r.depth \in Nat /\ r.path \in Path
      /\ k < Len(path) /\ Dir(k) = r.path
  <2>1. k \in Nat /\ Len(path) \in Nat /\ r.depth \in Nat /\ r.path \in Path
    BY DEF Path
  <2>2. r.path \in Above(path)
    BY <2>1, AboveIsUnder
  <2>3. PICK n \in 0..Len(path) - 1 : r.path = Dir(n)
    BY <2>2 DEF Above
  <2>4. k = n
    BY <2>1, <2>3, Prefix
  <2>. QED  BY <2>1, <2>3, <2>4
<1>2. Charged(r, path) = climb[Len(path) - 1]
  BY DEF Charged
<1>3. ASSUME NEW n \in N
      PROVE  /\ Separators(Dir(n)) = (IF n = 0 THEN 1 ELSE n)
             /\ Separators(r.path) = (IF k = 0 THEN 1 ELSE k)
             /\ (Dir(n) = r.path) <=> (n = k)
             /\ (n = 0) => Dir(n) = <<>>
  <2>1. Dir(n) \in Path /\ Len(Dir(n)) = n
    BY Prefix
  <2>2. \A p \in Path : (p = <<>>) <=> (Len(p) = 0)
    BY EmptySeq DEF Path
  <2>. HIDE DEF Dir
  <2>. QED  BY <1>1, <2>1, <2>2 DEF Separators
<1>4. ASSUME NEW n \in N PROVE f[n] = Step(f, n)
  <2>. HIDE DEF Dir
  <2>1. CASE n < k
    <3>1. f[n] = (IF k = 1 THEN {<<>>} ELSE {})
      BY <1>1, <2>1
    <3>2. CASE k = 1
      <4>1. n = 0 /\ Deep(n) = 0 /\ Dir(n) = <<>>
        BY <1>1, <1>3, <2>1, <3>2
      <4>. QED  BY <1>1, <3>1, <3>2, <4>1
    <3>3. CASE k # 1
      <4>1. Deep(n) < 0
        BY <1>1, <1>3, <2>1, <3>3
      <4>. QED  BY <3>1, <3>3, <4>1
    <3>. QED  BY <3>2, <3>3
  <2>2. CASE n >= k
    <3>1. ~(Deep(n) < 0) /\ ((r.depth = 0 \/ Deep(n) <= r.depth) <=> Fits(n))
      <4>1. r.path = <<>> <=> k = 0
        BY <1>1, EmptySeq DEF Path
      <4>. QED  BY <1>1, <1>3, <2>2, <4>1 DEF Levels
    <3>2. f[n] = {Dir(m) : m \in {j \in k..n : Fits(j)}}
      BY <2>2
    <3>3. Step(f, n) = (IF Fits(n) THEN {Dir(n)} ELSE {})
                       \cup (IF n = k \/ n = 0 THEN {} ELSE f[n - 1])
      <4>. HIDE DEF f, Deep, Fits
      <4>. QED  BY <1>3, <3>1
    <3>4. CASE n = k
      <4>1. k..n = {n}
        BY <1>1, <3>4
      <4>2. {j \in k..n : Fits(j)} = (IF Fits(n) THEN {n} ELSE {})
        BY <4>1
      <4>. HIDE DEF f, Fits, Step, k
      <4>. QED  BY <3>2, <3>3, <3>4, <4>2
    <3>5. CASE n # k
      <4>1. k..n = (k..(n - 1)) \cup {n} /\ n # 0 /\ n - 1 \in N /\ k <= n - 1
        BY <1>1, <2>2, <3>5
      <4>2. f[n - 1] = {Dir(m) : m \in {j \in k..(n - 1) : Fits(j)}}
        BY <4>1
      <4>. HIDE DEF f, Fits
      <4>. QED  BY <3>2, <3>3, <3>5, <4>1, <4>2
    <3>. QED  BY <3>4, <3>5
  <2>. QED  BY <1>1, <2>1, <2>2
<1>5. climb = [n \in N |-> Step(climb, n)]
  <2>1. f = [n \in N |-> Step(f, n)]
    <3>1. f = [n \in N |-> f[n]]
      OBVIOUS
    <3>. HIDE DEF f, Step
    <3>. QED  BY <1>4, <3>1
  <2>2. \E g : g = [n \in N |-> Step(g, n)]
    BY <2>1
  <2>. QED  BY <2>2
<1>6. ASSUME NEW n \in N PROVE climb[n] = f[n]
  <2>. HIDE DEF climb, f
  <2>. DEFINE Bad == {m \in N : climb[m] # f[m]}
  <2>1. Bad = {} \/ \E m \in Bad : \A j \in Bad : ~(j < m)
    <3>. DEFINE R == OpToRel(<, Nat)
    <3>1. IsWellFoundedOn(R, Nat)
      BY NatLessThanWellFounded
    <3>2. Bad \subseteq Nat
      OBVIOUS
    <3>3. \A j, m \in Nat : j < m => <<j, m>> \in R
      BY DEF OpToRel
    <3>. HIDE DEF R, Bad
    <3>4. Bad # {} => \E m \in Bad : \A j \in Bad : ~(<<j, m>> \in R)
      BY <3>1, <3>2, WFMin
    <3>. QED  BY <3>2, <3>3, <3>4
  <2>2. ASSUME NEW m \in Bad, \A j \in Bad : ~(j < m) PROVE FALSE
    <3>1. m \in N /\ climb[m] = Step(climb, m) /\ f[m] = Step(f, m)
      BY <1>4, <1>5, <2>2
    <3>2. m = 0 \/ (m - 1 \in N /\ climb[m - 1] = f[m - 1])
      BY <1>1, <2>2
    <3>. HIDE DEF Deep, Dir
    <3>. QED  BY <2>2, <3>1, <3>2
  <2>. QED  BY <2>1, <2>2
<1>7. Charged(r, path) = {Dir(m) : m \in {j \in k..(Len(path) - 1) : Fits(j)}}
  <2>1. Len(path) - 1 \in N /\ k <= Len(path) - 1
    BY <1>1
  <2>. HIDE DEF climb
  <2>. QED  BY <1>2, <1>6, <2>1
<1>8. ASSUME NEW m \in 0..Len(path) - 1
      PROVE  Wanted(r, Dir(m)) <=> (k <= m /\ Fits(m))
  <2>1. Len(Dir(m)) = m /\ (k <= m => SubSeq(Dir(m), 1, k) = Dir(k))
    BY <1>1, Prefix
  <2>. HIDE DEF Dir
  <2>. QED  BY <1>1, <2>1 DEF Wanted, Under
<1>9. Above(path) = {Dir(m) : m \in 0..Len(path) - 1}
  BY DEF Above
<1>. HIDE DEF Dir, Fits, k, climb, f
<1>. QED  BY <1>1, <1>7, <1>8, <1>9
----------------------------------------------------------------------------
(* The totals.                                                             *)

\* The entries of a root that lie below a directory.
Beneath(entries, i, d) == {m \in entries : m.root = i /\ d \in Above(Files[m.file])}

\* DirectoriesAddUp, directory by directory.
Tallied(i, totals, entries) ==
    /\ \A k \in DOMAIN totals : k[1] = i => k = <<i, k[2]>>
    /\ \A d :
          /\ <<i, d>> \in DOMAIN totals
                <=> Wanted(Roots[i], d) /\ Beneath(entries, i, d) # {}
          /\ <<i, d>> \in DOMAIN totals
                => totals[<<i, d>>] = Bytes(Beneath(entries, i, d))

Tally == \A i \in DirectoryRoots : Tallied(i, sizes, met)

\* What is assumed of the constants, path by path.
LEMMA Trees ==
    /\ \A f \in 1..Len(Files) : Files[f] \in Path /\ Files[f] # <<>>
    /\ \A i \in 1..Len(Roots) : Roots[i] \in [path : Path, depth : Nat]
    /\ DirectoryRoots \subseteq 1..Len(Roots)
    /\ \A i \in DirectoryRoots, f \in 1..Len(Files) : Files[f] # Roots[i].path
<1>1. ASSUME NEW f \in 1..Len(Files) PROVE Files[f] \in Path /\ Files[f] # <<>>
  <2>1. Files[f] \in Seq(STRING) \ {<<>>}
    BY HostAssumption
  <2>. QED  BY <2>1 DEF Path
<1>2. ASSUME NEW i \in 1..Len(Roots) PROVE Roots[i] \in [path : Path, depth : Nat]
  <2>. DEFINE Root == [path : Path, depth : Nat]
  <2>1. Roots \in Seq(Root)
    BY HostAssumption DEF Path
  <2>. HIDE DEF Root
  <2>2. Roots[i] \in Root
    BY <2>1, ElementOfSeq
  <2>. QED  BY <2>2 DEF Root
<1>. QED  BY <1>1, <1>2 DEF DirectoryRoots

\* A file that is met adds its size to the directories wanted above it, and to no other.
LEMMA MeetTally == ASSUME HeapInv, Tally, Meet PROVE Tally'
<1>. DEFINE e == [root |-> root, file |-> at, size |-> disk[at]]
            path == Files[at]
            dirs == Charged(Roots[root], path)
<1>1. /\ e \in Entry /\ e \notin met /\ met \subseteq Entry /\ IsFiniteSet(met)
      /\ root \in 1..Len(Roots) /\ at \in 1..Len(Files) /\ disk[at] \in Nat
  BY MetAnew DEF HeapInv
<1>2. met' = met \cup {e} /\ sizes' = Added(sizes, {root} \X dirs, disk[at])
  BY DEF Meet
<1>3. \A k : k \in DOMAIN sizes' <=> k \in DOMAIN sizes \/ k \in {root} \X dirs
  BY <1>2 DEF Added
<1>4. \A k \in DOMAIN sizes' :
         sizes'[k] = (IF k \in DOMAIN sizes THEN sizes[k] ELSE 0)
                     + (IF k \in {root} \X dirs THEN disk[at] ELSE 0)
  BY <1>2 DEF Added
<1>5. \A k \in DOMAIN sizes : sizes[k] \in Nat
  BY DEF HeapInv, HostTypeOK
<1>. SUFFICES ASSUME NEW i \in DirectoryRoots PROVE Tallied(i, sizes', met')
  BY DEF Tally
<1>6. ASSUME NEW k \in DOMAIN sizes', k[1] = i PROVE k = <<i, k[2]>>
  BY <1>3, <1>6 DEF Tally, Tallied
<1>7. ASSUME NEW d
      PROVE  /\ <<i, d>> \in DOMAIN sizes'
                   <=> Wanted(Roots[i], d) /\ Beneath(met', i, d) # {}
             /\ <<i, d>> \in DOMAIN sizes'
                   => sizes'[<<i, d>>] = Bytes(Beneath(met', i, d))
  <2>. DEFINE key == <<i, d>>
              old == Beneath(met, i, d)
  <2>1. /\ key \in DOMAIN sizes <=> Wanted(Roots[i], d) /\ old # {}
        /\ key \in DOMAIN sizes => sizes[key] = Bytes(old)
    BY DEF Tally, Tallied
  <2>2. key \in {root} \X dirs <=> i = root /\ d \in Above(path) /\ Wanted(Roots[i], d)
    <3>1. CASE i # root
      BY <3>1
    <3>2. CASE i = root
      <4>1. dirs = {c \in Above(path) : Wanted(Roots[i], c)}
        BY <1>1, <3>2, Trees, ChargedAreWanted DEF Meet, Reaches
      <4>. QED  BY <3>2, <4>1
    <3>. QED  BY <3>1, <3>2
  <2>3. CASE i = root /\ d \in Above(path)
    <3>1. Beneath(met', i, d) = old \cup {e} /\ e \notin old
      BY <1>1, <1>2, <2>3 DEF Beneath
    <3>2. IsFiniteSet(old) /\ \A m \in old : m.size \in Nat
      BY <1>1, FS_Subset DEF Beneath, Entry
    <3>3. Bytes(old \cup {e}) = Bytes(old) + disk[at] /\ Bytes(old) \in Nat
      <4>1. e.size = disk[at]
        OBVIOUS
      <4>. HIDE DEF e, old
      <4>. QED  BY <1>1, <3>1, <3>2, <4>1, BytesOfOneMore
    <3>4. old = {} => Bytes(old) = 0
      BY BytesOfNone
    <3>5. key \in DOMAIN sizes' <=> Wanted(Roots[i], d)
      BY <1>3, <2>1, <2>2, <2>3
    <3>6. ASSUME key \in DOMAIN sizes' PROVE sizes'[key] = Bytes(old) + disk[at]
      <4>1. sizes'[key] = (IF key \in DOMAIN sizes THEN sizes[key] ELSE 0) + disk[at]
        BY <1>4, <2>2, <2>3, <3>5, <3>6
      <4>2. (IF key \in DOMAIN sizes THEN sizes[key] ELSE 0) = Bytes(old)
        BY <2>1, <3>4, <3>5, <3>6
      <4>. QED  BY <4>1, <4>2
    <3>. QED  BY <3>1, <3>3, <3>5, <3>6
  <2>4. CASE ~(i = root /\ d \in Above(path))
    <3>1. Beneath(met', i, d) = old
      BY <1>2, <2>4 DEF Beneath
    <3>2. key \in DOMAIN sizes' <=> key \in DOMAIN sizes
      BY <1>3, <2>2, <2>4
    <3>3. key \in DOMAIN sizes' => sizes'[key] = sizes[key]
      BY <1>4, <1>5, <2>2, <2>4, <3>2
    <3>. QED  BY <2>1, <3>1, <3>2, <3>3
  <2>. QED  BY <2>3, <2>4
<1>. QED  BY <1>6, <1>7 DEF Tallied

\* A scan's totals begin empty.
LEMMA EmptyTally == ASSUME sizes = NoSizes, met = {} PROVE Tally
BY DEF NoSizes, Tally, Tallied, Beneath

\* Every other step leaves the totals and what was met alone, or forgets both.
LEMMA NextTally == ASSUME HeapInv, Tally, [HostNext]_hostVars PROVE Tally'
<1>1. CASE Meet
  BY <1>1, MeetTally
<1>2. CASE EndWalk
  BY <1>2 DEF EndWalk, NoSizes, Tally, Tallied, Beneath
<1>3. CASE UNCHANGED <<sizes, met>>
  BY <1>3 DEF Tally, Tallied
<1>. QED  BY <1>1, <1>2, <1>3
          DEF HostNext, BeginWalk, Write, PassOver, NextRoot, hostVars

\* Directory by directory or root by root, it is the same promise.
LEMMA TallyAddsUp == ASSUME HeapInv, Tally PROVE DirectoriesAddUp
<1>. SUFFICES ASSUME NEW i \in DirectoryRoots
              PROVE  LET r     == Roots[i]
                         In(d) == {m \in met : m.root = i /\ Under(Files[m.file], d)
                                                         /\ Files[m.file] # d}
                         Due   == {d \in UNION {Above(Files[m.file]) : m \in met} :
                                     /\ Under(d, r.path)
                                     /\ r.depth = 0 \/ Len(d) <= Len(r.path) + Levels(r)
                                     /\ In(d) # {}}
                     IN  /\ {k \in DOMAIN sizes : k[1] = i} = {i} \X Due
                         /\ \A d \in Due : sizes[<<i, d>>] = Bytes(In(d))
  BY DEF DirectoriesAddUp
<1>. DEFINE r     == Roots[i]
            In(d) == {m \in met : m.root = i /\ Under(Files[m.file], d) /\ Files[m.file] # d}
            All   == UNION {Above(Files[m.file]) : m \in met}
            Due   == {d \in All :
                        /\ Under(d, r.path)
                        /\ r.depth = 0 \/ Len(d) <= Len(r.path) + Levels(r)
                        /\ In(d) # {}}
<1>1. \A m \in met : Files[m.file] \in Path /\ Files[m.file] # <<>>
  BY Trees DEF HeapInv, HostTypeOK, Entry
<1>2. ASSUME NEW d \in All PROVE In(d) = Beneath(met, i, d)
  <2>1. PICK m \in met : d \in Above(Files[m.file])
    OBVIOUS
  <2>2. d \in Path
    <3>1. PICK n \in 0..Len(Files[m.file]) - 1 : d = SubSeq(Files[m.file], 1, n)
      BY <2>1 DEF Above
    <3>2. n \in 0..Len(Files[m.file])
      BY <1>1, <2>1 DEF Path
    <3>. QED  BY <1>1, <2>1, <3>1, <3>2, Prefix
  <2>. QED  BY <1>1, <2>2, AboveIsUnder DEF Beneath
<1>3. \A d : Beneath(met, i, d) # {} => d \in All
  BY DEF Beneath
<1>4. \A d : d \in Due <=> <<i, d>> \in DOMAIN sizes
  BY <1>2, <1>3 DEF Tally, Tallied, Wanted
<1>5. \A d \in Due : sizes[<<i, d>>] = Bytes(In(d))
  <2>1. \A d \in Due : sizes[<<i, d>>] = Bytes(Beneath(met, i, d))
    BY <1>4 DEF Tally, Tallied
  <2>2. \A d \in Due : d \in All
    OBVIOUS
  <2>. HIDE DEF Due, In, All
  <2>3. \A d \in Due : In(d) = Beneath(met, i, d)
    BY <1>2, <2>2
  <2>. QED  BY <2>1, <2>3
<1>6. {k \in DOMAIN sizes : k[1] = i} = {i} \X Due
  <2>1. \A k \in DOMAIN sizes : k[1] = i => k = <<i, k[2]>>
    BY DEF Tally, Tallied
  <2>. HIDE DEF Due
  <2>. QED  BY <1>4, <2>1
<1>. QED  BY <1>5, <1>6

LEMMA TallyInvariant == HostSpec => [](HeapInv /\ Tally)
<1>1. HostInit => HeapInv /\ Tally
  BY InitHeap, EmptyTally DEF HostInit
<1>2. HeapInv /\ Tally /\ [HostNext]_hostVars => HeapInv' /\ Tally'
  BY NextHeap, NextTally
<1>. QED  BY <1>1, <1>2, PTL DEF HostSpec

\* "One sample per directory up to MaxDepth": for any tree, any roots that are directories,
\* overlapping or not, and any limits, each sample that walkPath would return at any moment
\* is the sum of the files met below its directory, and no directory due is left out.
THEOREM DirectoriesSum == HostSpec => []DirectoriesAddUp
<1>1. HeapInv /\ Tally => DirectoriesAddUp
  BY TallyAddsUp
<1>. QED  BY <1>1, TallyInvariant, PTL

----------------------------------------------------------------------------
\* A pass is a walk of the host, interrupted by what the other part does.
THEOREM PassWalksHost == PassSpec => HostSpec
<1>1. PassInit => HostInit
  BY DEF PassInit
<1>2. [PassNext]_passVars => [HostNext]_hostVars
  BY DEF PassNext, HostStep, HostReturns, DockerStep, DockerReturns, HostNext, passVars
<1>. QED  BY <1>1, <1>2, PTL DEF PassSpec, HostSpec

\* And a scan of the daemon.
THEOREM PassScansDocker == PassSpec => Spec
<1>1. PassInit => Init
  BY DEF PassInit
<1>2. [PassNext]_passVars => [Next]_vars
  BY DEF PassNext, HostStep, HostReturns, DockerStep, DockerReturns, Next, passVars
<1>. QED  BY <1>1, <1>2, PTL DEF PassSpec, Spec

\* The state of a pass keeps its shape.
THEOREM PassTypeCorrect == PassSpec => []PassTypeOK
<1>1. PassInit => turn \in {"host", "docker"}
  BY DEF PassInit
<1>2. turn \in {"host", "docker"} /\ [PassNext]_passVars => (turn \in {"host", "docker"})'
  BY DEF PassNext, HostStep, HostReturns, DockerStep, DockerReturns, passVars
<1>3. turn \in {"host", "docker"} /\ HostTypeOK /\ TypeOK => PassTypeOK
  BY DEF PassTypeOK
<1>. QED  BY <1>1, <1>2, <1>3, PassWalksHost, PassScansDocker, HostTypeCorrect, TypeCorrect, PTL
          DEF PassSpec

\* What the parts promise of their samples holds in every state of a pass: directories add
\* up, the biggest files are kept, an orphan was unused, and a volume in use was mounted.
THEOREM PassKeepsPromises ==
    PassSpec => /\ []DirectoriesAddUp
                /\ []BiggestFilesAreKept
                /\ []OrphansWereUnused
                /\ []UsedWereMounted
BY PassWalksHost, PassScansDocker, DirectoriesSum, BiggestAreKept, OrphansSound, UsedSound, PTL
=============================================================================
