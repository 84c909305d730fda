---------------------------- MODULE ReviewProofs ----------------------------
(***************************************************************************)
(* The AI review, for any number of reviews, any items and sizes, and any  *)
(* windows.  The table has one row per item and scan and none of the       *)
(* future (TableInv); from this the growth query means what it should      *)
(* wherever both moments were measured.  The verdicts are followed from    *)
(* the queries through the LLM to the findings table and the alerts        *)
(* (VerdictInv).  Digests run beside the reviews and leave them as they    *)
(* are, so that all of it holds of the two together (DigestSpec).          *)
(***************************************************************************)
EXTENDS Digest, WellFoundedInduction, TLAPS

(* Types. *)

LEMMA InitType == ASSUME Init PROVE TypeOK
BY DEF Init, TypeOK

LEMMA AnswerType ==
    ASSUME NEW r \in Reviewers, TypeOK, Answered(r)
    PROVE  out' \in [Reviewers -> SUBSET Verdict]
<1>1. PICK answer \in Answers :
         out' = [out EXCEPT ![r] = {[item |-> v[1], severity |-> Clamped(v[2]), at |-> clock] :
                                       v \in {w \in answer : w[1] \in allow[r]}}]
  BY DEF Answered
<1>2. \A v \in answer : v[1] \in Items
  BY DEF Answers
<1>3. \A v \in answer : Clamped(v[2]) \in Severities
  BY DEF Clamped, Severities
<1>4. {[item |-> v[1], severity |-> Clamped(v[2]), at |-> clock] :
          v \in {w \in answer : w[1] \in allow[r]}} \subseteq Verdict
  BY <1>2, <1>3 DEF Verdict, TypeOK
<1>. QED  BY <1>1, <1>4 DEF TypeOK

LEMMA ReviewType == ASSUME TypeOK, NEW r \in Reviewers, RunReview(r) PROVE TypeOK'
<1>. USE DEF Goto, Leave
<1>1. CASE Begin(r)
  BY <1>1 DEF Begin, TypeOK
<1>2. CASE QueryGrowth(r)
  <2>1. PICK rows \in GrowthSince(began[r] - Lookback) \cup {{}} :
           allow' = [allow EXCEPT ![r] = {g.item : g \in rows}]
    BY <1>2 DEF QueryGrowth
  <2>2. {g.item : g \in rows} \subseteq Items
    BY DEF GrowthSince, Growth
  <2>. QED  BY <1>2, <2>1, <2>2 DEF QueryGrowth, TypeOK
<1>3. CASE QueryAnomalies(r)
  <2>1. PICK is \in BaselineAnomalies(clock) \cup {{}} :
           allow' = [allow EXCEPT ![r] = @ \cup is]
    BY <1>3 DEF QueryAnomalies
  <2>2. is \subseteq Items
    BY DEF BaselineAnomalies
  <2>. QED  BY <1>3, <2>1, <2>2 DEF QueryAnomalies, TypeOK
<1>4. CASE NothingToAsk(r)
  BY <1>4 DEF NothingToAsk, TypeOK
<1>5. CASE Answered(r)
  BY <1>5, AnswerType DEF Answered, TypeOK
<1>6. CASE AnswerFails(r)
  BY <1>6 DEF AnswerFails, TypeOK
<1>7. CASE Persist(r)
  BY <1>7 DEF Persist, TypeOK
<1>8. CASE SendAlert(r)
  BY <1>8 DEF SendAlert, TypeOK
<1>9. CASE Return(r)
  BY <1>9 DEF Return, TypeOK
<1>. QED  BY <1>1, <1>2, <1>3, <1>4, <1>5, <1>6, <1>7, <1>8, <1>9 DEF RunReview

\* The rows of one scan.
LEMMA ScanRows ==
    ASSUME TypeOK, NEW found \in SUBSET Items, NEW size \in [found -> Sizes]
    PROVE  {[item |-> i, bytes |-> size[i], taken |-> clock] : i \in found} \subseteq Row
BY DEF TypeOK, Row

LEMMA NextType == ASSUME TypeOK, [Next]_vars PROVE TypeOK'
<1>1. CASE Tick
  BY <1>1 DEF Tick, TypeOK, tables, locals, history
<1>2. CASE Scan
  <2>1. samples' \subseteq Row
    BY <1>2, ScanRows DEF Scan, TypeOK
  <2>2. measured' \subseteq Items \X Nat /\ findings' \subseteq Verdict
    BY <1>2 DEF Scan, TypeOK
  <2>. QED  BY <1>2, <2>1, <2>2 DEF Scan, TypeOK, locals
<1>3. CASE Crash
  BY <1>3 DEF Crash, TypeOK, tables, history
<1>4. CASE Spent \/ UNCHANGED vars
  BY <1>4 DEF Spent, vars, TypeOK, tables, locals, history
<1>. QED  BY <1>1, <1>2, <1>3, <1>4, ReviewType DEF Next

\* Every variable keeps its type; above all, a stored or sent verdict has one of the
\* known severities, whatever the LLM wrote.
THEOREM TypeCorrect == Spec => []TypeOK
BY InitType, NextType, PTL DEF Spec

----------------------------------------------------------------------------
(* The table and the queries.                                              *)

TableInv ==
    /\ TypeOK
    /\ \A s \in samples : s.taken <= clock
    /\ \A s, t \in samples : s.item = t.item /\ s.taken = t.taken => s = t

LEMMA TableInit == ASSUME Init PROVE TableInv
BY InitType DEF Init, TableInv

LEMMA TableNext == ASSUME TableInv, [Next]_vars PROVE TableInv'
<1>1. TypeOK /\ TypeOK'
  BY NextType DEF TableInv
<1>2. CASE Tick
  <2>1. clock' = clock + 1 /\ samples' = samples
    BY <1>2 DEF Tick, tables
  <2>2. \A s \in samples : s.taken \in Nat
    BY <1>1 DEF TypeOK, Row
  <2>. QED  BY <1>1, <2>1, <2>2 DEF TableInv, TypeOK
<1>3. CASE Scan
  <2>1. PICK found \in SUBSET Items : \E size \in [found -> Sizes] :
           samples' \subseteq samples \cup
               {[item |-> i, bytes |-> size[i], taken |-> clock] : i \in found}
    BY <1>3 DEF Scan
  <2>2. PICK size \in [found -> Sizes] :
           samples' \subseteq samples \cup
               {[item |-> i, bytes |-> size[i], taken |-> clock] : i \in found}
    BY <2>1
  <2>3. clock' = clock /\ \A s \in samples : s.taken # clock
    BY <1>3 DEF Scan
  <2>4. clock <= clock
    BY <1>1 DEF TypeOK
  <2>5. \A s \in samples' : \/ s \in samples
                           \/ s = [item |-> s.item, bytes |-> size[s.item], taken |-> clock]
    BY <2>2
  <2>6. \A s \in samples' : s \in samples \/ s.taken = clock
    BY <2>5
  <2>7. \A s \in samples' : s.taken <= clock'
    BY <2>3, <2>4, <2>6 DEF TableInv
  <2>8. ASSUME NEW s \in samples', NEW t \in samples', s.item = t.item, s.taken = t.taken
        PROVE  s = t
    <3>1. CASE s \in samples /\ t \in samples
      BY <2>8, <3>1 DEF TableInv
    <3>2. CASE s \notin samples /\ t \notin samples
      BY <2>5, <2>8, <3>2
    <3>3. CASE ~(s \in samples <=> t \in samples)
      BY <2>3, <2>6, <2>8, <3>3, <2>5
    <3>. QED  BY <3>1, <3>2, <3>3
  <2>. QED  BY <1>1, <2>7, <2>8 DEF TableInv
<1>4. CASE \/ Crash \/ Spent \/ UNCHANGED vars \/ \E r \in Reviewers : RunReview(r)
  <2>1. UNCHANGED <<clock, samples>>
    BY <1>4 DEF Crash, Spent, vars, tables, RunReview, Begin, QueryGrowth, QueryAnomalies,
       NothingToAsk, Answered, AnswerFails, Persist, SendAlert, Return, Goto
  <2>. QED  BY <1>1, <2>1 DEF TableInv
<1>. QED  BY <1>2, <1>3, <1>4 DEF Next

LEMMA TableInvariant == Spec => []TableInv
BY TableInit, TableNext, PTL DEF Spec

\* Of some rows one is newest: none lies in the future.
LEMMA NewestIsThere ==
    ASSUME TableInv, NEW rows, rows \subseteq samples, rows # {}
    PROVE  \E s \in rows : \A t \in rows : t.taken <= s.taken
<1>. DEFINE T == {clock - s.taken : s \in rows}
            R == OpToRel(<, Nat)
<1>1. /\ clock \in Nat
      /\ \A s \in rows : s.taken \in Nat /\ s.taken <= clock
  BY DEF TableInv, TypeOK, Row
<1>2. T \subseteq Nat /\ T # {}
  BY <1>1
<1>3. IsWellFoundedOn(R, Nat)
  BY NatLessThanWellFounded
<1>4. \A x, y \in Nat : y < x => <<y, x>> \in R
  BY DEF OpToRel
<1>. HIDE DEF R, T
<1>5. PICK x \in T : \A y \in T : ~(<<y, x>> \in R)
  BY <1>2, <1>3, WFMin
<1>6. PICK s \in rows : x = clock - s.taken
  BY <1>5 DEF T
<1>7. ASSUME NEW t \in rows PROVE t.taken <= s.taken
  <2>1. clock - t.taken \in T
    BY DEF T
  <2>2. x \in Nat /\ clock - t.taken \in Nat
    BY <1>2, <1>5, <2>1
  <2>3. ~(clock - t.taken < x)
    BY <1>4, <1>5, <2>1, <2>2
  <2>. QED  BY <1>1, <1>6, <2>2, <2>3
<1>. QED  BY <1>7

\* Of rows of one item, the newest is the one measured now, and the oldest the one
\* measured at the start.
LEMMA Ends ==
    ASSUME TableInv, NEW i \in Items, NEW from \in Int, from <= clock,
           NEW new \in At(i, clock)
    PROVE  /\ new \in History(i, from)
           /\ Newest(History(i, from)) = new
           /\ \A old \in At(i, from) : Oldest(History(i, from)) = old
<1>1. /\ new \in samples /\ new.item = i /\ new.taken = clock /\ clock \in Nat
      /\ \A s \in samples : s.taken \in Nat /\ s.taken <= clock
  BY DEF At, TableInv, TypeOK, Row
<1>2. new \in History(i, from)
  BY <1>1 DEF History
<1>3. \A s \in History(i, from) : s \in samples /\ s.item = i /\ s.taken >= from
  BY DEF History
<1>4. Newest(History(i, from)) = new
  <2>1. \A t \in History(i, from) : t.taken <= new.taken
    BY <1>1, <1>3
  <2>2. \A s \in History(i, from) : (\A t \in History(i, from) : t.taken <= s.taken) => s = new
    BY <1>1, <1>2, <1>3 DEF TableInv
  <2>. QED  BY <1>2, <2>1, <2>2 DEF Newest
<1>5. ASSUME NEW old \in At(i, from) PROVE Oldest(History(i, from)) = old
  <2>1. old \in samples /\ old.item = i /\ old.taken = from /\ old \in History(i, from)
    BY DEF At, History
  <2>2. \A t \in History(i, from) : old.taken <= t.taken
    BY <1>1, <1>3, <2>1
  <2>3. \A s \in History(i, from) : (\A t \in History(i, from) : s.taken <= t.taken) => s = old
    BY <1>1, <1>3, <2>1 DEF TableInv
  <2>. QED  BY <2>1, <2>2, <2>3 DEF Oldest
<1>. QED  BY <1>2, <1>4, <1>5

LEMMA ExactGrowth == ASSUME TableInv PROVE GrowthIsExact
<1>1. SUFFICES ASSUME NEW i \in Items, NEW new \in At(i, clock),
                      NEW old \in At(i, clock - Lookback)
               PROVE  {g \in Growth(clock - Lookback) : g.item = i}
                        = {[item |-> i, delta |-> new.bytes - old.bytes]}
  BY DEF GrowthIsExact
<1>. DEFINE since == clock - Lookback
<1>2. since \in Int /\ since <= clock
  BY ReviewAssumption DEF TableInv, TypeOK
<1>. HIDE DEF since
<1>3. /\ new \in History(i, since)
      /\ Newest(History(i, since)) = new
      /\ Oldest(History(i, since)) = old
  BY <1>2, Ends DEF since
<1>. QED  BY <1>3 DEF Growth, since

\* The growth query is exact wherever both ends were measured.
THEOREM GrowthExact == Spec => []GrowthIsExact
BY TableInvariant, ExactGrowth, PTL

----------------------------------------------------------------------------
(* From the queries to the alerts.                                         *)

\* A scan measured the item not longer before t than a query reaches.
Seen(i, t) == \E m \in measured : m[1] = i /\ m[2] + Reach >= t

\* The findings table explains a verdict, or cannot any more.
Explained(f) == f \in findings \/ f \in unsaved \/ ~Kept(f.at)

VerdictInv ==
    /\ TypeOK
    /\ \A s \in samples : <<s.item, s.taken>> \in measured
    /\ \A r \in Reviewers :
         /\ Working(r) => began[r] <= clock /\ clock <= began[r] + MaxStall
         /\ pc[r] \in {"anomalies", "asking"} => \A i \in allow[r] : Seen(i, began[r])
         /\ pc[r] \in {"persist", "sending"} => \A f \in out[r] : Seen(f.item, f.at - MaxStall)
         /\ pc[r] = "sending" => \A f \in out[r] : Explained(f)
    /\ \A f \in findings : Seen(f.item, f.at - MaxStall)
    /\ \A f \in sent : Explained(f)

LEMMA VerdictInit == ASSUME Init PROVE VerdictInv
BY InitType DEF Init, VerdictInv, Working

LEMMA ReachInt == /\ Reach \in Nat /\ Lookback <= Reach /\ Day + BaselineDays * Day <= Reach
                  /\ Lookback \in Nat /\ MaxStall \in Nat /\ Day + BaselineDays * Day \in Nat
<1>1. /\ Lookback \in Nat /\ MaxStall \in Nat /\ Day + BaselineDays * Day \in Nat
  BY ReviewAssumption
<1>. QED  BY <1>1 DEF Reach

\* What a query finds was measured within its reach.
LEMMA GrowthSeen ==
    ASSUME VerdictInv, NEW t \in Nat, NEW g \in Growth(t - Lookback)
    PROVE  Seen(g.item, t)
<1>1. PICK s \in samples : s.item = g.item /\ s.taken >= t - Lookback
  <2>1. PICK i \in Items : History(i, t - Lookback) # {} /\ g.item = i
    BY DEF Growth
  <2>. QED  BY <2>1 DEF History
<1>2. <<s.item, s.taken>> \in measured /\ s.taken \in Nat
  BY DEF VerdictInv, TypeOK, Row
<1>3. s.taken + Reach >= t
  BY <1>1, <1>2, ReachInt
<1>. QED  BY <1>1, <1>2, <1>3 DEF Seen

LEMMA AnomalySeen ==
    ASSUME VerdictInv, NEW i \in Items, TRUE \in Verdicts(i, clock), NEW t \in Nat, t <= clock
    PROVE  Seen(i, t)
<1>1. PICK s \in samples : s.item = i /\ s.taken >= BaseStart(clock)
  <2>1. History(i, BaseStart(clock)) = {} => Verdicts(i, clock) = {}
    BY DEF Verdicts
  <2>. QED  BY <2>1 DEF History
<1>2. <<s.item, s.taken>> \in measured /\ s.taken \in Nat /\ clock \in Nat
  BY DEF VerdictInv, TypeOK, Row
<1>3. /\ BaseStart(clock) = clock - (Day + BaselineDays * Day)
  BY <1>2, ReviewAssumption DEF BaseStart, LastDay
<1>. DEFINE window == Day + BaselineDays * Day
<1>4. window \in Nat /\ window <= Reach /\ Reach \in Nat
  BY ReachInt
<1>5. s.taken >= clock - window
  BY <1>1, <1>3
<1>. HIDE DEF window
<1>6. s.taken + Reach >= t
  BY <1>2, <1>4, <1>5
<1>. QED  BY <1>1, <1>2, <1>6 DEF Seen

\* A finding that was explained stays so.
LEMMA ExplainedStays ==
    ASSUME TypeOK, clock' \in Nat, clock' >= clock, unsaved \subseteq unsaved',
           \A f \in findings : f \in findings' \/ ~Kept(f.at)',
           NEW f \in Verdict, Explained(f)
    PROVE  Explained(f)'
<1>1. clock \in Nat /\ Retention \in Nat /\ f.at \in Nat
  BY ReviewAssumption DEF TypeOK, Verdict
<1>2. ~Kept(f.at) => ~Kept(f.at)'
  BY <1>1 DEF Kept
<1>. QED  BY <1>2 DEF Explained

LEMMA ReviewVerdicts ==
    ASSUME VerdictInv, TypeOK', NEW r \in Reviewers, RunReview(r)
    PROVE  VerdictInv'
<1>. USE DEF Goto, Leave
<1>1. /\ clock' = clock /\ samples' = samples /\ measured' = measured /\ clock \in Nat
      /\ findings \subseteq findings' /\ unsaved \subseteq unsaved'
      /\ pc \in [Reviewers -> {"idle", "killed", "growth", "anomalies", "asking", "persist", "sending"}]
      /\ \A q \in Reviewers \ {r} : /\ pc'[q] = pc[q] /\ began'[q] = began[q]
                                    /\ allow'[q] = allow[q] /\ out'[q] = out[q]
  BY DEF RunReview, Begin, QueryGrowth, QueryAnomalies, NothingToAsk, Answered, AnswerFails,
     Persist, SendAlert, Return, VerdictInv, TypeOK
<1>2. \A i, t : Seen(i, t) => Seen(i, t)'
  BY <1>1 DEF Seen
<1>3. \A f : Explained(f) => Explained(f)'
  BY <1>1 DEF Explained, Kept
<1>4. \A s \in samples' : <<s.item, s.taken>> \in measured'
  BY <1>1 DEF VerdictInv
<1>5. ASSUME NEW q \in Reviewers
      PROVE  Working(q)' => began'[q] <= clock' /\ clock' <= began'[q] + MaxStall
  <2>1. CASE Begin(r)
    BY <1>1, <2>1, ReachInt DEF Begin, VerdictInv, TypeOK, Working
  <2>2. CASE ~Begin(r)
    <3>1. Working(q)' => Working(q) /\ began'[q] = began[q]
      BY <1>1, <2>2 DEF RunReview, QueryGrowth, QueryAnomalies, NothingToAsk, Answered,
         AnswerFails, Persist, SendAlert, Return, Working
    <3>. QED  BY <1>1, <3>1 DEF VerdictInv
  <2>. QED  BY <2>1, <2>2
<1>6. pc'[r] \in {"anomalies", "asking"} => \A i \in allow'[r] : Seen(i, began[r]) /\ began'[r] = began[r]
  <2>1. CASE QueryGrowth(r)
    <3>1. PICK rows \in GrowthSince(began[r] - Lookback) \cup {{}} :
             allow' = [allow EXCEPT ![r] = {g.item : g \in rows}]
      BY <2>1 DEF QueryGrowth
    <3>2. rows \subseteq Growth(began[r] - Lookback)
      BY DEF GrowthSince
    <3>3. began[r] \in Nat /\ allow'[r] = {g.item : g \in rows}
      BY <3>1 DEF VerdictInv, TypeOK
    <3>. QED  BY <2>1, <3>2, <3>3, GrowthSeen DEF QueryGrowth
  <2>2. CASE QueryAnomalies(r)
    <3>1. PICK is \in BaselineAnomalies(clock) \cup {{}} :
             allow' = [allow EXCEPT ![r] = @ \cup is]
      BY <2>2 DEF QueryAnomalies
    <3>2. \A i \in is : i \in Items /\ TRUE \in Verdicts(i, clock)
      BY DEF BaselineAnomalies
    <3>3. pc[r] = "anomalies" /\ began' = began
      BY <2>2 DEF QueryAnomalies
    <3>4. began[r] \in Nat /\ began[r] <= clock /\ allow'[r] = allow[r] \cup is
      BY <3>1, <3>3 DEF VerdictInv, TypeOK, Working
    <3>5. \A i \in is : Seen(i, began[r])
      BY <3>2, <3>4, AnomalySeen
    <3>6. \A i \in allow[r] : Seen(i, began[r])
      BY <3>3 DEF VerdictInv
    <3>. QED  BY <3>3, <3>4, <3>5, <3>6
  <2>3. CASE ~QueryGrowth(r) /\ ~QueryAnomalies(r)
    <3>1. pc'[r] \notin {"anomalies", "asking"}
      BY <1>1, <2>3 DEF RunReview, Begin, NothingToAsk, Answered, AnswerFails, Persist,
         SendAlert, Return
    <3>. QED  BY <3>1
  <2>. QED  BY <2>1, <2>2, <2>3
<1>7. pc'[r] \in {"persist", "sending"} => \A f \in out'[r] : Seen(f.item, f.at - MaxStall)
  <2>1. CASE Answered(r)
    <3>1. PICK answer \in Answers :
             out' = [out EXCEPT ![r] = {[item |-> v[1], severity |-> Clamped(v[2]), at |-> clock] :
                                           v \in {w \in answer : w[1] \in allow[r]}}]
      BY <2>1 DEF Answered
    <3>2. \A f \in out'[r] : f.item \in allow[r] /\ f.at = clock
      BY <3>1 DEF VerdictInv, TypeOK
    <3>3. pc[r] = "asking"
      BY <2>1 DEF Answered
    <3>4. \A i \in allow[r] : Seen(i, began[r])
      BY <3>3 DEF VerdictInv
    <3>5. clock - MaxStall <= began[r] /\ began[r] \in Nat
      BY <1>1, <3>3, ReachInt DEF VerdictInv, TypeOK, Working
    <3>6. \A i \in allow[r] : Seen(i, clock - MaxStall)
      BY <1>1, <3>4, <3>5, ReachInt DEF Seen, VerdictInv, TypeOK
    <3>. QED  BY <3>2, <3>6
  <2>2. CASE ~Answered(r)
    <3>1. pc'[r] \in {"persist", "sending"} => pc[r] \in {"persist", "sending"} /\ out'[r] \subseteq out[r]
      BY <1>1, <2>2 DEF RunReview, Begin, QueryGrowth, QueryAnomalies, NothingToAsk,
         AnswerFails, Persist, SendAlert, Return, VerdictInv, TypeOK
    <3>. QED  BY <3>1 DEF VerdictInv
  <2>. QED  BY <2>1, <2>2
<1>8. pc'[r] = "sending" => \A f \in out'[r] : Explained(f)'
  <2>1. CASE Persist(r)
    BY <2>1 DEF Persist, Explained
  <2>2. CASE ~Persist(r)
    <3>1. pc'[r] = "sending" => pc[r] = "sending" /\ out'[r] \subseteq out[r]
      BY <1>1, <2>2 DEF RunReview, Begin, QueryGrowth, QueryAnomalies, NothingToAsk,
         Answered, AnswerFails, SendAlert, Return, VerdictInv, TypeOK
    <3>. QED  BY <1>3, <3>1 DEF VerdictInv
  <2>. QED  BY <2>1, <2>2
<1>9. \A f \in findings' : Seen(f.item, f.at - MaxStall)
  <2>1. \A f \in findings' : f \in findings \/ (pc[r] = "persist" /\ f \in out[r])
    BY DEF RunReview, Begin, QueryGrowth, QueryAnomalies, NothingToAsk, Answered,
       AnswerFails, Persist, SendAlert, Return
  <2>. QED  BY <2>1 DEF VerdictInv
<1>10. \A f \in sent' : Explained(f)
  <2>1. \A f \in sent' : f \in sent \/ (pc[r] = "sending" /\ f \in out[r])
    BY DEF RunReview, Begin, QueryGrowth, QueryAnomalies, NothingToAsk, Answered,
       AnswerFails, Persist, SendAlert, Return
  <2>. QED  BY <2>1 DEF VerdictInv
<1>11. ASSUME NEW q \in Reviewers
       PROVE  (/\ pc[q] \in {"anomalies", "asking"} => \A i \in allow[q] : Seen(i, began[q])
               /\ pc[q] \in {"persist", "sending"} =>
                    \A f \in out[q] : Seen(f.item, f.at - MaxStall)
               /\ pc[q] = "sending" => \A f \in out[q] : Explained(f))'
  <2>1. CASE q = r
    BY <1>2, <1>6, <1>7, <1>8, <2>1
  <2>2. CASE q # r
    BY <1>1, <1>2, <1>3, <2>2 DEF VerdictInv
  <2>. QED  BY <2>1, <2>2
<1>. QED  BY <1>2, <1>3, <1>4, <1>5, <1>9, <1>10, <1>11 DEF VerdictInv

LEMMA VerdictNext == ASSUME VerdictInv, [Next]_vars PROVE VerdictInv'
<1>1. TypeOK /\ TypeOK'
  BY NextType DEF VerdictInv
<1>2. clock \in Nat /\ (\A r \in Reviewers : began[r] \in Nat) /\ MaxStall \in Nat
  BY <1>1, ReachInt DEF TypeOK
<1>3. CASE Tick
  <2>1. clock' = clock + 1 /\ UNCHANGED <<tables, locals, history>>
    BY <1>3 DEF Tick
  <2>2. \A f \in Verdict : Explained(f) => Explained(f)'
    <3>1. clock' \in Nat /\ clock' >= clock /\ unsaved' = unsaved /\ findings' = findings
      BY <1>2, <2>1 DEF tables, history
    <3>. QED  BY <1>1, <3>1, ExplainedStays
  <2>3. \A i, t : Seen(i, t) => Seen(i, t)'
    BY <2>1 DEF Seen, history
  <2>4. \A r \in Reviewers : Working(r)' => began'[r] <= clock' /\ clock' <= began'[r] + MaxStall
    BY <1>2, <1>3, <2>1 DEF Tick, VerdictInv, Working, locals
  <2>5. findings \subseteq Verdict /\ sent \subseteq Verdict
        /\ \A r \in Reviewers : out[r] \subseteq Verdict
    BY <1>1 DEF TypeOK
  <2>. QED  BY <1>1, <2>1, <2>2, <2>3, <2>4, <2>5 DEF VerdictInv, tables, locals, history
<1>4. CASE Scan
  <2>1. PICK found \in SUBSET Items : \E size \in [found -> Sizes] :
          /\ measured' = measured \cup {<<i, clock>> : i \in found}
          /\ samples' \subseteq samples \cup
                {[item |-> i, bytes |-> size[i], taken |-> clock] : i \in found}
          /\ findings' \in {findings, {f \in findings : Kept(f.at)}}
    BY <1>4 DEF Scan
  <2>2. clock' = clock /\ UNCHANGED <<locals, sent, unsaved>>
    BY <1>4 DEF Scan
  <2>3. \A i, t : Seen(i, t) => Seen(i, t)'
    BY <2>1 DEF Seen
  <2>4. \A s \in samples' : <<s.item, s.taken>> \in measured'
    <3>1. SUFFICES ASSUME NEW s \in samples' PROVE <<s.item, s.taken>> \in measured'
      OBVIOUS
    <3>2. CASE s \in samples
      BY <2>1, <3>2 DEF VerdictInv
    <3>3. CASE s \notin samples
      <4>1. PICK size \in [found -> Sizes] :
               samples' \subseteq samples \cup
                  {[item |-> i, bytes |-> size[i], taken |-> clock] : i \in found}
        BY <2>1
      <4>2. s.item \in found /\ s.taken = clock
        BY <3>3, <4>1
      <4>. QED  BY <2>1, <4>2
    <3>. QED  BY <3>2, <3>3
  <2>5. \A f \in Verdict : Explained(f) => Explained(f)'
    BY <2>1, <2>2 DEF Explained, Kept
  <2>6. findings' \subseteq findings /\ sent \subseteq Verdict
        /\ \A r \in Reviewers : out[r] \subseteq Verdict
    BY <1>1, <2>1 DEF TypeOK
  <2>. QED  BY <1>1, <2>2, <2>3, <2>4, <2>5, <2>6 DEF VerdictInv, locals, Working
<1>5. CASE Crash
  <2>1. /\ \A r \in Reviewers : pc'[r] = "killed"
        /\ UNCHANGED <<clock, samples, findings, measured, sent, unsaved>>
    BY <1>5 DEF Crash, tables, history
  <2>. QED  BY <1>1, <2>1 DEF VerdictInv, Working, Seen, Explained, Kept
<1>6. CASE Spent \/ UNCHANGED vars
  BY <1>1, <1>6 DEF Spent, vars, tables, locals, history, VerdictInv, Working, Seen,
     Explained, Kept
<1>. QED  BY <1>1, <1>3, <1>4, <1>5, <1>6, ReviewVerdicts DEF Next

LEMMA VerdictInvariant == Spec => []VerdictInv
BY VerdictInit, VerdictNext, PTL DEF Spec

\* Every stored verdict is about an item that some scan measured within the reach of the
\* queries, for any answers of the LLM and any scans and prunes meanwhile.
THEOREM FindingsMeasured == Spec => []FindingsWereMeasured
<1>1. VerdictInv => FindingsWereMeasured
  <2>1. SUFFICES ASSUME VerdictInv, NEW f \in findings
                 PROVE  \E m \in measured : m[1] = f.item /\ m[2] + Reach + MaxStall >= f.at
    BY DEF FindingsWereMeasured
  <2>2. PICK m \in measured : m[1] = f.item /\ m[2] + Reach >= f.at - MaxStall
    BY <2>1 DEF VerdictInv, Seen
  <2>3. m[2] \in Nat /\ f.at \in Nat
    BY <2>1 DEF VerdictInv, TypeOK, Verdict
  <2>4. m[2] + Reach + MaxStall >= f.at
    BY <2>2, <2>3, ReachInt
  <2>. QED  BY <2>2, <2>4
<1>. QED  BY <1>1, VerdictInvariant, PTL

\* Every alert that went out is in the findings table, unless the write failed or the
\* retention took the row, however reviews, scans and crashes interleave.
THEOREM AlertsRecorded == Spec => []AlertsAreRecorded
<1>1. VerdictInv => AlertsAreRecorded
  BY DEF VerdictInv, AlertsAreRecorded, Explained
<1>. QED  BY <1>1, VerdictInvariant, PTL

\* A review that has an answer ends, other than by the end of the process, only when
\* every alert of it was attempted.
THEOREM AlertsAttempted == Spec => AlertsAreAttempted
<1>1. ASSUME VerdictInv, [Next]_vars, NEW r \in Reviewers,
             pc[r] \in {"persist", "sending"}, pc'[r] = "idle"
      PROVE  \A f \in out[r] : f.severity = "info" \/ f \in sent
  <2>1. pc \in [Reviewers -> {"idle", "killed", "growth", "anomalies", "asking", "persist", "sending"}]
    BY <1>1 DEF VerdictInv, TypeOK
  <2>2. PICK q \in Reviewers : RunReview(q)
    BY <1>1 DEF Next, Tick, Scan, Crash, Spent, vars, locals
  <2>3. q = r
    BY <1>1, <2>1, <2>2 DEF RunReview, Begin, QueryGrowth, QueryAnomalies, NothingToAsk,
       Answered, AnswerFails, Persist, SendAlert, Return, Goto
  <2>4. Return(r)
    BY <1>1, <2>1, <2>2, <2>3 DEF RunReview, Begin, QueryGrowth, QueryAnomalies,
       NothingToAsk, Answered, AnswerFails, Persist, SendAlert, Return, Goto
  <2>. QED  BY <2>4 DEF Return
<1>2. VerdictInv /\ [Next]_vars =>
         [ \A r \in Reviewers : pc[r] \in {"persist", "sending"} /\ pc'[r] = "idle"
             => \A f \in out[r] : f.severity = "info" \/ f \in sent ]_vars
  BY <1>1
<1>. QED  BY <1>2, VerdictInvariant, PTL DEF Spec, AlertsAreAttempted

----------------------------------------------------------------------------
(* Digests.                                                                *)

LEMMA InitReview == DigestInit => Init
BY DEF DigestInit

LEMMA StepReview == ASSUME [DigestNext]_digestVars PROVE [Next]_vars
BY DEF DigestNext, DigestCrash, DigestSpent, digestVars, Next

\* Reviews go on beside digests as they do without: what is proved of Review's
\* specification holds of the two together.
THEOREM DigestsLeaveReviews == DigestSpec => Spec
BY InitReview, StepReview, PTL DEF DigestSpec, Spec

\* The growth query names items.
LEMMA GrowthItems ==
    ASSUME NEW since, NEW rows \in GrowthSince(since) \cup {{}}
    PROVE  /\ rows \subseteq Growth(since)
           /\ {g.item : g \in Grew(rows)} \subseteq Items
BY DEF GrowthSince, Growth, Grew

LEMMA DigestTypeNext == ASSUME DigestTypeOK, [DigestNext]_digestVars PROVE DigestTypeOK'
<1>1. TypeOK'
  BY StepReview, NextType DEF DigestTypeOK
<1>2. CASE UNCHANGED digest
  BY <1>1, <1>2 DEF DigestTypeOK, digest
<1>3. CASE BeginDigest \/ DigestAnswered \/ DigestFails
  BY <1>1, <1>3 DEF BeginDigest, DigestAnswered, DigestFails, Forget, DigestTypeOK, TypeOK
<1>4. CASE QueryGrowers
  <2>1. PICK rows \in GrowthSince(asked - Day) \cup {{}} :
           \/ growers' = {g.item : g \in Grew(rows)}
           \/ growers' = growers
           \/ growers' = {}
    BY <1>4 DEF QueryGrowers, Forget
  <2>2. growers' \subseteq Items
    BY <2>1, GrowthItems DEF DigestTypeOK
  <2>3. telling' \in {"idle", "asking", "sending"} /\ asked' \in {asked, 0}
    BY <1>4 DEF QueryGrowers, Forget
  <2>. QED  BY <1>1, <1>4, <2>2, <2>3 DEF QueryGrowers, DigestTypeOK
<1>5. CASE SendDigest
  BY <1>1, <1>5 DEF SendDigest, Forget, DigestTypeOK, Message
<1>6. CASE DigestCrash
  BY <1>1, <1>6 DEF DigestCrash, Forget, DigestTypeOK
<1>. QED  BY <1>2, <1>3, <1>4, <1>5, <1>6 DEF DigestNext, DigestSpent, digestVars, RunDigest

\* Every variable of the reviews and of the digest keeps its type.
THEOREM DigestTypeCorrect == DigestSpec => []DigestTypeOK
<1>1. DigestInit => DigestTypeOK
  BY InitType DEF DigestInit, DigestTypeOK
<1>. QED  BY <1>1, DigestTypeNext, PTL DEF DigestSpec

\* And one oldest: their times are naturals.
LEMMA OldestIsThere ==
    ASSUME TypeOK, NEW rows, rows \subseteq samples, rows # {}
    PROVE  \E s \in rows : \A t \in rows : s.taken <= t.taken
<1>. DEFINE T == {s.taken : s \in rows}
            R == OpToRel(<, Nat)
<1>1. T \subseteq Nat /\ T # {}
  BY DEF TypeOK, Row
<1>2. IsWellFoundedOn(R, Nat)
  BY NatLessThanWellFounded
<1>3. \A x, y \in Nat : y < x => <<y, x>> \in R
  BY DEF OpToRel
<1>. HIDE DEF R, T
<1>4. PICK x \in T : \A y \in T : ~(<<y, x>> \in R)
  BY <1>1, <1>2, WFMin
<1>5. ASSUME NEW y \in T PROVE x <= y
  <2>1. x \in Nat /\ y \in Nat
    BY <1>1, <1>4
  <2>2. ~(y < x)
    BY <1>3, <1>4, <2>1
  <2>. QED  BY <2>1, <2>2
<1>. QED  BY <1>4, <1>5 DEF T

\* Two scans of the day before a digest measured the item.
Grown(i, since) ==
    \E m, n \in measured :
        /\ m[1] = i /\ n[1] = i
        /\ since - Day <= m[2] /\ m[2] < n[2]

LEMMA GrowersGrew ==
    ASSUME VerdictInv, TableInv, NEW t \in Nat,
           NEW rows \in GrowthSince(t - Day) \cup {{}}, NEW g \in Grew(rows)
    PROVE  Grown(g.item, t)
<1>1. g \in Growth(t - Day) /\ g.delta > 0
  BY GrowthItems DEF Grew
<1>2. PICK i \in Items :
         /\ History(i, t - Day) # {}
         /\ g = [item |-> i,
                 delta |-> Newest(History(i, t - Day)).bytes - Oldest(History(i, t - Day)).bytes]
  BY <1>1 DEF Growth
<1>. DEFINE window == History(i, t - Day)
            old == Oldest(window)
            new == Newest(window)
<1>3. window \subseteq samples
  BY DEF History
<1>4. old \in window
  BY <1>2, <1>3, OldestIsThere DEF Oldest, TableInv
<1>5. new \in window /\ \A s \in window : s.taken <= new.taken
  BY <1>2, <1>3, NewestIsThere DEF Newest
<1>. HIDE DEF old, new
<1>6. /\ old \in samples /\ old.item = i /\ old.taken >= t - Day
      /\ new \in samples /\ new.item = i
  BY <1>4, <1>5 DEF History
<1>7. /\ old.bytes \in Nat /\ new.bytes \in Nat
      /\ old.taken \in Nat /\ new.taken \in Nat /\ Day \in Nat
  BY <1>6, ReviewAssumption DEF TableInv, TypeOK, Row
<1>8. g.item = i /\ g.delta = new.bytes - old.bytes
  BY <1>2 DEF old, new
<1>9. old # new
  BY <1>1, <1>7, <1>8
<1>10. old.taken < new.taken
  BY <1>4, <1>5, <1>6, <1>7, <1>9 DEF TableInv
<1>11. <<i, old.taken>> \in measured /\ <<i, new.taken>> \in measured
  BY <1>6 DEF VerdictInv
<1>12. t - Day <= old.taken
  BY <1>6, <1>7
<1>. QED  BY <1>8, <1>10, <1>11, <1>12 DEF Grown

DigestInv ==
    /\ DigestTypeOK
    /\ ~Telling => growers = {}
    /\ \A i \in growers : Grown(i, asked)
    /\ \A d \in digests : \A i \in d.items : Grown(i, d.since)

LEMMA DigestInvNext ==
    ASSUME DigestInv, VerdictInv, TableInv, [DigestNext]_digestVars
    PROVE  DigestInv'
<1>1. DigestTypeOK'
  BY DigestTypeNext DEF DigestInv
<1>2. measured \subseteq measured'
  BY StepReview DEF Next, vars, history, Tick, Scan, Crash, Spent, RunReview, Begin,
     QueryGrowth, QueryAnomalies, NothingToAsk, Answered, AnswerFails, Persist, SendAlert,
     Return, Goto
<1>3. \A i, t : Grown(i, t) => Grown(i, t)'
  BY <1>2 DEF Grown
<1>4. CASE UNCHANGED digest
  BY <1>1, <1>3, <1>4 DEF DigestInv, digest, Telling
<1>5. CASE BeginDigest
  <2>1. growers = {}
    BY <1>5 DEF BeginDigest, DigestInv
  <2>. QED  BY <1>1, <1>3, <1>5, <2>1 DEF BeginDigest, DigestInv, Telling
<1>6. CASE DigestAnswered \/ DigestFails \/ DigestCrash
  BY <1>1, <1>3, <1>6 DEF DigestAnswered, DigestFails, DigestCrash, Forget, DigestInv, Telling
<1>7. CASE QueryGrowers
  <2>1. PICK rows \in GrowthSince(asked - Day) \cup {{}} :
           \/ growers' = {g.item : g \in Grew(rows)} /\ asked' = asked
           \/ growers' = growers /\ asked' = asked
           \/ growers' = {}
    BY <1>7 DEF QueryGrowers, Forget
  <2>2. \A g \in Grew(rows) : Grown(g.item, asked)
    BY GrowersGrew DEF DigestInv, DigestTypeOK
  <2>3. \A i \in growers' : Grown(i, asked')
    BY <2>1, <2>2 DEF DigestInv
  <2>4. ~Telling' => growers' = {}
    BY <1>7 DEF QueryGrowers, Forget, Telling
  <2>. QED  BY <1>1, <1>3, <1>7, <2>3, <2>4 DEF QueryGrowers, DigestInv
<1>8. CASE SendDigest
  BY <1>1, <1>3, <1>8 DEF SendDigest, Forget, DigestInv, Telling
<1>. QED  BY <1>4, <1>5, <1>6, <1>7, <1>8 DEF DigestNext, DigestSpent, digestVars, RunDigest

\* An item that a digest names as growing was measured twice in the day before, for any
\* items, sizes, prunes and limits.
THEOREM DigestsTellGrowth == DigestSpec => []DigestsNameGrowth
<1>1. DigestInit => DigestInv
  BY InitType DEF DigestInit, DigestInv, DigestTypeOK
<1>2. DigestInv => DigestsNameGrowth
  BY DEF DigestInv, DigestsNameGrowth, Grown
<1>3. DigestSpec => []VerdictInv /\ []TableInv
  BY DigestsLeaveReviews, VerdictInvariant, TableInvariant, PTL
<1>. QED  BY <1>1, <1>2, <1>3, DigestInvNext, PTL DEF DigestSpec
=============================================================================
