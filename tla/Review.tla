------------------------------- MODULE Review -------------------------------
(***************************************************************************)
(* aireview.Reviewer.RunReview over the history that SQLite holds.         *)
(*                                                                         *)
(* A review asks the store which items grew over the lookback window and   *)
(* which broke their own baseline, shows them to the LLM, keeps what the   *)
(* LLM says of items it was shown, writes the verdicts to the findings     *)
(* table and sends an alert for those that are more than informative.      *)
(* Scans go on meanwhile: they insert rows, and prune old ones.  The LLM   *)
(* (external) may fail, invent items and severities, or answer late.       *)
(*                                                                         *)
(* Items stand for one kind (the loop over the kinds repeats the same two  *)
(* queries on disjoint rows); sizes for bytes; a tick for the step between *)
(* two scans.  Whether an alert is deduplicated is the Notifier's part.    *)
(***************************************************************************)
EXTENDS Integers, FiniteSets

CONSTANTS
    Reviewers,    \* goroutines in RunReview: cron, the dashboard's trigger, the chat
    Items,        \* what can be measured, or named by the LLM
    Sizes,        \* sizes an item can have
    Lookback,     \* Reviewer.LookbackDays, in ticks
    Day,          \* 24 h, in ticks
    BaselineDays, \* parameters of BaselineAnomalies
    MinRatio, MinDelta,
    Top,          \* limit of GrowthSince and of BaselineAnomalies
    Retention,    \* RetentionDays, in ticks
    MaxStall,     \* the longest a review takes, in ticks: the LLM client has a timeout
    MaxClock,     \* bound: ticks in one behaviour
    MaxScans,     \* bound: scans in one behaviour that find something
    MaxReviews    \* bound: reviews in one behaviour

ASSUME ReviewAssumption ==
    /\ Sizes \subseteq Nat
    /\ Day \in Nat \ {0} /\ BaselineDays \in Nat \ {0}
    /\ MinRatio \in Nat \ {0} /\ MinDelta \in Nat \ {0}
    /\ Lookback \in Nat /\ Top \in Nat \ {0}
    /\ Retention \in Nat /\ MaxStall \in Nat /\ MaxClock \in Nat
    /\ MaxScans \in Nat /\ MaxReviews \in Nat

VARIABLES
    clock,
    samples,    \* SQLite table samples
    findings,   \* SQLite table findings, the rows of source ai_review
    pc,         \* where each review is
    began,      \* when it read time.Now() for since
    allow,      \* the items it shows to the LLM
    out,        \* the verdicts it keeps; then those it has still to send
    measured,   \* history: <<item, taken>> of every row ever inserted
    sent,       \* history: the verdicts for which Notifier.Send was called
    unsaved,    \* history: the verdicts InsertFindings failed to write
    reviews     \* bound

tables  == <<samples, findings>>
locals  == <<pc, began, allow, out>>
history == <<measured, sent, unsaved>>
vars == <<clock, tables, locals, history, reviews>>

\* "crit" is sent and stored as "warn" is; here it is one of the warnings.
Severities == {"info", "warn"}
Row == [item : Items, bytes : Sizes, taken : Nat]
Verdict == [item : Items, severity : Severities, at : Nat]

Init ==
    /\ clock = 1
    /\ samples = {} /\ findings = {}
    /\ pc = [r \in Reviewers |-> "idle"]
    /\ began = [r \in Reviewers |-> 0]
    /\ allow = [r \in Reviewers |-> {}]
    /\ out = [r \in Reviewers |-> {}]
    /\ measured = {} /\ sent = {} /\ unsaved = {}
    /\ reviews = 0

----------------------------------------------------------------------------
(* The store's queries.                                                    *)

\* The rows of an item from a moment on.  (The text of a UTC time sorts as the time does.)
History(i, from) == {s \in samples : s.item = i /\ s.taken >= from}

Newest(rows) == CHOOSE s \in rows : \A t \in rows : t.taken <= s.taken
Oldest(rows) == CHOOSE s \in rows : \A t \in rows : s.taken <= t.taken

\* Mutant: the oldest row of all, also from before the window.
GrowthEver(since) ==
    {[item |-> i, delta |-> Newest(History(i, since)).bytes - Oldest(History(i, 0)).bytes] :
        i \in {j \in Items : History(j, since) # {}}}

\* GrowthSince before its LIMIT: the oldest row of the window against the newest of all,
\* for each item that has a row in the window.
Growth(since) ==
    {[item |-> i, delta |-> Newest(History(i, since)).bytes - Oldest(History(i, since)).bytes] :
        i \in {j \in Items : History(j, since) # {}}}

\* ORDER BY delta DESC LIMIT: of equals, any.
GrowthSince(since) ==
    {rows \in SUBSET Growth(since) :
        /\ Cardinality(rows) <= Top
        /\ rows # Growth(since) => Cardinality(rows) = Top
        /\ \A s \in rows, t \in Growth(since) \ rows : s.delta >= t.delta}

LastDay(now) == now - Day
BaseStart(now) == LastDay(now) - BaselineDays * Day

\* MAX(l24_bytes - base_bytes, 0), what the item grew in all of the baseline window.
Baseline(newest, l24, base) == IF l24.bytes > base.bytes THEN l24.bytes - base.bytes ELSE 0

\* Enough bytes in the last day, and MinRatio times the daily growth before it; an item
\* that did not grow before has the largest ratio.
Anomalous(newest, l24, base) ==
    LET delta    == newest.bytes - l24.bytes
        baseline == Baseline(newest, l24, base)
    IN  /\ delta >= MinDelta
        /\ baseline = 0 \/ delta * BaselineDays >= MinRatio * baseline

\* The verdicts the query can give of an item, in the window that begins BaseStart.  It
\* ranks the rows by ABS(strftime('%s', taken_at) - strftime('%s', ...)), to take the one
\* nearest to LastDay and the one nearest to BaseStart.  But the driver stores a time as
\* time.Time.String() writes it, "2024-05-01 12:00:00.1 +0000 UTC", which strftime does
\* not read: each distance is NULL, all rows rank alike, and either may be any of them.
Verdicts(i, now) ==
    LET window == History(i, BaseStart(now))
    IN  {Anomalous(Newest(window), l24, base) : l24 \in window, base \in window}

\* The answers of BaselineAnomalies; which ones its limit cuts is left open.
BaselineAnomalies(now) ==
    {is \in SUBSET Items :
        /\ Cardinality(is) <= Top
        /\ \A i \in is : TRUE \in Verdicts(i, now)
        /\ \A i \in Items \ is : Verdicts(i, now) # {TRUE} \/ Cardinality(is) = Top}

----------------------------------------------------------------------------
(* The rest of the daemon.                                                 *)

Working(r) == pc[r] \notin {"idle", "killed"}

Tick ==
    /\ clock < MaxClock
    /\ \A r \in Reviewers : Working(r) => clock < began[r] + MaxStall
    /\ clock' = clock + 1
    /\ UNCHANGED <<tables, locals, history, reviews>>

Kept(t) == t >= clock - Retention

\* Scans so far.
Scans == Cardinality({m[2] : m \in measured})

\* A scan of ScanService, seen from here: Insert, and a Prune that may fail before its
\* first statement or before its second.
Scan ==
    /\ \A s \in samples : s.taken # clock
    /\ \E found \in SUBSET Items : \E size \in [found -> Sizes] :
          LET new == {[item |-> i, bytes |-> size[i], taken |-> clock] : i \in found}
          IN  /\ found = {} \/ Scans < MaxScans
              /\ measured' = measured \cup {<<i, clock>> : i \in found}
              /\ \/ samples' = samples \cup new /\ UNCHANGED findings
                 \/ /\ samples' = {s \in samples : Kept(s.taken)} \cup new
                    /\ findings' \in {findings, {f \in findings : Kept(f.at)}}
    /\ UNCHANGED <<clock, locals, sent, unsaved, reviews>>

\* The process ends under the reviews; SQLite stays.
Crash ==
    /\ \E r \in Reviewers : Working(r)
    /\ pc' = [r \in Reviewers |-> "killed"]
    /\ began' = [r \in Reviewers |-> 0]
    /\ allow' = [r \in Reviewers |-> {}]
    /\ out' = [r \in Reviewers |-> {}]
    /\ UNCHANGED <<clock, tables, history, reviews>>

----------------------------------------------------------------------------
(* RunReview.                                                              *)

Goto(r, from, to) ==
    /\ pc[r] = from
    /\ pc' = [pc EXCEPT ![r] = to]
    /\ UNCHANGED <<clock, samples, measured>>

Leave(r) ==
    /\ began' = [began EXCEPT ![r] = 0]
    /\ allow' = [allow EXCEPT ![r] = {}]
    /\ out' = [out EXCEPT ![r] = {}]

\* since := time.Now() less the lookback.
Begin(r) ==
    /\ pc[r] \in {"idle", "killed"}
    /\ Goto(r, pc[r], "growth")
    /\ reviews < MaxReviews
    /\ reviews' = reviews + 1
    /\ began' = [began EXCEPT ![r] = clock]
    /\ UNCHANGED <<findings, allow, out, sent, unsaved>>

\* Mutant: the lookback reaches back to the first scan.
QueryGrowthEver(r) ==
    /\ Goto(r, "growth", "anomalies")
    /\ \E rows \in GrowthSince(0) \cup {{}} :
          allow' = [allow EXCEPT ![r] = {g.item : g \in rows}]
    /\ UNCHANGED <<findings, began, out, sent, unsaved, reviews>>

\* A failed query adds nothing.
QueryGrowth(r) ==
    /\ Goto(r, "growth", "anomalies")
    /\ \E rows \in GrowthSince(began[r] - Lookback) \cup {{}} :
          allow' = [allow EXCEPT ![r] = {g.item : g \in rows}]
    /\ UNCHANGED <<findings, began, out, sent, unsaved, reviews>>

\* The query reads the time itself; its window is longer than the growth's.
QueryAnomalies(r) ==
    \E is \in BaselineAnomalies(clock) \cup {{}} :
        /\ allow[r] \cup is # {}
        /\ Goto(r, "anomalies", "asking")
        /\ allow' = [allow EXCEPT ![r] = @ \cup is]
        /\ UNCHANGED <<findings, began, out, sent, unsaved, reviews>>

\* Without rows and anomalies (or after an error) the review ends here, and the LLM is
\* not asked.
NothingToAsk(r) ==
    /\ allow[r] = {}
    /\ Goto(r, "anomalies", "idle")
    /\ Leave(r)
    /\ UNCHANGED <<findings, sent, unsaved, reviews>>

\* What the LLM may answer: any number of verdicts, true or invented, also of one item,
\* each with a severity or with another word.
Answers == SUBSET (Items \X (Severities \cup {"other"}))

Clamped(severity) == IF severity \in Severities THEN severity ELSE "warn"

\* Mutant: every verdict is kept, also of items that were not shown.
AnsweredUnfiltered(r) ==
    /\ Goto(r, "asking", "persist")
    /\ \E answer \in Answers :
          out' = [out EXCEPT ![r] = {[item |-> v[1], severity |-> Clamped(v[2]), at |-> clock] :
                                        v \in answer}]
    /\ UNCHANGED <<findings, began, allow, sent, unsaved, reviews>>

\* Mutant: the severity is kept as it comes.
AnsweredUnclamped(r) ==
    /\ Goto(r, "asking", "persist")
    /\ \E answer \in Answers :
          out' = [out EXCEPT ![r] = {[item |-> v[1], severity |-> v[2], at |-> clock] :
                                        v \in {w \in answer : w[1] \in allow[r]}}]
    /\ UNCHANGED <<findings, began, allow, sent, unsaved, reviews>>

\* Hallucinations are dropped, severities clamped; the verdicts get their created_at.
Answered(r) ==
    /\ Goto(r, "asking", "persist")
    /\ \E answer \in Answers :
          out' = [out EXCEPT ![r] = {[item |-> v[1], severity |-> Clamped(v[2]), at |-> clock] :
                                        v \in {w \in answer : w[1] \in allow[r]}}]
    /\ UNCHANGED <<findings, began, allow, sent, unsaved, reviews>>

\* The call fails, or its answer does not parse.
AnswerFails(r) ==
    /\ Goto(r, "asking", "idle")
    /\ Leave(r)
    /\ UNCHANGED <<findings, sent, unsaved, reviews>>

\* Mutant: what is only informative is taken for not worth writing, and the rest too.
PersistForgotten(r) ==
    /\ Goto(r, "persist", "sending")
    /\ UNCHANGED <<findings, began, allow, out, sent, unsaved, reviews>>

\* Mutant: an error of the database ends the review.
PersistOrReturn(r) ==
    /\ \/ /\ Goto(r, "persist", "sending")
          /\ findings' = findings \cup out[r]
          /\ UNCHANGED unsaved
       \/ /\ Goto(r, "persist", "idle")
          /\ unsaved' = unsaved \cup out[r]
          /\ UNCHANGED findings
    /\ UNCHANGED <<began, allow, out, sent, reviews>>

\* InsertFindings, one transaction; its failure does not keep the alerts back.
Persist(r) ==
    /\ Goto(r, "persist", "sending")
    /\ \/ findings' = findings \cup out[r] /\ UNCHANGED unsaved
       \/ unsaved' = unsaved \cup out[r] /\ UNCHANGED findings
    /\ UNCHANGED <<began, allow, out, sent, reviews>>

\* Notifier.Send for one verdict that is more than informative.
SendAlert(r) ==
    /\ \E f \in out[r] :
          /\ f.severity # "info"
          /\ sent' = sent \cup {f}
          /\ out' = [out EXCEPT ![r] = @ \ {f}]
    /\ Goto(r, "sending", "sending")
    /\ UNCHANGED <<findings, began, allow, unsaved, reviews>>

Return(r) ==
    /\ \A f \in out[r] : f.severity = "info"
    /\ Goto(r, "sending", "idle")
    /\ Leave(r)
    /\ UNCHANGED <<findings, sent, unsaved, reviews>>

RunReview(r) ==
    \/ Begin(r) \/ QueryGrowth(r) \/ QueryAnomalies(r) \/ NothingToAsk(r)
    \/ Answered(r) \/ AnswerFails(r)
    \/ Persist(r) \/ SendAlert(r) \/ Return(r)

\* The bounds are spent.
Spent ==
    /\ clock = MaxClock
    /\ reviews = MaxReviews
    /\ \A r \in Reviewers : ~Working(r)
    /\ UNCHANGED vars

Next == Tick \/ Scan \/ Crash \/ Spent \/ \E r \in Reviewers : RunReview(r)

Spec == Init /\ [][Next]_vars

----------------------------------------------------------------------------
\* The shape of the state.
TypeOK ==
    /\ clock \in Nat
    /\ samples \subseteq Row
    /\ findings \subseteq Verdict
    /\ pc \in [Reviewers -> {"idle", "killed", "growth", "anomalies", "asking", "persist", "sending"}]
    /\ began \in [Reviewers -> Nat]
    /\ allow \in [Reviewers -> SUBSET Items]
    /\ out \in [Reviewers -> SUBSET Verdict]
    /\ measured \subseteq Items \X Nat
    /\ sent \subseteq Verdict
    /\ unsaved \subseteq Verdict
    /\ reviews \in Nat

\* The size of an item at a moment, if a scan measured it then.
At(i, t) == {s \in samples : s.item = i /\ s.taken = t}

\* "24h delta = (latest_bytes - bytes_at_last24_start)", against a baseline that
\* "deliberately excludes the last 24h so a spiking item can't inflate its own baseline":
\* for an item measured now, a day ago and at the start of the baseline, the query says
\* what the arithmetic of these three sizes says.
AnomaliesAreExact ==
    \A i \in Items :
        \A new \in At(i, clock), l24 \in At(i, LastDay(clock)), base \in At(i, BaseStart(clock)) :
            Verdicts(i, clock) =
                {/\ new.bytes >= l24.bytes + MinDelta
                 /\ (new.bytes - l24.bytes) * BaselineDays >= MinRatio * (l24.bytes - base.bytes)}

\* "Bytes delta per key since": the growth of an item measured at the start of the
\* window and now is the difference of the two sizes, and it has no other row.
GrowthIsExact ==
    \A i \in Items :
        \A new \in At(i, clock), old \in At(i, clock - Lookback) :
            {g \in Growth(clock - Lookback) : g.item = i}
                = {[item |-> i, delta |-> new.bytes - old.bytes]}

\* The longest ago a row can lie that one of the two queries looks at.
Reach == IF Lookback > Day + BaselineDays * Day THEN Lookback ELSE Day + BaselineDays * Day

\* "Any item whose key is not present in the snapshot we sent is dropped": a verdict is
\* about an item that a scan measured in the window of one of the queries, whatever the
\* LLM invents, how late it answers, and whatever older rows a failed prune left.
FindingsWereMeasured ==
    \A f \in findings : \E m \in measured : m[1] = f.item /\ m[2] + Reach + MaxStall >= f.at

\* An alert that went out can be explained later from the findings table, unless the
\* write failed or the retention took the row; a crash between the two leaves none out.
AlertsAreRecorded ==
    \A f \in sent : f \in findings \/ f \in unsaved \/ ~Kept(f.at)

\* "Non-fatal: keep going so the notifier still fires": a review with an answer ends,
\* other than by the end of the process, only when every alert of it was attempted.
AlertsAreAttempted ==
    [][ \A r \in Reviewers : pc[r] \in {"persist", "sending"} /\ pc'[r] = "idle"
            => \A f \in out[r] : f.severity = "info" \/ f \in sent ]_vars
=============================================================================
