---------------------------- MODULE ScanService ----------------------------
(***************************************************************************)
(* The scan pipeline of the daemon and the life of its process.            *)
(*                                                                         *)
(* Four kinds of goroutine call runScan: the startup goroutine, the cron   *)
(* entry, the dashboard's POST /api/trigger/scan and the /scan command of  *)
(* the Telegram bot.  Nothing serialises them (only the dashboard's        *)
(* trigger is guarded, and only against itself), so their steps            *)
(* interleave.  A scan is stamped, gathers samples, writes them to SQLite, *)
(* prunes, evaluates the rules, writes the findings, replaces the          *)
(* in-memory snapshot and sends a report.  The process may be killed at    *)
(* any step, or be told to stop by SIGTERM, and comes back with what       *)
(* SQLite holds.                                                           *)
(*                                                                         *)
(* Data is abstracted to what the properties tell apart: the rows of one   *)
(* scan are one record with the scan's stamp and the parts (host, docker)  *)
(* it holds, the findings of one scan are its stamp, time is the number of *)
(* scans stamped so far (stamps have nanosecond resolution: no two scans   *)
(* share one).  What the rules compute and what is sent to Telegram is     *)
(* left to other modules: runScan ignores the outcome of every Send.       *)
(***************************************************************************)
EXTENDS Naturals

CONSTANTS
    Jobs,       \* goroutines that can be inside runScan at the same time
    Retention,  \* RetentionDays, in stamps; 0 stands for a value that disables pruning
    MaxScans,   \* bound: scans started in one behaviour
    Faults      \* what the environment may do to the process, of FaultKinds

Origins  == {"startup", "cron", "http", "bot"}
Detached == {"http", "bot"}     \* run under context.Background()
Parts    == {"host", "docker"}

\* kill -9 or log.Fatalf, SIGTERM, and a failure of each call that can fail.
FaultKinds == {"crash", "signal", "restore", "host", "docker", "insert", "prune", "findings"}

ASSUME ScanAssumption ==
    /\ Jobs # {}
    /\ Retention \in Nat
    /\ MaxScans \in Nat
    /\ Faults \subseteq FaultKinds

VARIABLES
    main,       \* where func main is
    cancelled,  \* ctx of signalContext is cancelled
    restored,   \* what LatestScan returned to main
    snap,       \* Server.snap
    running,    \* Server.running["scan"]
    pc,         \* where each goroutine is in runScan and its wrapper
    job,        \* the local variables of each goroutine
    samples,    \* SQLite table samples, one record per scan
    findings,   \* SQLite table findings, one stamp per scan
    clock,      \* stamps given so far: time.Now
    dropped,    \* history: the writes that returned an error, which runScan only logs
    overlapped, \* history: two scans were under way at once since the process last had none
    budget      \* bound: scans that may still be started

disk     == <<samples, findings>>
volatile == <<cancelled, restored, snap, running, pc, job>>
vars     == <<main, volatile, disk, clock, dropped, overlapped, budget>>

----------------------------------------------------------------------------
Row == [taken : Nat, parts : SUBSET Parts]
NoRow == [taken |-> 0, parts |-> {}]

Snapshot == [taken : Nat, parts : SUBSET Parts, alerts : BOOLEAN]

\* The zero api.Snapshot: TakenAt.IsZero().
NoSnap == [taken |-> 0, parts |-> {}, alerts |-> FALSE]

Locals == [origin : Origins \cup {"none"}, now : Nat, parts : SUBSET Parts, fired : BOOLEAN]
NoJob == [origin |-> "none", now |-> 0, parts |-> {}, fired |-> FALSE]

\* The database calls of runScan, each with the stamp of the scan that made it.
Write == {"samples", "findings", "prune"} \X Nat

Phases == {"idle", "spawned", "gather", "insert", "prune", "pruneFindings",
           "evaluate", "persist", "publish", "report", "release", "reply"}

\* The samples of a scan as Insert writes them.
RowOf(x) == [taken |-> x.now, parts |-> x.parts]

Init ==
    /\ main = "down"
    /\ cancelled = FALSE
    /\ restored = NoRow
    /\ snap = NoSnap
    /\ running = FALSE
    /\ pc = [j \in Jobs |-> "idle"]
    /\ job = [j \in Jobs |-> NoJob]
    /\ samples = {}
    /\ findings = {}
    /\ clock = 0
    /\ dropped = {}
    /\ overlapped = FALSE
    /\ budget = MaxScans

----------------------------------------------------------------------------
(* func main, from store.Open to the wait on ctx.Done().                   *)

\* The store is open and scheduler.Start() was called: from here cron can fire.
\* One scan of the budget is set aside for the startup scan.
Boot ==
    /\ main \in {"down", "crashed"}
    /\ budget > 0
    /\ main' = "opened"
    /\ budget' = budget - 1
    /\ UNCHANGED <<volatile, disk, clock, dropped, overlapped>>

\* Store.LatestScan: the rows whose taken_at is the largest of the table.
Newest == {r \in samples : \A s \in samples : s.taken <= r.taken}

ReadLatest ==
    /\ main = "opened"
    /\ main' = "restoring"
    /\ \/ restored' \in Newest
       \/ samples = {} /\ restored' = NoRow
       \/ "restore" \in Faults /\ restored' = NoRow
    /\ UNCHANGED <<cancelled, snap, running, pc, job, disk, clock, dropped, overlapped, budget>>

\* Mutant: the restored snapshot is stamped with the time of the boot.
RestoreStampedNow ==
    /\ main = "restoring"
    /\ main' = "serving"
    /\ snap' = IF restored = NoRow THEN snap
               ELSE [taken |-> clock, parts |-> restored.parts, alerts |-> FALSE]
    /\ restored' = NoRow
    /\ UNCHANGED <<cancelled, running, pc, job, disk, clock, dropped, overlapped, budget>>

\* The restored snapshot carries no alerts; without rows the snapshot stays as it is.
\* ListenAndServe starts next.
Restore ==
    /\ main = "restoring"
    /\ main' = "serving"
    /\ snap' = IF restored = NoRow THEN snap
               ELSE [taken |-> restored.taken, parts |-> restored.parts, alerts |-> FALSE]
    /\ restored' = NoRow
    /\ UNCHANGED <<cancelled, running, pc, job, disk, clock, dropped, overlapped, budget>>

----------------------------------------------------------------------------
(* The four ways into runScan.                                             *)

Spawn(j, origin) ==
    /\ pc[j] = "idle"
    /\ pc' = [pc EXCEPT ![j] = "spawned"]
    /\ job' = [job EXCEPT ![j] = [NoJob EXCEPT !.origin = origin]]
    /\ overlapped' = \E i \in Jobs : pc[i] # "idle"
    /\ UNCHANGED <<cancelled, restored, snap, disk, clock, dropped>>

LaunchStartup(j) ==
    /\ main = "serving"
    /\ main' = "up"
    /\ Spawn(j, "startup")
    /\ UNCHANGED <<running, budget>>

StartCounted(j, origin) ==
    /\ budget > 0
    /\ budget' = budget - 1
    /\ Spawn(j, origin)
    /\ UNCHANGED main

\* cron runs each firing in a goroutine of its own, whether or not the last one ended.
CronFire(j) ==
    /\ main \in {"opened", "restoring", "serving", "up"}
    /\ StartCounted(j, "cron")
    /\ UNCHANGED running

\* Mutant: a second click is not answered 409.
TriggerUnguarded(j) ==
    /\ main \in {"serving", "up", "stopping"}
    /\ running' = TRUE
    /\ StartCounted(j, "http")

\* POST /api/trigger/scan; a busy kind is answered 409 and changes nothing.
TriggerScan(j) ==
    /\ main \in {"serving", "up", "stopping"}
    /\ ~running
    /\ running' = TRUE
    /\ StartCounted(j, "http")

\* /scan from the chat: runAsync has no guard.
BotScan(j) ==
    /\ main \in {"serving", "up", "stopping"}
    /\ StartCounted(j, "bot")
    /\ UNCHANGED running

----------------------------------------------------------------------------
(* runScan, one action per call that reads or writes shared state.         *)

Goto(j, from, to) ==
    /\ pc[j] = from
    /\ pc' = [pc EXCEPT ![j] = to]
    /\ UNCHANGED <<main, cancelled, restored, running, overlapped, budget>>

\* Mutant: the scan is stamped with the moment before it.
StampBefore(j) ==
    /\ Goto(j, "spawned", "gather")
    /\ clock' = clock + 1
    /\ job' = [job EXCEPT ![j].now = clock - 1]
    /\ UNCHANGED <<snap, disk, dropped>>

\* now := time.Now().UTC(), after the "started" ping of a manual scan.
Stamp(j) ==
    /\ Goto(j, "spawned", "gather")
    /\ clock' = clock + 1
    /\ job' = [job EXCEPT ![j].now = clock + 1]
    /\ UNCHANGED <<snap, disk, dropped>>

\* Mutant: a Docker call that has no timeout and, once ctx is cancelled, no answer.
GatherStuck(j) ==
    /\ ~cancelled
    /\ Goto(j, "gather", "insert")
    /\ job' = [job EXCEPT ![j].parts = Parts]
    /\ UNCHANGED <<snap, disk, clock, dropped>>

\* host.Scan and dock.Scan.  A failed Docker call is left out of the result, and
\* under a cancelled context every call fails: a scan caught by SIGTERM keeps
\* whatever it had gathered by then.
Gather(j) ==
    /\ Goto(j, "gather", "insert")
    /\ \E parts \in SUBSET Parts :
          /\ "host" \in parts \/ "host" \in Faults
          /\ \/ "docker" \in parts
             \/ "docker" \in Faults
             \/ cancelled /\ job[j].origin \notin Detached
          /\ job' = [job EXCEPT ![j].parts = parts]
    /\ UNCHANGED <<snap, disk, clock, dropped>>

\* Mutant: the transaction is never committed, and no error is seen.
InsertUncommitted(j) ==
    /\ Goto(j, "insert", "prune")
    /\ UNCHANGED <<job, snap, disk, clock, dropped>>

\* Store.Insert: one transaction, rolled back on any error; no sample, no row.
Insert(j) ==
    /\ Goto(j, "insert", "prune")
    /\ \/ /\ samples' = IF job[j].parts = {} THEN samples
                        ELSE samples \cup {RowOf(job[j])}
          /\ UNCHANGED dropped
       \/ /\ "insert" \in Faults
          /\ dropped' = dropped \cup {<<"samples", job[j].now>>}
          /\ UNCHANGED samples
    /\ UNCHANGED <<job, snap, findings, clock>>

\* Mutants: the cutoff is one off, to either side.
KeepsTooLittle(now, taken) == taken + Retention > now
KeepsTooMuch(now, taken) == taken + Retention + 1 >= now

\* Not older than now - RetentionDays.
Keeps(now, taken) == taken + Retention >= now

\* Store.Prune, first statement; its failure skips the second one.
PruneSamples(j) ==
    /\ Retention > 0
    /\ Goto(j, "prune", "pruneFindings")
    /\ samples' = {r \in samples : Keeps(job[j].now, r.taken)}
    /\ UNCHANGED <<job, snap, findings, clock, dropped>>

PruneSkipped(j) ==
    /\ Goto(j, "prune", "evaluate")
    /\ \/ Retention = 0 /\ UNCHANGED dropped
       \/ /\ Retention > 0 /\ "prune" \in Faults
          /\ dropped' = dropped \cup {<<"prune", job[j].now>>}
    /\ UNCHANGED <<job, snap, disk, clock>>

\* Store.Prune, second statement: not in one transaction with the first.
PruneFindings(j) ==
    /\ Retention > 0
    /\ Goto(j, "pruneFindings", "evaluate")
    /\ \/ /\ findings' = {t \in findings : Keeps(job[j].now, t)}
          /\ UNCHANGED dropped
       \/ /\ "prune" \in Faults
          /\ dropped' = dropped \cup {<<"prune", job[j].now>>}
          /\ UNCHANGED findings
    /\ UNCHANGED <<job, snap, samples, clock>>

\* alert.Evaluate: some rule fires or none does; nothing fires on no samples.
Evaluate(j) ==
    \E fired \in BOOLEAN :
        /\ fired => job[j].parts # {}
        /\ Goto(j, "evaluate", IF fired THEN "persist" ELSE "publish")
        /\ job' = [job EXCEPT ![j].fired = fired]
        /\ UNCHANGED <<snap, disk, clock, dropped>>

\* Store.InsertFindings, one transaction.
PersistFindings(j) ==
    /\ Goto(j, "persist", "publish")
    /\ \/ /\ findings' = findings \cup {job[j].now}
          /\ UNCHANGED dropped
       \/ /\ "findings" \in Faults
          /\ dropped' = dropped \cup {<<"findings", job[j].now>>}
          /\ UNCHANGED findings
    /\ UNCHANGED <<job, snap, samples, clock>>

\* Mutant: only a scan with alerts replaces the snapshot.
PublishAlertsOnly(j) ==
    /\ Goto(j, "publish", "report")
    /\ snap' = IF job[j].fired
               THEN [taken |-> job[j].now, parts |-> job[j].parts, alerts |-> TRUE]
               ELSE snap
    /\ UNCHANGED <<job, disk, clock, dropped>>

\* Server.SetSnapshot: replaces whatever is there.
Publish(j) ==
    /\ Goto(j, "publish", "report")
    /\ snap' = [taken |-> job[j].now, parts |-> job[j].parts, alerts |-> job[j].fired]
    /\ UNCHANGED <<job, disk, clock, dropped>>

\* The end-of-scan report; then runScan returns to its caller.
Report(j) ==
    /\ Goto(j, "report", CASE job[j].origin = "http" -> "release"
                           [] job[j].origin = "bot" -> "reply"
                           [] OTHER -> "idle")
    /\ job' = IF job[j].origin \in Detached THEN job ELSE [job EXCEPT ![j] = NoJob]
    /\ UNCHANGED <<snap, disk, clock, dropped>>

\* Mutant: the goroutine ends without the deferred delete.
ReleaseForgotten(j) ==
    /\ pc[j] = "release"
    /\ pc' = [pc EXCEPT ![j] = "idle"]
    /\ job' = [job EXCEPT ![j] = NoJob]
    /\ UNCHANGED <<main, cancelled, restored, snap, running, disk, clock, dropped, overlapped, budget>>

\* The deferred delete(s.running, kind) of the trigger's goroutine.
ReleaseTrigger(j) ==
    /\ pc[j] = "release"
    /\ pc' = [pc EXCEPT ![j] = "idle"]
    /\ job' = [job EXCEPT ![j] = NoJob]
    /\ running' = FALSE
    /\ UNCHANGED <<main, cancelled, restored, snap, disk, clock, dropped, overlapped, budget>>

\* OnScan builds its reply from srv.LastSnapshot(), read after runScan returned.
BotReply(j) ==
    /\ Goto(j, "reply", "idle")
    /\ job' = [job EXCEPT ![j] = NoJob]
    /\ UNCHANGED <<snap, disk, clock, dropped>>

JobStep(j) ==
    \/ Stamp(j) \/ Gather(j) \/ Insert(j)
    \/ PruneSamples(j) \/ PruneSkipped(j) \/ PruneFindings(j)
    \/ Evaluate(j) \/ PersistFindings(j) \/ Publish(j)
    \/ Report(j) \/ ReleaseTrigger(j) \/ BotReply(j)

----------------------------------------------------------------------------
(* The end of the process.                                                 *)

\* Memory is gone and every goroutine with it; SQLite stays.
LoseMemory ==
    /\ cancelled' = FALSE
    /\ restored' = NoRow
    /\ snap' = NoSnap
    /\ running' = FALSE
    /\ pc' = [j \in Jobs |-> "idle"]
    /\ job' = [j \in Jobs |-> NoJob]
    /\ overlapped' = FALSE
    /\ UNCHANGED <<disk, clock, dropped, budget>>

\* SIGTERM or SIGINT: the signal goroutine cancels ctx.
Signal ==
    /\ "signal" \in Faults
    /\ main \notin {"down", "crashed"}
    /\ ~cancelled
    /\ cancelled' = TRUE
    /\ UNCHANGED <<main, restored, snap, running, pc, job, disk, clock, dropped, overlapped, budget>>

\* main sees ctx.Done(), returns, and its last deferred call stops the scheduler.
Stop ==
    /\ main = "up"
    /\ cancelled
    /\ main' = "stopping"
    /\ UNCHANGED <<volatile, disk, clock, dropped, overlapped, budget>>

\* Mutant: scheduler.Stop() is called but its context is not waited for.
ExitAtOnce ==
    /\ main = "stopping"
    /\ main' = "down"
    /\ LoseMemory

\* Only the goroutines of the scheduler are waited for.
Exit ==
    /\ main = "stopping"
    /\ \A j \in Jobs : job[j].origin # "cron"
    /\ main' = "down"
    /\ LoseMemory

Crash ==
    /\ "crash" \in Faults
    /\ main \notin {"down", "crashed"}
    /\ main' = "crashed"
    /\ LoseMemory

\* The bound is spent and the process is not running: nothing is left to do.
Spent ==
    /\ main \in {"down", "crashed"}
    /\ budget = 0
    /\ UNCHANGED vars

----------------------------------------------------------------------------
Next ==
    \/ Boot \/ ReadLatest \/ Restore
    \/ \E j \in Jobs : LaunchStartup(j) \/ CronFire(j) \/ TriggerScan(j) \/ BotScan(j)
    \/ \E j \in Jobs : JobStep(j)
    \/ Signal \/ Stop \/ Exit \/ Crash \/ Spent

Spec == Init /\ [][Next]_vars

\* Every call inside runScan returns (file walks are finite, Docker and Telegram
\* requests have a 15 s timeout), so a goroutine goes on, and so does main.  Nobody
\* promises a trigger, a signal or a reboot.
Fairness ==
    /\ \A j \in Jobs : WF_vars(JobStep(j))
    /\ WF_vars(ReadLatest) /\ WF_vars(Restore)
    /\ WF_vars(\E j \in Jobs : LaunchStartup(j))
    /\ WF_vars(Stop) /\ WF_vars(Exit)

FairSpec == Spec /\ Fairness

----------------------------------------------------------------------------
(* What the pipeline promises.                                             *)

\* The shape of the state.
TypeOK ==
    /\ main \in {"down", "crashed", "opened", "restoring", "serving", "up", "stopping"}
    /\ cancelled \in BOOLEAN
    /\ restored \in Row
    /\ snap \in Snapshot
    /\ running \in BOOLEAN
    /\ pc \in [Jobs -> Phases]
    /\ job \in [Jobs -> Locals]
    /\ samples \subseteq Row
    /\ findings \subseteq Nat
    /\ clock \in Nat
    /\ dropped \subseteq Write
    /\ overlapped \in BOOLEAN
    /\ budget \in Nat

\* The server's "one at a time": two dashboard clicks never run two scans, and the
\* busy flag is up exactly while the clicked scan is somewhere between its spawn
\* and its deferred release, whatever cron, the bot and restarts do meanwhile.
OneManualScan ==
    /\ \A i, j \in Jobs : job[i].origin = "http" /\ job[j].origin = "http" => i = j
    /\ running <=> \E j \in Jobs : job[j].origin = "http"

\* A scan of stamp t has fallen out of the retention window.
Aged(t) == Retention > 0 /\ t + Retention < clock

HasRow(t, parts) == \/ [taken |-> t, parts |-> parts] \in samples
                    \/ parts = {}
                    \/ Aged(t)
                    \/ <<"samples", t>> \in dropped

HasFinding(t) == t \in findings \/ Aged(t) \/ <<"findings", t>> \in dropped

\* What the dashboard shows is what SQLite holds: the rows behind the snapshot, and
\* the findings behind its alerts, are stored, unless retention took them or the
\* write failed (runScan logs that and publishes all the same).  Overlapping scans,
\* prunes by a scan that is behind, and restarts at any step do not break it.
DashboardIsBacked ==
    snap.taken # 0 =>
        /\ HasRow(snap.taken, snap.parts)
        /\ snap.alerts => HasFinding(snap.taken)

\* The two tables agree after a crash at any step: no finding outlives, or is
\* written before, the samples it was computed from.
FindingsHaveSamples ==
    \A t \in findings : \/ \E r \in samples : r.taken = t
                        \/ Aged(t)
                        \/ <<"samples", t>> \in dropped

\* Store.Prune takes nothing that is still inside the retention window, even when
\* the scan that prunes is not the newest one.
YoungRowsStay ==
    [][ /\ \A r \in samples : r \in samples' \/ Aged(r.taken)'
        /\ \A t \in findings : t \in findings' \/ Aged(t)' ]_vars

Settled == main = "up" /\ \A j \in Jobs : pc[j] = "idle"

\* Snapshot "is the most recent scan result": when no scan is under way, SQLite holds
\* nothing newer than what the dashboard shows, if the scans that just ended did not
\* overlap; earlier ones may have, or died, or been overtaken by the restore.  Until the
\* startup scan is over the dashboard may be behind.
SnapshotIsMostRecent ==
    Settled /\ ~overlapped => \A r \in samples : r.taken <= snap.taken

\* LastSnapshot returns "the most-recent snapshot", for a caller that "needs to read the
\* result of the scan that just finished": what the chat's reply tells is not older than
\* the scan that the command ran.
ReplyIsNotOlder ==
    \A j \in Jobs : pc[j] = "reply" => snap.taken >= job[j].now

\* Once a scan whose Prune succeeded has run alone, both tables lie inside the retention
\* window of that scan, whatever overlaps, kills and half-done prunes left before it.
\* (A scan that another has overtaken inserts rows that may be too old already.)
RetentionHolds ==
    Settled /\ ~overlapped /\ Retention > 0 /\ <<"prune", snap.taken>> \notin dropped =>
        /\ \A r \in samples : r.taken + Retention >= snap.taken
        /\ \A t \in findings : t + Retention >= snap.taken

\* "So a SIGTERM during the job doesn't cancel the user-initiated run mid-flight":
\* a scan asked for in the chat is lost to a kill only.
ChatScanSurvivesSigterm ==
    [][ \A j \in Jobs : job[j].origin = "bot" /\ pc[j] # "reply" /\ main' # "crashed"
            => job'[j].origin = "bot" ]_vars

\* A click on the dashboard never blocks the button for good.
TriggerIsReleased == running ~> ~running

\* A process told to stop stops (or is killed).
StopCompletes == cancelled ~> main \in {"down", "crashed"}

\* A scheduled scan that began publishes its result, also when SIGTERM comes in
\* between: the exit waits for it.  Only a kill takes it away.
CronScanCompletes ==
    \A j \in Jobs : job[j].origin = "cron" ~> (pc[j] = "report" \/ main = "crashed")
============================================================================
