------------------------ MODULE ScanServiceProofs ------------------------
(***************************************************************************)
(* What TLC checks of ScanService for two goroutines and three scans, for  *)
(* any number of both.                                                     *)
(***************************************************************************)
EXTENDS ScanService, TLAPS

----------------------------------------------------------------------------
(* The state keeps its shape.                                              *)

LEMMA InitType == ASSUME Init PROVE TypeOK
<1>. USE DEF Init, NoRow, NoSnap, NoJob
<1>1. restored \in Row /\ snap \in Snapshot
  BY DEF Row, Snapshot
<1>2. pc \in [Jobs -> Phases] /\ job \in [Jobs -> Locals]
  BY DEF Phases, Locals
<1>3. samples \subseteq Row /\ findings \subseteq Nat /\ dropped \subseteq Write
  OBVIOUS
<1>. QED  BY <1>1, <1>2, <1>3, ScanAssumption DEF TypeOK

\* Spawning a goroutine and moving it on.
LEMMA SpawnType ==
    ASSUME TypeOK, NEW j \in Jobs, NEW o \in Origins, Spawn(j, o)
    PROVE  pc' \in [Jobs -> Phases] /\ job' \in [Jobs -> Locals]
BY DEF TypeOK, Spawn, Phases, Locals, NoJob

LEMMA GotoType ==
    ASSUME TypeOK, NEW j \in Jobs, NEW from, NEW to \in Phases, Goto(j, from, to)
    PROVE  pc' \in [Jobs -> Phases]
BY DEF TypeOK, Goto

\* The rows of a scan are rows of the table.
LEMMA RowOfType == ASSUME NEW x \in Locals PROVE RowOf(x) \in Row
BY DEF RowOf, Row, Locals

\* One step of some goroutine inside runScan.
LEMMA JobStepType == ASSUME TypeOK, NEW j \in Jobs, JobStep(j) PROVE TypeOK'
<1>. USE DEF TypeOK, Goto, disk
<1>1. CASE Stamp(j)  BY <1>1 DEF Stamp, Phases, Locals
<1>2. CASE Gather(j)  BY <1>2 DEF Gather, Phases, Locals
<1>3. CASE Insert(j)
  <2>1. RowOf(job[j]) \in Row
    BY RowOfType
  <2>2. <<"samples", job[j].now>> \in Write
    BY DEF Write, Locals
  <2>. QED  BY <1>3, <2>1, <2>2 DEF Insert, Phases
<1>4. CASE PruneSamples(j)  BY <1>4 DEF PruneSamples, Phases
<1>5. CASE PruneSkipped(j) \/ PruneFindings(j)
  <2>1. <<"prune", job[j].now>> \in Write
    BY DEF Write, Locals
  <2>. QED  BY <1>5, <2>1 DEF PruneSkipped, PruneFindings, Phases
<1>6. CASE Evaluate(j)  BY <1>6 DEF Evaluate, Phases, Locals
<1>7. CASE PersistFindings(j)
  <2>1. job[j].now \in Nat /\ <<"findings", job[j].now>> \in Write
    BY DEF Write, Locals
  <2>. QED  BY <1>7, <2>1 DEF PersistFindings, Phases
<1>8. CASE Publish(j)  BY <1>8 DEF Publish, Phases, Locals, Snapshot
<1>9. CASE Report(j)  BY <1>9 DEF Report, NoJob, Phases, Locals
<1>10. CASE ReleaseTrigger(j)  BY <1>10 DEF ReleaseTrigger, NoJob, Phases, Locals
<1>11. CASE BotReply(j)  BY <1>11 DEF BotReply, NoJob, Phases, Locals
<1>. QED  BY <1>1, <1>2, <1>3, <1>4, <1>5, <1>6, <1>7, <1>8, <1>9, <1>10, <1>11
          DEF JobStep

\* The end of the process.
LEMMA LoseMemoryType ==
    ASSUME TypeOK, LoseMemory, main' \in {"down", "crashed"} PROVE TypeOK'
<1>. USE DEF TypeOK, LoseMemory, disk
<1>1. restored' \in Row /\ snap' \in Snapshot
  BY DEF Row, NoRow, Snapshot, NoSnap
<1>2. pc' \in [Jobs -> Phases] /\ job' \in [Jobs -> Locals]
  BY DEF Phases, Locals, NoJob
<1>. QED  BY <1>1, <1>2

\* One step of main, of a caller of runScan, or of the environment.
LEMMA NextType == ASSUME TypeOK, [Next]_vars PROVE TypeOK'
<1>1. CASE Boot  BY <1>1 DEF TypeOK, Boot, volatile, disk
<1>2. CASE ReadLatest  BY <1>2 DEF TypeOK, ReadLatest, Newest, Row, NoRow, disk
<1>3. CASE Restore  BY <1>3 DEF TypeOK, Restore, Row, NoRow, Snapshot, disk
<1>4. ASSUME NEW j \in Jobs,
             LaunchStartup(j) \/ CronFire(j) \/ TriggerScan(j) \/ BotScan(j)
      PROVE  TypeOK'
  <2>1. \E o \in Origins : Spawn(j, o)
    BY <1>4 DEF LaunchStartup, CronFire, TriggerScan, BotScan, StartCounted, Origins
  <2>2. pc' \in [Jobs -> Phases] /\ job' \in [Jobs -> Locals]
    BY <2>1, SpawnType
  <2>3. UNCHANGED <<cancelled, restored, snap, disk, clock, dropped>> /\ overlapped' \in BOOLEAN
    BY <2>1 DEF Spawn
  <2>4. main' \in {main, "up"} /\ budget' \in Nat
    BY <1>4 DEF TypeOK, LaunchStartup, CronFire, TriggerScan, BotScan, StartCounted
  <2>5. running' = running \/ running' = TRUE
    BY <1>4 DEF LaunchStartup, CronFire, TriggerScan, BotScan
  <2>. QED  BY <2>2, <2>3, <2>4, <2>5 DEF TypeOK, disk
<1>5. ASSUME NEW j \in Jobs, JobStep(j) PROVE TypeOK'  BY <1>5, JobStepType
<1>6. CASE Signal  BY <1>6 DEF TypeOK, Signal, disk
<1>7. CASE Stop  BY <1>7 DEF TypeOK, Stop, volatile, disk
<1>8. CASE Exit \/ Crash  BY <1>8, LoseMemoryType DEF Exit, Crash
<1>9. CASE Spent \/ UNCHANGED vars  BY <1>9 DEF TypeOK, Spent, vars, volatile, disk
<1>. QED  BY <1>1, <1>2, <1>3, <1>4, <1>5, <1>6, <1>7, <1>8, <1>9 DEF Next

\* Every variable of the pipeline keeps its type in every reachable state.
THEOREM TypeCorrect == Spec => []TypeOK
BY InitType, NextType, PTL DEF Spec

----------------------------------------------------------------------------
(* One manual scan at a time.  The busy flag and the goroutines agree      *)
(* because only the trigger's goroutine reaches "release", and every other *)
(* way to idle belongs to a goroutine of another origin.                   *)

Slots ==
    \A j \in Jobs :
        /\ pc[j] = "idle" <=> job[j].origin = "none"
        /\ pc[j] = "release" => job[j].origin = "http"
        /\ pc[j] = "reply" => job[j].origin = "bot"

ManualInv == TypeOK /\ Slots /\ OneManualScan

LEMMA ManualInit == ASSUME Init PROVE ManualInv
BY InitType DEF Init, ManualInv, Slots, OneManualScan, NoJob

\* The inner steps of runScan do not change who started it.
LEMMA ManualInner ==
    ASSUME ManualInv, NEW j \in Jobs,
           \/ Stamp(j) \/ Gather(j) \/ Insert(j)
           \/ PruneSamples(j) \/ PruneSkipped(j) \/ PruneFindings(j)
           \/ Evaluate(j) \/ PersistFindings(j) \/ Publish(j)
    PROVE  Slots' /\ OneManualScan'
<1>1. /\ UNCHANGED running
      /\ \A i \in Jobs : job'[i].origin = job[i].origin
  BY DEF ManualInv, TypeOK, Goto, Stamp, Gather, Insert, PruneSamples, PruneSkipped,
         PruneFindings, Evaluate, PersistFindings, Publish, Locals
<1>2. /\ \A i \in Jobs \ {j} : pc'[i] = pc[i]
      /\ pc[j] # "idle" /\ pc'[j] \notin {"idle", "release", "reply"}
  BY DEF ManualInv, TypeOK, Goto, Stamp, Gather, Insert, PruneSamples, PruneSkipped,
         PruneFindings, Evaluate, PersistFindings, Publish
<1>. QED  BY <1>1, <1>2 DEF ManualInv, Slots, OneManualScan

LEMMA ManualNext == ASSUME ManualInv, [Next]_vars PROVE ManualInv'
<1>. USE DEF ManualInv
<1>1. TypeOK'
  BY NextType
<1>. SUFFICES Slots' /\ OneManualScan'
  BY <1>1
<1>. USE DEF Slots, OneManualScan
<1>2. ASSUME NEW j \in Jobs, NEW o \in Origins, Spawn(j, o),
             IF o = "http" THEN ~running /\ running' = TRUE ELSE UNCHANGED running
      PROVE  Slots' /\ OneManualScan'
  <2>1. /\ pc[j] = "idle" /\ pc' = [pc EXCEPT ![j] = "spawned"]
        /\ job'[j].origin = o /\ \A i \in Jobs \ {j} : job'[i] = job[i]
    BY <1>2 DEF TypeOK, Spawn, NoJob
  <2>. QED  BY <1>2, <2>1 DEF TypeOK, Origins
<1>3. ASSUME NEW j \in Jobs,
             LaunchStartup(j) \/ CronFire(j) \/ TriggerScan(j) \/ BotScan(j)
      PROVE  Slots' /\ OneManualScan'
  BY <1>2, <1>3 DEF LaunchStartup, CronFire, TriggerScan, BotScan, StartCounted, Origins
<1>4. ASSUME NEW j \in Jobs, JobStep(j) PROVE Slots' /\ OneManualScan'
  <2>1. CASE Report(j)
    <3>1. CASE job[j].origin \in Detached
      BY <2>1, <3>1 DEF Report, Goto, Detached, TypeOK
    <3>2. CASE job[j].origin \notin Detached
      BY <2>1, <3>2 DEF Report, Goto, Detached, TypeOK, NoJob
    <3>. QED  BY <3>1, <3>2
  <2>2. CASE ReleaseTrigger(j)
    BY <2>2 DEF ReleaseTrigger, NoJob, TypeOK
  <2>3. CASE BotReply(j)
    BY <2>3 DEF BotReply, Goto, NoJob, TypeOK
  <2>. QED  BY <1>4, <2>1, <2>2, <2>3, ManualInner DEF JobStep
<1>5. CASE Exit \/ Crash
  BY <1>5 DEF Exit, Crash, LoseMemory, NoJob
<1>6. CASE UNCHANGED <<running, pc, job>>
  BY <1>6
<1>7. Boot \/ ReadLatest \/ Restore \/ Signal \/ Stop \/ Spent \/ UNCHANGED vars
      => UNCHANGED <<running, pc, job>>
  BY DEF Boot, ReadLatest, Restore, Signal, Stop, Spent, vars, volatile
<1>. QED  BY <1>3, <1>4, <1>5, <1>6, <1>7 DEF Next

\* At most one scan of the dashboard's trigger, and the busy flag says which.
THEOREM ManualScansExclusive == Spec => []OneManualScan
<1>1. ManualInv => OneManualScan  BY DEF ManualInv
<1>. QED  BY <1>1, ManualInit, ManualNext, PTL DEF Spec

----------------------------------------------------------------------------
(* The store.  No stamp in memory or on disk is ahead of the clock, so a   *)
(* prune, whose cutoff is the stamp of the scan that makes it, takes only  *)
(* what has left the retention window.                                     *)

Past ==
    /\ snap.taken <= clock /\ restored.taken <= clock
    /\ \A j \in Jobs : job[j].now <= clock
    /\ \A r \in samples : r.taken <= clock
    /\ \A t \in findings : t <= clock

PastInv == TypeOK /\ Past

LEMMA PastInit == ASSUME Init PROVE PastInv
<1>1. Past
  BY DEF Init, Past, NoRow, NoSnap, NoJob
<1>. QED  BY <1>1, InitType DEF PastInv

LEMMA PastNext == ASSUME PastInv, [Next]_vars PROVE PastInv'
<1>. USE DEF PastInv
<1>1. TypeOK'
  BY NextType
<1>. SUFFICES Past'
  BY <1>1
<1>2. ASSUME NEW j \in Jobs,
             LaunchStartup(j) \/ CronFire(j) \/ TriggerScan(j) \/ BotScan(j)
      PROVE  Past'
  <2>1. \E o \in Origins : Spawn(j, o)
    BY <1>2 DEF LaunchStartup, CronFire, TriggerScan, BotScan, StartCounted, Origins
  <2>2. UNCHANGED <<restored, snap, samples, findings, clock>>
    BY <2>1 DEF Spawn, disk
  <2>3. \A i \in Jobs : job'[i].now = job[i].now \/ job'[i].now = 0
    BY <2>1 DEF Spawn, NoJob, TypeOK
  <2>. QED  BY <2>2, <2>3 DEF Past, TypeOK
<1>3. ASSUME NEW j \in Jobs, JobStep(j) PROVE Past'
  <2>. USE DEF Past, TypeOK, Goto, disk
  <2>1. job[j] \in Locals
    OBVIOUS
  <2>2. CASE Stamp(j)
    <3>1. \A i \in Jobs : job'[i].now = job[i].now \/ job'[i].now = clock + 1
      BY <2>2 DEF Stamp, Locals
    <3>. QED  BY <2>2, <3>1, <1>1 DEF Stamp, Row, Snapshot, Locals
  <2>3. CASE Insert(j)
    BY <2>1, <2>3 DEF Insert, RowOf, Row, Locals
  <2>4. CASE PersistFindings(j)
    BY <2>4 DEF PersistFindings
  <2>5. CASE Publish(j)
    BY <2>5 DEF Publish
  <2>6. CASE Gather(j) \/ Evaluate(j)
    <3>1. \A i \in Jobs : job'[i].now = job[i].now
      BY <2>6 DEF Gather, Evaluate, Locals
    <3>. QED  BY <2>6, <3>1 DEF Gather, Evaluate
  <2>7. CASE Report(j) \/ ReleaseTrigger(j) \/ BotReply(j)
    BY <2>7 DEF Report, ReleaseTrigger, BotReply, NoJob
  <2>8. CASE PruneSamples(j) \/ PruneSkipped(j) \/ PruneFindings(j)
    BY <2>8 DEF PruneSamples, PruneSkipped, PruneFindings
  <2>. QED  BY <1>3, <2>2, <2>3, <2>4, <2>5, <2>6, <2>7, <2>8 DEF JobStep
<1>4. CASE ReadLatest
  BY <1>4 DEF ReadLatest, Newest, NoRow, Past, TypeOK, disk
<1>5. CASE Restore
  BY <1>5 DEF Restore, NoRow, Past, TypeOK, disk
<1>6. CASE Exit \/ Crash
  <2>1. /\ restored'.taken = 0 /\ snap'.taken = 0 /\ UNCHANGED <<samples, findings, clock>>
        /\ \A j \in Jobs : job'[j].now = 0
    BY <1>6 DEF Exit, Crash, LoseMemory, NoRow, NoSnap, NoJob, disk
  <2>. QED  BY <2>1 DEF Past, TypeOK
<1>7. CASE Boot \/ Signal \/ Stop \/ Spent \/ UNCHANGED vars
  BY <1>7 DEF Boot, Signal, Stop, Spent, vars, volatile, disk, Past
<1>. QED  BY <1>2, <1>3, <1>4, <1>5, <1>6, <1>7 DEF Next

\* What any step does to the tables: it only takes what is out of the window.
StoreKept ==
    /\ clock' \in Nat /\ clock <= clock'
    /\ dropped \subseteq dropped'
    /\ \A r \in samples : r \in samples' \/ Aged(r.taken)'
    /\ \A t \in findings : t \in findings' \/ Aged(t)'

LEMMA StoreStep == ASSUME PastInv, [Next]_vars PROVE StoreKept
<1>. USE DEF PastInv, StoreKept
<1>1. CASE UNCHANGED <<disk, clock, dropped>>
  BY <1>1 DEF TypeOK, disk
<1>2. ASSUME NEW j \in Jobs, JobStep(j) PROVE StoreKept
  <2>1. job[j].now \in Nat /\ job[j].now <= clock /\ clock \in Nat
    BY DEF TypeOK, Past, Locals
  <2>2. CASE PruneSamples(j)
    BY <2>1, <2>2, ScanAssumption DEF PruneSamples, Goto, Keeps, Aged, Past, TypeOK, Row
  <2>3. CASE PruneFindings(j)
    <3>1. \A t \in findings : t \in findings' \/ Aged(t)'
      BY <2>1, <2>3, ScanAssumption DEF PruneFindings, Keeps, Aged, Past, TypeOK
    <3>. QED  BY <2>1, <2>3, <3>1 DEF PruneFindings
  <2>4. CASE ~PruneSamples(j) /\ ~PruneFindings(j)
    BY <1>2, <2>1, <2>4 DEF JobStep, Stamp, Gather, Insert, PruneSkipped, Evaluate,
       PersistFindings, Publish, Report, ReleaseTrigger, BotReply, disk
  <2>. QED  BY <2>2, <2>3, <2>4
<1>3. ASSUME ~ UNCHANGED <<disk, clock, dropped>> PROVE \E j \in Jobs : JobStep(j)
  BY <1>3 DEF Next, Boot, ReadLatest, Restore, LaunchStartup, CronFire, TriggerScan, BotScan,
     StartCounted, Spawn, Signal, Stop, Exit, Crash, LoseMemory, Spent, vars, volatile, disk
<1>. QED  BY <1>1, <1>2, <1>3

\* A prune never takes a row, or a finding, that is inside the retention window.
THEOREM RetentionIsRespected == Spec => YoungRowsStay
<1>1. PastInv /\ [Next]_vars
      => [ /\ \A r \in samples : r \in samples' \/ Aged(r.taken)'
           /\ \A t \in findings : t \in findings' \/ Aged(t)' ]_vars
  BY StoreStep DEF StoreKept
<1>2. Spec => []PastInv
  BY PastInit, PastNext, PTL DEF Spec
<1>. QED  BY <1>1, <1>2, PTL DEF Spec, YoungRowsStay

----------------------------------------------------------------------------
(* The dashboard shows what SQLite holds.  The invariant follows the rows  *)
(* of a scan from Insert on and its findings from PersistFindings on, and  *)
(* the rows main read at boot until it publishes them: once true of a      *)
(* stamp, StoreStep keeps it true whatever the other goroutines prune.     *)

Inserted == {"prune", "pruneFindings", "evaluate", "persist", "publish", "report",
             "release", "reply"}
Judged == {"publish", "report", "release", "reply"}

Backed ==
    /\ HasRow(restored.taken, restored.parts)
    /\ \A j \in Jobs : pc[j] \in Inserted => HasRow(job[j].now, job[j].parts)
    /\ \A j \in Jobs : pc[j] = "persist" => job[j].parts # {}
    /\ \A j \in Jobs : pc[j] \in Judged /\ job[j].fired => HasFinding(job[j].now)

BackInv == PastInv /\ Backed /\ DashboardIsBacked /\ FindingsHaveSamples

LEMMA BackInit == ASSUME Init PROVE BackInv
<1>1. Backed /\ DashboardIsBacked /\ FindingsHaveSamples
  BY DEF Init, Backed, DashboardIsBacked, FindingsHaveSamples, HasRow, NoRow, NoSnap,
         Inserted, Judged
<1>. QED  BY <1>1, PastInit DEF BackInv

\* Rows and findings that are accounted for stay so.
LEMMA StaysBacked ==
    ASSUME PastInv, [Next]_vars, NEW t \in Nat
    PROVE  /\ \A parts : HasRow(t, parts) => HasRow(t, parts)'
           /\ HasFinding(t) => HasFinding(t)'
           /\ Aged(t) => Aged(t)'
<1>1. Aged(t) => Aged(t)'
  BY StoreStep, ScanAssumption DEF StoreKept, Aged, PastInv, TypeOK
<1>2. ASSUME NEW parts, HasRow(t, parts) PROVE HasRow(t, parts)'
  BY <1>1, <1>2, StoreStep DEF StoreKept, HasRow
<1>3. HasFinding(t) => HasFinding(t)'
  BY <1>1, StoreStep DEF StoreKept, HasFinding
<1>. QED  BY <1>1, <1>2, <1>3

LEMMA BackNext == ASSUME BackInv, [Next]_vars PROVE BackInv'
<1>. USE DEF BackInv
<1>1. PastInv'
  BY PastNext
<1>2. TypeOK /\ TypeOK'
  BY <1>1 DEF PastInv
<1>3. FindingsHaveSamples'
  <2>1. ASSUME NEW t \in findings', t \in findings
        PROVE  \/ \E r \in samples' : r.taken = t
               \/ Aged(t)' \/ <<"samples", t>> \in dropped'
    <3>1. t \in Nat
      BY <2>1, <1>2 DEF TypeOK
    <3>. QED  BY <2>1, <3>1, StoreStep, StaysBacked DEF FindingsHaveSamples, StoreKept
  <2>2. ASSUME NEW t \in findings', t \notin findings
        PROVE  \/ \E r \in samples' : r.taken = t
               \/ Aged(t)' \/ <<"samples", t>> \in dropped'
    <3>1. PICK j \in Jobs : PersistFindings(j) /\ t = job[j].now
      BY <2>2 DEF Next, Boot, ReadLatest, Restore, LaunchStartup, CronFire, TriggerScan,
         BotScan, StartCounted, Spawn, Signal, Stop, Exit, Crash, LoseMemory, Spent, JobStep,
         Stamp, Gather, Insert, PruneSamples, PruneSkipped, PruneFindings, Evaluate,
         PersistFindings, Publish, Report, ReleaseTrigger, BotReply, vars, volatile, disk
    <3>2. PICK parts \in SUBSET Parts : HasRow(t, parts) /\ parts # {} /\ t \in Nat
      BY <3>1, <1>2 DEF PersistFindings, Goto, Backed, Inserted, TypeOK, Locals
    <3>3. HasRow(t, parts)'
      BY <3>2, StaysBacked
    <3>. QED  BY <3>2, <3>3 DEF HasRow
  <2>. QED  BY <2>1, <2>2 DEF FindingsHaveSamples
<1>. DEFINE JobBacked(j) ==
         /\ pc[j] \in Inserted => HasRow(job[j].now, job[j].parts)
         /\ pc[j] = "persist" => job[j].parts # {}
         /\ pc[j] \in Judged /\ job[j].fired => HasFinding(job[j].now)
<1>4. ASSUME NEW j \in Jobs, pc'[j] = pc[j], job'[j] = job[j] PROVE JobBacked(j)'
  <2>1. job[j].now \in Nat
    BY <1>2 DEF TypeOK, Locals
  <2>. QED  BY <1>4, <2>1, StaysBacked DEF Backed
<1>5. ASSUME UNCHANGED <<restored, snap>>
      PROVE  HasRow(restored.taken, restored.parts)' /\ DashboardIsBacked'
  <2>1. restored.taken \in Nat /\ snap.taken \in Nat
    BY <1>2 DEF TypeOK, Row, Snapshot
  <2>. QED  BY <1>5, <2>1, StaysBacked DEF Backed, DashboardIsBacked
<1>. SUFFICES Backed' /\ DashboardIsBacked'
  BY <1>1, <1>3
<1>6. ASSUME NEW j \in Jobs, JobStep(j) PROVE Backed' /\ DashboardIsBacked'
  <2>1. \A i \in Jobs \ {j} : pc'[i] = pc[i] /\ job'[i] = job[i]
    BY <1>2, <1>6 DEF TypeOK, JobStep, Goto, Stamp, Gather, Insert, PruneSamples, PruneSkipped,
       PruneFindings, Evaluate, PersistFindings, Publish, Report, ReleaseTrigger, BotReply
  <2>2. job[j] \in Locals /\ job'[j] \in Locals /\ pc[j] \in Phases /\ pc'[j] \in Phases
    BY <1>2 DEF TypeOK
  <2>3. UNCHANGED restored
    BY <1>6 DEF JobStep, Goto, Stamp, Gather, Insert, PruneSamples, PruneSkipped,
       PruneFindings, Evaluate, PersistFindings, Publish, Report, ReleaseTrigger, BotReply
  <2>4. CASE Insert(j)
    <3>1. HasRow(job[j].now, job[j].parts)' /\ pc'[j] = "prune" /\ UNCHANGED <<job, snap>>
      BY <2>4, <1>2 DEF Insert, Goto, HasRow, RowOf, TypeOK
    <3>. QED  BY <2>1, <2>3, <3>1, <1>4, <1>5 DEF Backed, Judged
  <2>5. CASE pc'[j] \in {"gather", "insert", "idle"} /\ UNCHANGED snap
    BY <2>1, <2>3, <2>5, <1>4, <1>5 DEF Backed, Inserted, Judged
  <2>6. CASE PruneSamples(j) \/ PruneSkipped(j) \/ PruneFindings(j)
    <3>1. /\ pc[j] \in Inserted /\ UNCHANGED <<job, snap>>
          /\ pc'[j] \in {"pruneFindings", "evaluate"}
      BY <2>6, <1>2 DEF PruneSamples, PruneSkipped, PruneFindings, Goto, Inserted, TypeOK
    <3>2. HasRow(job[j].now, job[j].parts)'
      BY <2>2, <3>1, StaysBacked DEF Backed, Locals
    <3>. QED  BY <2>1, <2>3, <3>1, <3>2, <1>4, <1>5 DEF Backed, Judged
  <2>7. CASE Evaluate(j)
    <3>1. /\ pc[j] = "evaluate" /\ UNCHANGED snap
          /\ job'[j].now = job[j].now /\ job'[j].parts = job[j].parts
          /\ \/ pc'[j] = "persist" /\ job[j].parts # {}
             \/ pc'[j] = "publish" /\ ~job'[j].fired
      BY <2>7, <1>2 DEF Evaluate, Goto, TypeOK, Locals
    <3>2. HasRow(job[j].now, job[j].parts)'
      BY <2>2, <3>1, StaysBacked DEF Backed, Inserted, Locals
    <3>. QED  BY <2>1, <2>3, <3>1, <3>2, <1>4, <1>5 DEF Backed, Judged, HasRow, HasFinding, Aged
  <2>8. CASE PersistFindings(j)
    <3>1. pc[j] = "persist" /\ pc'[j] = "publish" /\ UNCHANGED <<job, snap>>
      BY <2>8, <1>2 DEF PersistFindings, Goto, TypeOK
    <3>2. HasRow(job[j].now, job[j].parts)' /\ HasFinding(job[j].now)'
      BY <2>2, <2>8, <3>1, StaysBacked DEF PersistFindings, Backed, Inserted, HasFinding, Locals
    <3>. QED  BY <2>1, <2>3, <3>1, <3>2, <1>4, <1>5 DEF Backed
  <2>9. CASE Publish(j) \/ (Report(j) /\ pc'[j] # "idle")
    <3>1. pc[j] \in Judged /\ pc'[j] \in Judged /\ UNCHANGED job
      BY <2>9, <1>2 DEF Publish, Report, Goto, Judged, Detached, TypeOK
    <3>2. /\ HasRow(job[j].now, job[j].parts)'
          /\ job[j].fired => HasFinding(job[j].now)'
      BY <2>2, <3>1, StaysBacked DEF Backed, Inserted, Judged, Locals
    <3>3. UNCHANGED snap \/ snap' = [taken |-> job[j].now, parts |-> job[j].parts,
                                     alerts |-> job[j].fired]
      BY <2>9 DEF Publish, Report
    <3>4. DashboardIsBacked'
      BY <3>1, <3>2, <3>3, <1>5, <2>3 DEF DashboardIsBacked
    <3>5. Backed'
      <4>1. HasRow(restored.taken, restored.parts)'
        BY <2>3, <1>2, StaysBacked DEF Backed, TypeOK, Row
      <4>. QED  BY <2>1, <3>1, <3>2, <4>1, <1>4 DEF Backed, Judged
    <3>. QED  BY <3>4, <3>5
  <2>10. CASE Stamp(j) \/ Gather(j) \/ ReleaseTrigger(j) \/ BotReply(j)
              \/ (Report(j) /\ pc'[j] = "idle")
    BY <2>5, <2>10, <1>2 DEF Stamp, Gather, ReleaseTrigger, BotReply, Report, Goto, TypeOK
  <2>. QED  BY <1>6, <2>4, <2>6, <2>7, <2>8, <2>9, <2>10 DEF JobStep
<1>7. ASSUME NEW j \in Jobs,
             LaunchStartup(j) \/ CronFire(j) \/ TriggerScan(j) \/ BotScan(j)
      PROVE  Backed' /\ DashboardIsBacked'
  <2>1. PICK o \in Origins : Spawn(j, o)
    BY <1>7 DEF LaunchStartup, CronFire, TriggerScan, BotScan, StartCounted, Origins
  <2>2. /\ pc'[j] = "spawned" /\ UNCHANGED <<restored, snap>>
        /\ \A i \in Jobs \ {j} : pc'[i] = pc[i] /\ job'[i] = job[i]
    BY <2>1, <1>2 DEF Spawn, TypeOK
  <2>. QED  BY <2>2, <1>4, <1>5 DEF Backed, Inserted, Judged
<1>8. CASE ReadLatest
  <2>1. HasRow(restored.taken, restored.parts)'
    BY <1>8, <1>2 DEF ReadLatest, Newest, NoRow, HasRow, TypeOK, Row, disk
  <2>2. UNCHANGED <<pc, job, snap>>
    BY <1>8 DEF ReadLatest
  <2>3. DashboardIsBacked'
    BY <2>2, <1>2, StaysBacked DEF DashboardIsBacked, TypeOK, Snapshot
  <2>. QED  BY <2>1, <2>2, <2>3, <1>4 DEF Backed
<1>9. CASE Restore
  <2>1. UNCHANGED <<pc, job>> /\ HasRow(restored.taken, restored.parts)'
    BY <1>9 DEF Restore, NoRow, HasRow
  <2>2. CASE restored = NoRow
    BY <1>9, <2>1, <2>2, <1>2, <1>4, StaysBacked
       DEF Restore, Backed, DashboardIsBacked, TypeOK, Snapshot
  <2>3. CASE restored # NoRow
    <3>1. snap' = [taken |-> restored.taken, parts |-> restored.parts, alerts |-> FALSE]
      BY <1>9, <2>3 DEF Restore
    <3>2. UNCHANGED <<samples, dropped, clock>> /\ HasRow(restored.taken, restored.parts)
      BY <1>9 DEF Restore, Backed, disk
    <3>3. DashboardIsBacked'
      BY <3>1, <3>2 DEF DashboardIsBacked, HasRow, Aged
    <3>. QED  BY <2>1, <3>3, <1>4 DEF Backed
  <2>. QED  BY <2>2, <2>3
<1>10. CASE Exit \/ Crash
  BY <1>10 DEF Exit, Crash, LoseMemory, Backed, DashboardIsBacked, HasRow, NoRow, NoSnap,
     Inserted, Judged
<1>11. CASE Boot \/ Signal \/ Stop \/ Spent \/ UNCHANGED vars
  <2>1. UNCHANGED <<restored, snap, pc, job>>
    BY <1>11 DEF Boot, Signal, Stop, Spent, vars, volatile
  <2>. QED  BY <2>1, <1>4, <1>5 DEF Backed
<1>. QED  BY <1>6, <1>7, <1>8, <1>9, <1>10, <1>11 DEF Next

\* Whatever scans overlap, fail, or die half-way, the dashboard never shows rows or
\* alerts that are neither stored nor aged out nor reported lost.
THEOREM DashboardBacked == Spec => []DashboardIsBacked
<1>1. BackInv => DashboardIsBacked  BY DEF BackInv
<1>. QED  BY <1>1, BackInit, BackNext, PTL DEF Spec

\* No finding in SQLite without the samples it judged.
THEOREM FindingsBacked == Spec => []FindingsHaveSamples
<1>1. BackInv => FindingsHaveSamples  BY DEF BackInv
<1>. QED  BY <1>1, BackInit, BackNext, PTL DEF Spec

----------------------------------------------------------------------------
(* Scans that do not overlap.  While only one goroutine is under way since *)
(* the process last had none, the last stamp given is that goroutine's, and *)
(* from its publication to the next stamp it is the stamp of the snapshot. *)

\* No two goroutines are under way, and what the one that is has done so far.
Alone ==
    /\ \A i, j \in Jobs : pc[i] # "idle" /\ pc[j] # "idle" => i = j
    /\ \A j \in Jobs : pc[j] \notin {"idle", "spawned"} => job[j].now = clock
    /\ /\ main \in {"up", "stopping"}
       /\ \A j \in Jobs : pc[j] \in {"idle", "report", "release", "reply"}
       => snap.taken = clock

SeqInv == PastInv /\ (~overlapped => Alone)

LEMMA SeqInit == ASSUME Init PROVE SeqInv
<1>1. Alone
  BY DEF Init, Alone
<1>. QED  BY <1>1, PastInit DEF SeqInv

\* A goroutine's step leaves the others alone, and the history of overlaps.
LEMMA JobStepFrame ==
    ASSUME TypeOK, NEW j \in Jobs, JobStep(j)
    PROVE  /\ pc[j] # "idle"
           /\ \A i \in Jobs \ {j} : pc'[i] = pc[i] /\ job'[i] = job[i]
           /\ UNCHANGED <<main, overlapped>>
BY DEF TypeOK, JobStep, Goto, Stamp, Gather, Insert, PruneSamples, PruneSkipped,
   PruneFindings, Evaluate, PersistFindings, Publish, Report, ReleaseTrigger, BotReply

\* A new goroutine runs alone when all the others are idle.
LEMMA LaunchFrame ==
    ASSUME TypeOK, NEW j \in Jobs,
           LaunchStartup(j) \/ CronFire(j) \/ TriggerScan(j) \/ BotScan(j)
    PROVE  /\ pc'[j] = "spawned"
           /\ \A i \in Jobs \ {j} : pc'[i] = pc[i]
           /\ UNCHANGED <<snap, disk, clock, dropped>>
           /\ ~overlapped' => \A i \in Jobs : pc[i] = "idle"
BY DEF TypeOK, LaunchStartup, CronFire, TriggerScan, BotScan, StartCounted, Spawn

LEMMA SeqNext == ASSUME SeqInv, [Next]_vars PROVE SeqInv'
<1>1. PastInv'
  BY PastNext DEF SeqInv
<1>. SUFFICES ASSUME ~overlapped' PROVE Alone'
  BY <1>1 DEF SeqInv
<1>2. TypeOK
  BY DEF SeqInv, PastInv
<1>3. ASSUME NEW j \in Jobs, JobStep(j) PROVE Alone'
  <2>1. Alone
    BY <1>2, <1>3, JobStepFrame DEF SeqInv
  <2>2. /\ pc[j] # "idle" /\ UNCHANGED main
        /\ \A i \in Jobs \ {j} : pc[i] = "idle" /\ pc'[i] = "idle"
    BY <1>2, <1>3, <2>1, JobStepFrame DEF Alone
  <2>. SUFFICES /\ pc'[j] \notin {"idle", "spawned"} => job'[j].now = clock'
                /\ main \in {"up", "stopping"} /\ pc'[j] \in {"idle", "report", "release", "reply"}
                      => snap'.taken = clock'
    BY <2>2 DEF Alone
  <2>3. pc \in [Jobs -> Phases] /\ job \in [Jobs -> Locals] /\ job[j] \in Locals
    BY <1>2 DEF TypeOK
  <2>4. CASE Stamp(j)
    BY <2>3, <2>4 DEF Stamp, Goto, Locals
  <2>5. CASE \/ Gather(j) \/ Insert(j) \/ PruneSamples(j) \/ PruneSkipped(j)
             \/ PruneFindings(j) \/ Evaluate(j) \/ PersistFindings(j)
    <3>1. /\ UNCHANGED clock
          /\ pc[j] \notin {"idle", "spawned"}
          /\ pc'[j] \notin {"idle", "spawned", "report", "release", "reply"}
          /\ job'[j].now = job[j].now
      BY <2>3, <2>5 DEF Gather, Insert, PruneSamples, PruneSkipped, PruneFindings, Evaluate,
         PersistFindings, Goto, Locals
    <3>. QED  BY <2>1, <3>1 DEF Alone
  <2>6. CASE Publish(j)
    BY <2>1, <2>3, <2>6 DEF Alone, Publish, Goto
  <2>7. CASE Report(j) \/ ReleaseTrigger(j) \/ BotReply(j)
    <3>1. /\ UNCHANGED <<clock, snap>>
          /\ pc[j] \in {"report", "release", "reply"}
          /\ pc'[j] \in {"idle", "release", "reply"}
          /\ pc'[j] # "idle" => UNCHANGED job
      BY <2>3, <2>7 DEF Report, ReleaseTrigger, BotReply, Goto, Detached
    <3>. QED  BY <2>1, <2>2, <3>1 DEF Alone
  <2>. QED  BY <1>3, <2>4, <2>5, <2>6, <2>7 DEF JobStep
<1>4. ASSUME NEW j \in Jobs,
             LaunchStartup(j) \/ CronFire(j) \/ TriggerScan(j) \/ BotScan(j)
      PROVE  Alone'
  <2>1. pc'[j] = "spawned" /\ \A i \in Jobs \ {j} : pc'[i] = "idle"
    BY <1>2, <1>4, LaunchFrame
  <2>. QED  BY <2>1 DEF Alone
<1>5. CASE Boot \/ ReadLatest \/ Restore
  <2>1. /\ UNCHANGED <<pc, job, clock, overlapped>>
        /\ main \notin {"up", "stopping"} /\ main' \notin {"up", "stopping"}
    BY <1>5 DEF Boot, ReadLatest, Restore, volatile
  <2>. QED  BY <2>1 DEF SeqInv, Alone
<1>6. CASE Exit \/ Crash
  BY <1>6 DEF Exit, Crash, LoseMemory, Alone
<1>7. CASE Stop \/ Signal \/ Spent \/ UNCHANGED vars
  <2>1. /\ UNCHANGED <<pc, job, clock, overlapped, snap>>
        /\ UNCHANGED main \/ (main = "up" /\ main' = "stopping")
    BY <1>7 DEF Stop, Signal, Spent, vars, volatile
  <2>. QED  BY <2>1 DEF SeqInv, Alone
<1>. QED  BY <1>3, <1>4, <1>5, <1>6, <1>7 DEF Next

\* Scans that ran one at a time leave the dashboard up to date with SQLite, whatever was
\* before them.  The run scan_overlap shows that the premise is needed.
THEOREM SequentialScans == Spec => []SnapshotIsMostRecent
<1>1. SeqInv => SnapshotIsMostRecent
  BY DEF SeqInv, PastInv, Past, Alone, SnapshotIsMostRecent, Settled
<1>2. SeqInv /\ [Next]_vars => SeqInv'
  BY SeqNext
<1>. QED  BY <1>1, <1>2, SeqInit, PTL DEF Spec

-----------------------------------------------------------------------------
(* Retention without overlap.  From the prune of a scan that runs alone to *)
(* the next stamp the tables are cut to the last stamp, unless the prune   *)
(* failed.                                                                 *)

YoungSamples == \A r \in samples : r.taken + Retention >= clock
YoungFindings == \A t \in findings : t + Retention >= clock

\* The goroutine has a prune behind it since the last stamp.
PastPrune == {"evaluate", "persist", "publish", "report", "release", "reply"}

\* The last scan has a prune behind it: it is that far, or the process is idle.
Pruned ==
    \/ \E j \in Jobs : pc[j] \in PastPrune
    \/ main \in {"up", "stopping"} /\ \A j \in Jobs : pc[j] = "idle"

Cut ==
    ~overlapped /\ Retention > 0 =>
        /\ \A j \in Jobs : pc[j] = "pruneFindings" => YoungSamples
        /\ Pruned /\ <<"prune", clock>> \notin dropped => YoungSamples /\ YoungFindings

CutInv == SeqInv /\ Cut

LEMMA CutInit == ASSUME Init PROVE CutInv
<1>1. Cut
  BY DEF Init, Cut, Pruned, PastPrune
<1>. QED  BY <1>1, SeqInit DEF CutInv

\* A step that leaves the tables and the stamps alone, and prunes nothing.
LEMMA CutKept ==
    ASSUME CutInv, UNCHANGED <<disk, clock>>, dropped \subseteq dropped',
           overlapped => overlapped',
           \A j \in Jobs : pc'[j] = "pruneFindings" => pc[j] = "pruneFindings",
           Pruned' => Pruned
    PROVE  Cut'
BY DEF CutInv, Cut, YoungSamples, YoungFindings, disk

LEMMA CutNext == ASSUME CutInv, [Next]_vars PROVE CutInv'
<1>1. SeqInv'
  BY SeqNext DEF CutInv
<1>. SUFFICES Cut'
  BY <1>1 DEF CutInv
<1>2. TypeOK /\ Cut /\ (~overlapped => Alone)
  BY DEF CutInv, SeqInv, PastInv
<1>3. Retention \in Nat /\ clock \in Nat
  BY <1>2, ScanAssumption DEF TypeOK
<1>4. ASSUME NEW j \in Jobs, JobStep(j) PROVE Cut'
  <2>. SUFFICES ASSUME ~overlapped', Retention > 0
       PROVE  /\ \A i \in Jobs : pc'[i] = "pruneFindings" => YoungSamples'
              /\ Pruned' /\ <<"prune", clock'>> \notin dropped'
                    => YoungSamples' /\ YoungFindings'
    BY DEF Cut
  <2>1. Alone /\ ~overlapped /\ pc[j] # "idle"
    BY <1>2, <1>4, JobStepFrame
  <2>2. /\ UNCHANGED main
        /\ \A i \in Jobs \ {j} : pc[i] = "idle" /\ pc'[i] = "idle"
    BY <1>2, <1>4, <2>1, JobStepFrame DEF Alone
  <2>3. Pruned' => pc'[j] \in PastPrune \cup {"idle"}
    BY <2>2 DEF Pruned, PastPrune
  <2>4. \A i \in Jobs : pc'[i] = "pruneFindings" => i = j
    BY <2>2
  <2>5. pc \in [Jobs -> Phases] /\ job \in [Jobs -> Locals]
    BY <1>2 DEF TypeOK
  <2>. SUFFICES /\ pc'[j] = "pruneFindings" => YoungSamples'
                /\ pc'[j] \in PastPrune \cup {"idle"} /\ <<"prune", clock'>> \notin dropped'
                      => YoungSamples' /\ YoungFindings'
    BY <2>3, <2>4
  <2>6. CASE Stamp(j) \/ Gather(j) \/ Insert(j)
    BY <2>5, <2>6 DEF Stamp, Gather, Insert, Goto, PastPrune
  <2>7. CASE PruneSamples(j)
    <3>1. job[j].now = clock /\ pc'[j] = "pruneFindings" /\ clock' = clock
      BY <2>1, <2>5, <2>7 DEF PruneSamples, Goto, Alone
    <3>2. YoungSamples'
      BY <3>1, <2>7 DEF PruneSamples, Keeps, YoungSamples
    <3>. QED  BY <3>1, <3>2 DEF PastPrune
  <2>8. CASE PruneSkipped(j)
    <3>1. job[j].now = clock /\ pc'[j] = "evaluate" /\ clock' = clock
      BY <2>1, <2>5, <2>8 DEF PruneSkipped, Goto, Alone
    <3>2. <<"prune", clock>> \in dropped'
      BY <1>3, <3>1, <2>8 DEF PruneSkipped
    <3>. QED  BY <3>1, <3>2
  <2>9. CASE PruneFindings(j)
    <3>1. /\ job[j].now = clock /\ pc'[j] = "evaluate" /\ UNCHANGED <<clock, samples>>
          /\ YoungSamples
      BY <1>2, <2>1, <2>5, <2>9 DEF PruneFindings, Goto, Alone, Cut
    <3>2. \/ <<"prune", clock>> \in dropped'
          \/ findings' = {t \in findings : Keeps(clock, t)}
      BY <3>1, <2>9 DEF PruneFindings
    <3>. QED  BY <3>1, <3>2 DEF Keeps, YoungSamples, YoungFindings
  <2>10. CASE PersistFindings(j)
    <3>1. job[j].now = clock /\ pc'[j] = "publish" /\ Pruned
      BY <2>1, <2>5, <2>10 DEF PersistFindings, Goto, Alone, Pruned, PastPrune
    <3>2. /\ UNCHANGED <<clock, samples>>
          /\ dropped \subseteq dropped' /\ findings' \subseteq findings \cup {clock}
      BY <2>10, <3>1 DEF PersistFindings
    <3>. QED  BY <1>2, <1>3, <2>1, <3>1, <3>2 DEF Cut, YoungSamples, YoungFindings
  <2>11. CASE \/ Evaluate(j) \/ Publish(j) \/ Report(j) \/ ReleaseTrigger(j) \/ BotReply(j)
    <3>1. /\ UNCHANGED <<disk, clock, dropped>>
          /\ pc'[j] # "pruneFindings" /\ Pruned
      BY <2>5, <2>11 DEF Evaluate, Publish, Report, ReleaseTrigger, BotReply, Goto, Pruned,
         PastPrune
    <3>. QED  BY <1>2, <2>1, <3>1 DEF Cut, YoungSamples, YoungFindings, disk
  <2>. QED  BY <1>4, <2>6, <2>7, <2>8, <2>9, <2>10, <2>11 DEF JobStep
<1>5. ASSUME NEW j \in Jobs,
             LaunchStartup(j) \/ CronFire(j) \/ TriggerScan(j) \/ BotScan(j)
      PROVE  Cut'
  <2>1. ~overlapped' => pc'[j] = "spawned" /\ \A i \in Jobs \ {j} : pc'[i] = "idle"
    BY <1>2, <1>5, LaunchFrame
  <2>. QED  BY <2>1 DEF Cut, Pruned, PastPrune
<1>6. CASE Boot \/ ReadLatest \/ Restore
  <2>1. /\ UNCHANGED <<pc, disk, clock, dropped, overlapped>>
        /\ main' \notin {"up", "stopping"}
    BY <1>6 DEF Boot, ReadLatest, Restore, volatile
  <2>. QED  BY <2>1, CutKept DEF Pruned
<1>7. CASE Exit \/ Crash
  BY <1>7 DEF Exit, Crash, LoseMemory, Cut, Pruned, PastPrune
<1>8. CASE Stop
  <2>1. /\ UNCHANGED <<pc, disk, clock, dropped, overlapped>> /\ main = "up"
    BY <1>8 DEF Stop, volatile
  <2>. QED  BY <2>1, CutKept DEF Pruned
<1>9. CASE Signal \/ Spent \/ UNCHANGED vars
  <2>1. UNCHANGED <<pc, main, disk, clock, dropped, overlapped>>
    BY <1>9 DEF Signal, Spent, vars, volatile, disk
  <2>. QED  BY <2>1, CutKept DEF Pruned
<1>. QED  BY <1>4, <1>5, <1>6, <1>7, <1>8, <1>9 DEF Next

\* A scan that ran alone leaves both tables inside its retention window, unless its Prune
\* failed: what overlapping scans, or a crash between Insert and Prune, left behind is
\* taken by it.
THEOREM RetentionKept == Spec => []RetentionHolds
<1>1. CutInv => RetentionHolds
  <2>. SUFFICES ASSUME CutInv, Settled, ~overlapped, Retention > 0,
                       <<"prune", snap.taken>> \notin dropped
       PROVE  /\ \A r \in samples : r.taken + Retention >= snap.taken
              /\ \A t \in findings : t + Retention >= snap.taken
    BY DEF RetentionHolds
  <2>1. snap.taken = clock /\ Pruned
    BY DEF CutInv, SeqInv, Alone, Settled, Pruned
  <2>. QED  BY <2>1 DEF CutInv, Cut, YoungSamples, YoungFindings
<1>2. CutInv /\ [Next]_vars => CutInv'
  BY CutNext
<1>. QED  BY <1>1, <1>2, CutInit, PTL DEF Spec

============================================================================
