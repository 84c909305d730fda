# Server Space Manager: verification project

TLA+ models of the daemon `ssm` (Go, `src/cmd/ssm` and `src/internal`), the TLC runs
that check them on small instances, and TLAPS proofs of their main properties for every
value of the constants. Run inside this directory:

    tlc -workers 2 -config ScanCore.cfg MCScanService.tla
    tlapm ScanServiceProofs.tla

## The system

`ssm` measures disk usage every hour, keeps the history in SQLite, raises alerts and
shows a dashboard. One process, many goroutines:

| Component | Source | State | Operations |
|---|---|---|---|
| life cycle | `main.go` | context, scheduler | boot, restore, start jobs, signal, exit |
| scan pipeline | `main.go` runScan | none of its own | gather, Insert, Prune, Evaluate, InsertFindings, SetSnapshot, report |
| store | `sqlite.go` | tables `samples`, `findings` | inserts, prune, LatestScan, GrowthSince, BaselineAnomalies, RecentFindings |
| HTTP server | `server.go` | snapshot, busy flags, sessions, token bucket | login/logout, triggers, ask, summary, findings |
| notifier | `telegram.go` | dedupe map | Send, sweep |
| command bot | `telegram_bot.go` | offset | poll, handle, runAsync, runSync, reply |
| Docker scanner | `docker.go` | one scan's volumesInUse | Scan |
| host scanner | `host*.go`, `bigfiles.go` | one walk's sums, the heap of big files | Scan, walkPath, consider |
| rules | `rules.go` | none | Evaluate |
| AI review | `aireview.go` | none | RunReview, RunDigest |
| LLM client, config, version, page | `vllm.go`, `config.go`, `version.go`, `dashboard.html` | none | request, load, render |

They interact by calls and by four pieces of shared state: the two tables, the snapshot,
the dedupe map and the busy flags. A scan is started by four kinds of goroutine (startup,
cron, `POST /api/trigger/scan`, `/scan` in the chat) that share no lock. Nothing is
persisted but the tables.

What is hard to test: scans that overlap; a kill or a SIGTERM between two steps of a
scan; writes that fail one by one; times that are read before a lock; an LLM and a
Telegram that answer late, twice or not at all; two lists of the Docker daemon taken
minutes apart; a disk that changes under a walk; caps and windows at their boundaries. `PROJECT.json` lists each hazard at
its line, with the property that would show it going wrong.

What makes each component correct:

* pipeline: the dashboard shows nothing SQLite does not hold, the two tables agree after
  a crash anywhere, retention takes nothing young, the newest scan is the one shown;
* life cycle: a stop ends the process, and a cron scan is completed first;
* server: only live sessions enter, none is swept, the LLM is asked at the promised rate,
  one manual job at a time, and the button comes back;
* notifier: one message per key and window, no longer silence than that, a bounded map;
* rules: a message on every file system that is due, at its level, passes the gate, whatever fails;
* bot: commands in order, once, none lost, no flood of old ones, each run to its end;
* host: directories add up, the biggest files are kept;
* Docker: an orphan was unmounted, an outage takes away results and invents none;
* review and digest: only measured items are judged, verdicts are recorded, growth is
  growth, the queries compute what their comments say.

## Modules

| Module | Models | Runs | Proofs |
|---|---|---|---|
| `ScanService` | runScan, its four origins, Insert/Prune/InsertFindings/LatestScan, snapshot, trigger, boot and exit | `scan_core`, `scan_liveness`, `scan_overlap`, `scan_chat_stop` | `ScanServiceProofs` |
| `Notifier` | `Telegram.Send`, `sweepLocked` | through `Alerting` | `NotifierProofs` |
| `Alerting` | `alert.Evaluate` and the other senders over `Notifier` | `alerting` | `AlertingProofs` |
| `Inbox` | abstract: what the bot promises | as a property of `bot` | |
| `CommandBot` | `Run`, `poll`, `handle`, `runAsync`; Telegram's queue | `bot`, `bot_fresh` | `CommandBotProofs` |
| `Reception` | abstract: what the dashboard promises at its door and at the gate to the LLM | as a property of `dashboard` | |
| `Dashboard` | sessions, auth, token bucket, `/api/ask` | `dashboard` | `DashboardProofs` |
| `HostTree` | paths, the directories a file is charged to, the heap's `consider` | through `ScanPass` | |
| `HostScan` | `HostScanner.Scan` on a disk that changes | through `ScanPass` | `ScanPassProofs` |
| `DockerScan` | `DockerScanner.Scan` against a daemon that goes on working | `docker_outage` | `DockerScanProofs` |
| `ScanPass` | runScan's gathering: `HostScan`, then `DockerScan` | `docker` | `ScanPassProofs` |
| `Review` | `RunReview`, `GrowthSince`, `BaselineAnomalies` | through `Digest` | `ReviewProofs` |
| `Digest` | `RunDigest` beside the reviews | `review` | `ReviewProofs` |

`Alerting` and `Digest` extend the module they drive, so that its invariants are checked
where its callers are; `ScanPass` extends its two parts, which share no state.
`MC*.tla` extend a module with the symmetry sets of its configuration. Definitions named
after a mutation (`TriggerUnguarded`, `KeepsTooLittle`, ...), each preceded by a comment
"Mutant", are broken versions of the definition that follows: with it in its place TLC
finds a property violated. `Next` uses none of them.

### ScanService

State: `main` (where func main is), `cancelled` (the signal context), `restored` (the
result of LatestScan), `snap`, `running`, per goroutine `pc` and `job` (its locals), the
tables `samples` and `findings`, and `clock`, the number of stamps taken. Each action is
one call of runScan that reads or writes shared state, in the order of the code:
`Stamp`, `Gather`, `Insert`, `PruneSamples`, `PruneFindings`, `Evaluate`,
`PersistFindings`, `Publish`, `Report`, then the caller's `ReleaseTrigger` or `BotReply`.
A scan's rows are one record (its stamp and the parts, host and docker, it got), its
findings are its stamp. `dropped` remembers the writes that returned an error, which the
code only logs; properties that are lost with such a write say so. `overlapped` remembers
whether scans have been under way together since one last began alone: the snapshot's
being the newest, and what retention leaves, hold of scans that ran alone only, and say
so. Notifications have no
effect on the pipeline (every error of Send is ignored) and are not state here.

The constant `Faults` says what the environment may do. `Crash` stands for kill -9 and
for `log.Fatalf` (HTTP cannot listen, a bad schedule); `Signal`, `Stop` and `Exit` for SIGTERM: main returns and
its deferred call waits for the goroutines of cron, and only for these.

### Notifier

`Send` is two steps: `Begin` reads the time, `Suppress` or `Accept` is the critical
section; `Finish` is the POST coming back, whatever its outcome. Time is discrete and
`Tick` lets a goroutine lag by at most `MaxStall` behind. The map holds the time of each
key, 0 for absent. One life of the process: a restart forgets the map.

### Alerting

A scan's goroutine takes its fs samples (`batch`, each any of `Capacities`) through the
loop of Evaluate: `BeginEvaluate`, then for each sample that is due `Raise` (Send is
entered), `Passes` or not (the gate of `Notifier`), `Returns`. Samples that are not due
are skipped in the step that goes past them. `SendOther` is every other sender, with keys
that are no rule's (announcements, reports, the digest's hour). The percentages are
compared exactly, without float64's rounding. The histories `told` and `since` say when a
level was last accepted and when the evaluation began. Accepted is by the gate, before the
POST: a message that Telegram then refuses counts, in `told` as in the dedupe map, and
`EveryLevelIsTold` does not say that the chat has read it.

### CommandBot

Telegram's queue is external: `FirstKept` and `Answer` say what getUpdates confirms, forgets
and returns for an offset. `Poll` is one successful request and the code up to the return
of `poll`; `PollError` is a failure before or after Telegram saw the request. `Handle`
is one turn of Run's inner loop. Deaths lose offset, batch and running commands.
`JobDone` is the end of runAsync's goroutine, which replies if its handler returned text
(`telegram_bot.go:278`): OnScan and OnReview always do, OnDigest only of an error
(`main.go:258`), so the end of a digest may be silent, and `CommandIsAnswered` asks of it
no more than that it ends. A command is `answered` when Send was called with its result;
the code drops the error of that call (`telegram_bot.go:306`).
The mapping to `Inbox` is: `sent` the number of updates, `since` those sent before the boot,
`at` and `count` the last handled update and how many were handled; polls, retries and
answers are stutters. Of a
backlog the last update is received and handled, although a comment speaks of skipping
"any backlog" (`telegram_bot.go:98`); `NoStaleFlood` states the bound the code keeps.

### Dashboard

`Login`, `Logout`, `Admit` and `Reject` are the critical sections of the session map,
`Ask` and `Limited` those of the bucket; requests stop in between. `Restart` forgets all.
A password is configured: with an empty one `auth` lets everybody pass (`server.go:284`) and
the sessions decide nothing. The comment at `server.go:107-109` speaks of a sweep at every login; the code sweeps at the
cap only, and `OverflowSpansOneTTL` states what that still bounds. The history `mark` and
`grants` count the requests let through from an arbitrary moment on.
The mapping to `Reception`, where sessions end and tokens fall at their moment: `until` is
the time of issue plus TTL, closed by a logout or a restart, whatever the map holds;
`tokens` is the bucket as `Take` would find it now (`Refilled`), and `phase` the ticks since
the last token fell, the remainder that `Take` carries over in `last`. `Admit` and `Reject`
map to entering and being turned away, `Ask` and `Limited` to being served and refused,
`Tick` to the fall of a token where one is due; sweeps, deletions on sight and refills are
part of these steps.

### HostTree, HostScan

A path is the sequence of its names. `Files` are the files there may be, in the order of
the walk; `disk` says which exist, and how large. `Charged` is the loop that climbs from a
file's directory, with `strings.Count` as the code has it: for the root `/` the limit is
one level deeper than for any other root. `Meet` is one call of the walk's function that
gets to its end, `PassOver` every early return of it, a file that vanished or cannot be
read included; `Write` writes and removes files in between. The heap is the set of its
entries and gives up any smallest one (`Considered`). The history `met` holds what was
walked over, with the sizes of that moment: what the samples are measured against. An
unreadable or ignored directory is all of its files being passed over; symbolic links are
never followed by WalkDir and are files here. Roots are absolute and clean. A root may be
a file (`WalkDir` then meets just that): it is charged to `/` if it lies there and to no
directory otherwise. `DirectoriesAddUp` is about `DirectoryRoots`, the roots that no file
takes the place of, as the option is for "directories to walk" (`src/README.md:118`).
The heap has no such limit.

### DockerScan

A scan is `Begin`, the list of containers (`ListContainers`, or its failure), one
`Inspect` per container, the list of volumes (or its failure, or `TrackVolumes` off), the
images. Between any two steps the daemon creates and removes containers and volumes. The
histories `unusedAt`, `usedAt` and `born` hold which volumes were there unmounted, were
mounted, and were created at some moment of the scan. A volume that is created after the
list of containers was taken is in the list of volumes and in no list of mounts: it is
called an orphan even if a container mounted it from its first moment. `OrphansWereUnused`
exempts just these.
`ScanPass` runs it after the host's walk, in the one goroutine of a scan.

### Review

The table of samples is explicit here: items with sizes at moments. `Growth`,
`GrowthSince`, `Verdicts` and `BaselineAnomalies` are the two SQL queries, with every
choice SQL leaves open (equal ranks, equal deltas) left open. `Scan` is a scan of
`ScanService` as the table sees it. One kind of items stands for the five the code loops
over, each with a query of its own.

The driver (`modernc.org/sqlite`, opened with a plain path at `sqlite.go:25`) stores a time
as `time.Time.String()` writes it, `2024-05-01 12:00:00.1 +0000 UTC`. Times are stored in
UTC, and the container's zone is UTC, so that comparing the texts (`taken_at >= ?`, MIN, MAX)
compares the times. But `strftime('%s', ...)` gives NULL for such a text: the two distances by
which BaselineAnomalies ranks rows (`sqlite.go:281-282`) are always NULL, and the rows it
takes for "a day ago" and "the start of the baseline" are any rows of the window. `Verdicts`
has it so, and `review_baseline` shows what it means.

### Digest

`RunDigest` over the same table: `BeginDigest` reads the time, `QueryGrowers` the growth of
the day, the LLM answers or not, `SendDigest` sends what is named. One digest at a time:
it writes nothing that another reads. Whether there are numbers for the header is left
open, which decides only whether an empty digest is sent.

## Runs

| Run | Bounds | Shows |
|---|---|---|
| `scan_core` | 2 goroutines, 3 scans, retention of 1 stamp, kills, a failed restore, failing writes and prunes | overlap and crashes: `DashboardIsBacked`, `FindingsHaveSamples`, `YoungRowsStay`, `OneManualScan`; after scans that ran alone: `SnapshotIsMostRecent`, `RetentionHolds` |
| `scan_liveness` | 2 goroutines, 2 scans, SIGTERM, kills, failed walks of the host and of Docker | `TriggerIsReleased`, `StopCompletes`, `CronScanCompletes` |
| `scan_overlap` | 2 goroutines, 2 scans, no fault | violated: the older scan publishes over the chat's newer one, whose reply then tells the older |
| `scan_chat_stop` | 2 goroutines, 2 scans, SIGTERM | violated: a chat scan does not survive SIGTERM |
| `alerting` | 2 goroutines, 2 file systems of 3 capacities, 5 keys, window 3, cap 1, stall 1, 6 ticks, 2 rounds (an evaluation with something to tell, or another message) | `EveryLevelIsTold`, `OncePerWindow`, `SilenceIsBounded`, `OverflowSpansOneWindow` |
| `bot` | 3 updates, 1 death, 2 failed polls, 2 updates per answer | `ImplementsInbox`, `NoStaleFlood`, `NoLossOnceSynced`, `CommandIsAnswered` |
| `bot_fresh` | 2 updates, no deaths, no failed polls | violated: with offset -1 updates between two polls are forgotten |
| `dashboard` | 2 requests, 2 logins, TTL 2, cap 1, bucket 2, refill 2, 5 ticks, 1 restart | `ImplementsReception`, `OnlyLiveSessionsEnter`, `LiveSessionsStay`, `OverflowSpansOneTTL`, `RateIsCapped` |
| `docker` | 3 files of 2 sizes (one ignored below one root), 3 overlapping roots (`/` among them, one without limit), a heap of 2, 1 change of the disk; then 2 containers, 2 volumes, 2 changes of the daemon | `DirectoriesAddUp`, `BiggestFilesAreKept`, `OrphansWereUnused`, `UsedWereMounted` |
| `docker_outage` | the same daemon | violated: a failed list of containers makes mounted volumes orphans |
| `review` | 1 review or digest, 2 items, 2 sizes, 5 ticks, 3 scans that find something, baseline of 1 day, retention of 1 tick | `GrowthIsExact`, `FindingsWereMeasured`, `AlertsAreRecorded`, `AlertsAreAttempted`, `DigestsNameGrowth` |
| `review_baseline` | 1 review, 1 item, 3 sizes, 3 ticks | violated: with a row for each of its three moments the baseline query can still take others |

Why these bounds: two goroutines are what an overlap needs, a third stamp is what lets
one row age while two scans race, and every run's cap, window and limit is smaller than
the number of things it limits, so that the overflow, the sweep, the expiry, the refusal
and the cut happen. A retention of 1 stamp makes a scan prune what the scan before the
last wrote. The alerting run has time for a window to end inside it (6 ticks, window 3)
and one key in the map makes the next overflow it. Three roots are what `/`, a root under
another and a root without a limit need; with the heap smaller than the entries met, ties
and displacements happen. The dashboard's 5 ticks hold two TTLs and two refills,
with a tick left over for a remainder. A review and a digest write nothing in common, so one of
either beside the scans is enough; its 5 ticks are more than a query's reach and a stall
(2 and 1), so that a row can be too old for a verdict. Type invariants are checked once per composition.

The five violated runs are disagreements of the code with its own comments; each is
listed under "findings" with the quoted line.

## Fairness

`ScanService`: weak fairness of each goroutine's next step and of main's. The code blocks
nowhere for ever: walks are finite, Docker and Telegram calls have a 15 s timeout, SQLite
calls return. No trigger, signal, boot or crash is fair. `CommandBot`: weak fairness of
the loop's local steps and of the commands' goroutines, strong fairness of `Poll`: the
retry of an unlimited number of failing polls is assumed to succeed at last, which the
comment on Run ("transient network blips") presupposes.

## Proofs

Each proof module proves its theorems as `Init => IInv`, `IInv /\ [Next]_vars => IInv'`,
`IInv => Inv`, for any number of goroutines, senders, requests, containers, volumes and
any value of windows, caps and retention, from the named assumptions of the constants
(naturals; positive where the code has a positive literal).

* `ScanServiceProofs`. `ManualScansExclusive`: the busy flag is up exactly while an http
  job exists. `RetentionIsRespected`: no job is stamped after the clock, so no cutoff is.
  `DashboardBacked` and `FindingsBacked` need a strengthening that follows each goroutine
  through the pipeline: past its insert, its rows are stored, aged, empty or dropped;
  past its persist, so are its findings; what main is restoring is stored or aged.
  `SequentialScans`: as long as nothing overlapped, one goroutine at most is under way and
  has the newest stamp; every row is at most as new, and the snapshot is that scan once it
  has published (`SeqInv`). `RetentionKept` adds what a prune has cut, which stays cut until
  the next stamp (`CutInv`). Neither assumes that scans do not overlap: the state says
  whether they have.
* `NotifierProofs`. The map never lies about an acceptance that still matters: an entry
  that is gone was accepted a window ago. The stall bounds how far a decision's time lies
  behind the clock.
* `AlertingProofs`. `RulesKeepTheGate`: every step of the composition is a step or a stutter
  of `Notifier`, whose theorems so hold with the rules on top (`AlarmsAreDeduped`).
  `LevelsAreTold`: the invariant says that `told` is `accepted` under the rules' keys, which
  nobody else uses, and that all samples before the one at hand have been told of; a
  suppressed message was, by `SilenceBounded`'s argument, told of a window ago at most.
* `CommandBotProofs`. What was handled and what waits in the batch are one gapless run of
  updates, the offset is the next, and Telegram has forgotten nothing from the offset on
  (`BotInv`). `BotImplementsInbox` maps each action to a step of `Inbox` or a stutter.
* `ScanPassProofs`. `DirectoriesSum`: the climb of `Charged` is a recursive function and a
  total a fold over a set, and neither is out of reach: the climb's result is written down
  outright (`Wanted`), shown to satisfy the loop's equation, and any other solution would
  differ from it at a lowest level first (`ChargedAreWanted`); a total is a function on
  subsets fixed by what one more entry adds (`SumsExist`, `SumsAgree`, `BytesOfOneMore`),
  by the smallest subset on which that failed. The recursion's schema, which the prover
  cannot instantiate, is so replaced by well-foundedness and a least counterexample.
  The invariant `Tally` then says of each key of `sizes` that it is due and holds the bytes
  met beneath it; a step of the walk adds one entry to `met` and its size to exactly the
  totals of the directories charged. `BiggestAreKept`: a heap of `Top` entries stays one
  when one more file is offered (`ConsideredKeeps`, by cardinalities); the walk never meets
  an entry twice. A pass
  is a behaviour of the walk and of the Docker scan (`PassWalksHost`, `PassScansDocker`), so
  what is proved of either holds in it (`PassKeepsPromises`).
* `DashboardProofs`. `RateCapped`: grants and the tokens in the bucket cost at most
  the capacity and one token per Refill of `last` (`RateInv`), a nonlinear invariant whose
  arithmetic is in three lemmas. `DashboardImplementsReception`: the map and the history
  agree (`SessionInv`), so an admission is one of a session that still lets in, and a refusal
  one of a session that is over, was closed, or was never shown; a tick either completes an interval
  of `last`, when the bucket brought up to date has one token more unless it is full, or
  moves the remainder by one (`OneMoreTick`), and bringing the bucket up to date changes
  neither (`CarriedOver`). Sessions: what the map must hold and may hold is a
  function of the history (`SessionInv`); the bound on an oversize map is inductive
  because a login at the cap sweeps before it adds.
* `DockerScanProofs`. volumesInUse is a picture of one moment of the scan: what is not in it
  was unmounted then, or came later (`Seen`).
* `ReviewProofs`. The table has one row per item and stamp and none of the future
  (`TableInv`); a row of the very moment is then the only newest or oldest one, and the
  growth query reduces to a difference of two sizes. Verdicts are
  followed through a review (`VerdictInv`): what is shown to the LLM was measured within
  the reach of a query begun at most `MaxStall` ago, what is being sent is written, failed
  to be written, or aged. `DigestsLeaveReviews` carries the reviews' theorems over to
  behaviours with digests; `DigestsTellGrowth` needs that a positive delta has two rows,
  which were measured, at two moments within the day.

Model-checked only: liveness (`TriggerIsReleased`, `StopCompletes`, `CronScanCompletes`,
`CommandIsAnswered`), which the prover does not reach: it needs fairness and ENABLED. Every other property
of a passing run is a theorem. The five violated properties are no theorems, of course. The heap is taken as a set with a smallest entry; that
container/heap keeps it at index 0 is the library's affair.

## Not modelled

Texts, formatting, logging, HTTP headers, the prompt of `/api/ask`, the static page.
The second and third trigger (AI review, digest) are guarded by the same code as the
scan's. Of the dashboard's reads (`Latest`, `RecentFindings` and its filter by source) and
of the reports' rendering a model would repeat the lines: they keep no state and nothing
interleaves inside them. The LLM client is one request and its decoding, modelled as an
oracle that answers anything or fails. The configuration is read once before anything runs:
its defaults and checks are constants' values here; that an empty scan schedule gets a
default although comments say it disables the job (`config.go:34`, `144`) is listed as a
hazard. Of the Docker scan the sizes and bind mounts, of the rules the texts on big items
and orphans are left out: they carry numbers that no later decision reads.

## Plan

Done: the pipeline, the gate and its callers, the bot and its inbox, the dashboard and its
reception, both scanners and their composition, reviews and digests, and a theorem for every
property that holds but the liveness ones. Left:

1. An abstract history that the tables of `ScanService` implement (scans appended, cut from
   behind), with the steps of Insert and Prune mapped to it.
2. The two other triggers beside the first, if their guards ever differ; samples with
   duplicate keys in one scan (overlapping roots, a source bound twice), once the code
   says what the history should make of them.
