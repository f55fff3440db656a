# Verification of SeedGraph

SeedGraph mirrors the torrents of several qBittorrent and Transmission
downloaders into one SQLite database, groups the tasks that share content or
data on disk, and deletes tasks (and, when nobody else references it, their data)
through the downloaders. What can go badly wrong is deletion: it is remote, not
transactional, irreversible, and decided from a mirror that is always a little
old. This project specifies that part, the mirror it depends on, the synchroniser
that keeps the mirror, the edits of groups, and the catalogue of sites.

TLC checks the instances named in the `.cfg` files; TLAPS checks the proofs in
the `*Proofs` modules. Paths below are relative to the repository.

## 1. Inventory

### Components

| Component | State | Operations | Talks to |
|---|---|---|---|
| Deletion service (`internal/deletion`, `internal/store/deletions.go`, `internal/httpapi/deletions.go`) | `delete_plans`, `delete_jobs`, `delete_job_steps`; one goroutine per accepted job | `CreatePlan`, `CreateJob`, `execute`, `ReconcileInterruptedDeleteJobs`, `GetJob` | planner, synchroniser (`SyncNow`, `DeleteRemote`), store |
| Deletion planner (`internal/domain/deletion.go`) | none: a function of a request and a database snapshot | `PlanDeletion`, the refresh barrier of `DeletePlanDownloaderIDs` | mirror (read transaction) |
| Automatic grouping (`internal/domain/grouping.go`, `fingerprint.go`, `id.go`, `version.go`) | none: a function of the tasks of one batch | `PlanAutomaticGroups` | synchroniser |
| Path mapping (`internal/domain/pathmap.go`) | none | `CanonicalizeContentPath`, longest-prefix mapping | synchroniser |
| Synchroniser (`internal/syncer`) | the set of running downloaders, time of the last full sync | `Run`, `Trigger`, `TriggerAll`, `SyncNow`, `TestConnection`, `DeleteRemote`, `Wait` | downloader adapters, grouping, mirror |
| Mirror (`internal/store/sync.go`, `downloaders.go`) | `downloaders`, `torrent_instances`, `torrent_files`, `data_groups`, `content_groups`, `sync_runs` | `ApplySync`, `RecordFailedSync`, `UpdateDownloaderConnectionState`, `CreateDownloader`, `DeleteDownloader` | SQLite |
| Content groups (`internal/store/groups.go`) | `content_groups` with versions, `group_operations` | split, move, merge, undo, lock, restore, verify | mirror rows |
| IYUU catalogue (`internal/iyuu`, `internal/store/iyuu.go`) | `iyuu_sites`, `iyuu_sync_state`, cooldown, single flight | `Run`, `SyncNow`, `ApplyIYUUCatalog` | HTTP catalogue, tracker rules |
| Tracker rules (`internal/store/sites.go`) | `sites`, `tracker_rules`, classification of `torrent_trackers` | create, map, reclassify | mirror rows, catalogue |
| Downloader adapters (`internal/downloader`) | cookies or session IDs, delta cursors | `FullSnapshot`, `Delta`, `FileManifest`, `DeleteTorrent` | HTTP |
| Process lifecycle (`cmd/seedgraph/main.go`) | root context | start, signal, join, exit | all services |
| Store core (`internal/store/store.go`) | the database handle | `WithWriteTx`, migrations | SQLite |
| Frontend deletion tracking (`frontend/src/deletion`) | tracked jobs, plan and key of the dialog | polling, retry with the same key | HTTP API |
| Sessions, HTTP routing and queries, configuration, static files, pages | sealed tokens, presets, none | request decoding, SQL queries, presentation | |

### How they interact

The scheduler and manual triggers start one sync goroutine per downloader; each
fetches a snapshot or a delta over HTTP, normalises and groups it, and commits it
in one write transaction. Group edits are write transactions of HTTP handlers
with optimistic versions. A deletion has two phases: a preview reads one
snapshot and stores a plan; an execution request refreshes the downloaders,
plans again, compares plan IDs, commits a job and spawns a goroutine that sends
one remote deletion after another and then verifies by another sync. Everything
shares the one SQLite file; nothing holds a lock across an HTTP call except the
per-downloader single flight of the synchroniser.

### Hard behaviours, and the properties that answer them

* **Interleaving of syncs, edits and the phases of a deletion.** A plan is made
  from a mirror that others change before, during and after its revalidation.
  Properties: `AcceptedDataIsUnreferenced`, `AcceptedDataIsProven`,
  `AcceptedAsPreviewed`, `AcceptedUnedited`, `AcceptedAfterBarrier`.
* **Remote effects with unknown results.** An answer may be lost, or be late
  beyond the 30 s limit, after the deletion happened. Properties:
  `AtMostOneCall`, `DoubtNeverHidden`, `OrderedCalls`.
* **Crash, shutdown and restart** between any two writes of a job. Properties:
  `SettledForever`, `CompletedMeansDone`, `LedgerKept`, `JobsAreAttended`,
  `StartedJobsSettle`.
* **Idempotent retries** of the same request by several handlers. Properties:
  `OneJobPerKey`, `AcceptedJobsSettle`, and the violated `AnsweredJobsRun`.
* **Edits of groups, their undos, and syncs in any order.** Only versions tell
  whether an edit may still be undone. Properties: `OneUndoPerGroup`,
  `UndoneStaysUndone`, `CreatedGroupsPinned`, `EditsKeepTasksListed`,
  `UndoRestoresThePast`, and the violated `RestoreKeepsTasksListed` and
  `MergedGroupsTakeNoTask`.
* **Answers of daemons that are old when they are applied.** A snapshot is read,
  normalised and committed while tasks change, a deletion or a failure comes in
  between, and the next delta starts from a cursor. Properties: `NeverGoesBack`,
  `CursorNeverSkips`, `RetiredOnlyWhenGone`, `FullSyncIsCurrent`,
  `FirmSyncsMissNothing`, `MirrorCatchesUp`, the refinement `ImplementsReplica`, and the violated
  `BarrierMissesNothing`.
* **Two copies of one catalogue, written by several hands.** IYUU swaps, drops and
  renames its sites; rules hang on the application's sites; trackers are classified
  from both by every writer, older versions left rows of another form, and every start
  converts the rows anew, with conversions that are not idempotent. Properties:
  `AlwaysClassified`, `SlugsStay`, `CatalogueLinked`, `RulesLeaveForAReason`.
* **Cooldown and single flight of the catalogue.** Callers read the clock before
  they take the lock, fail, go away or are refused. Properties: `StaleWhenMissing`,
  `TimesMoveOn`, and the single flight in `TypeOK`.

`PROJECT.json` lists each hazard at the line where it bites.

## 2. Plan

Modules in the order in which they are written; the first five groups exist.

1. `DeletionLedger` (abstract promise), `DeleteJobs` (the protocol of jobs),
   `JobLedger` (the protocol read as the ledger), `MCDeleteJobs`, `DeleteJobsProofs`,
   `JobLedgerProofs`.
2. `Grouping` (pure), `Mirror` (rows and transactions, extends `Grouping`),
   `DeletePlanner` (the planner over the mirror), `PlannedDeletion` (the two
   phases over a changing mirror), `MCPlannedDeletion`, `PlannedDeletionProofs`.
3. `ContentGroups` (the edits of groups with their journal, beside syncs),
   `ContentHistory` (with a history of pictures), `MCContentGroups`,
   `MCContentHistory`, `ContentGroupsProofs`, `ContentHistoryProofs`.
4. `Replica` (abstract promise), `Syncer` (the daemons, requests, deltas and
   commits), `MCSyncer`, `SyncerProofs`.
5. `TrackerRules` (pure), `SiteCatalogue` (the tables and their transactions,
   extends `TrackerRules`), `IyuuSync` (the service beside the rest of the program,
   extends `SiteCatalogue`), `MCIyuuSync`, `IyuuSyncProofs`.
6. `DeletionSystem`: `Syncer`, `DeletePlanner` and the jobs together. Property:
   data that a task of the world still needs is lost only after a race that the
   disagreements below name.
7. `Lifecycle` (the joining of all services on exit) and `DeletionTracking`
   (frontend polling and key reuse).

Abstract specifications worth stating: the deletion ledger, and the replica whose
copies are past states of the tasks and only move on (both done).

Runs stay at or below two downloaders, three tasks and three versions each: two
actors and one bystander are enough for every race listed above. Where a third
version is out of reach of a run ("changed and changed back" between a preview and
its acceptance), a theorem takes over.

Every safety invariant, action property and refinement that a passing run checks is
proved (section 5). Theorems worth proving next: that what the planner takes for
the references of a data group is what the world has, up to the races that the
disagreements name, once group 6 exists.

## 3. The modules and the code

### DeleteJobs

One handler activation per request (`pc`), one goroutine per accepted job
(`wpc`), the three tables, and the process (`phase`). Each database call or
remote call of `CreateJob` and `execute` is one action, so that a crash, a
shutdown, a dropped client or another actor may fall between any two.

| Model | Code |
|---|---|
| `CreatePlan`, `ExpirePlan` | `PrepareDeletePlan` stores a plan for five minutes |
| `Submit`, `LookupHit`, `LookupMiss`, `LoadPlan`, `Refresh`, `Revalidate` | the steps of `CreateJob` before the insert |
| `PrecheckHit` ... `InsertJob` | `CreateDeleteJob`: lookup, expiry, lookup and insert in one write transaction |
| `Spawn`, `RequestAborted` | the reload with the request context and the goroutine |
| `Claim`, `LoadJob`, `MarkStep`, `ResolveRef`, `IssueDelete`, `DeleteAnswered`, `DeleteFailed`, `AckStep` | the loop of `execute` |
| `StartVerify`, `VerifySync`, `CheckDeleted`, `FinishJob`, `ConfirmFailed` | verification |
| `FailJob` | the closure `fail`, which writes with a background context and drops its error |
| `Stop`, `Exit`, `Crash`, `Start` | `main`; `Start` runs the reconciliation before serving |

What the planner decides is a constant of the plan ID, because the ID is a hash
of selection, steps and versions; what synchroniser and downloaders answer is
any answer. A database call with the root context fails when `phase` is
`stopping`; with `DbFaults` any call may fail.

`DeletionLedger` is the promise: deletions of a job are sent one at a time, in
order, each at most once; the outcome is never better than what was
acknowledged. `JobLedger` maps the tables to the ledger (`sent` is the number
of steps with a call, `acked` the number of completed steps).

### Grouping, Mirror

A *view* is what `normalizeTorrent` keeps of a task: path, wanted bytes, the
fingerprint of its selected file sizes or `NoEvidence`, and its files. Group IDs
are hashes of their keys with length prefixes, hence named by the keys. `Mirror`
has the rows of tasks, data groups, content groups and downloaders as functions
whose domains grow; each operator is one transaction. `ApplySync` covers the
upserts of all records, the tombstones and the downloader row. The evidence that a
mixed group ends with depends on the order of the records, which is the order of
hashes: the model lets any member be the last. `online` and a recent
`last_success_at` are one flag, since they are set together and read together.
A delta and a full snapshot may show any views the configuration allows: the
model makes no assumption on when a task is renamed, re-read or removed.

### DeletePlanner

`PlanDeletion` as an operator over the mirror: selected tasks, reference counting
per data group, the owner of the data step (the greatest ID), the blockers as
predicates, the steps, the plan ID, and the barrier. Left out: texts and codes of
blockers and their part in the ID (a plan with a blocker is refused whatever its
ID), metadata mismatches that cannot occur because path, size and storage are in
the group key, and the order of steps of one kind.

### PlannedDeletion

One plan from preview to calls, beside syncs, connection tests, new downloaders,
moves and locks at any time.

| Model | Code |
|---|---|
| `Preview` | `PrepareDeletePlan` |
| `Begin` | `CreateJob`: the plan must be executable; the barrier is computed |
| `Refresh`, `RefreshFailed` | `SyncNow` of each downloader of the barrier |
| `Accept`, `Refuse` | `RevalidateDeletePlan` and the comparison of IDs |
| `IssueTask`, `IssueData` | the remote calls of `execute` |
| `Sync`, `Watch`, `Configure`, `Move`, `Lock` | the rest of the program |

`synced` and `edited` are history variables, kept only while a property needs
them. A refused request leaves the plan for another one.

### ContentGroups

Every operation of `store/groups.go` is one write transaction, hence one action.
A request carries the versions its client has seen; with others than the current
ones it is refused without effect, so only requests with current versions are
actions.

| Model | Code |
|---|---|
| `task`, `group`, `operation`, `configured` | `torrent_instances`, `content_groups`, `group_operations` (the payload), `downloaders`; `active` is `deleted_at IS NULL`, `manual` of a task is its `assignment_source`, `retired` is `deleted_at` of a group |
| `SplitGroup`, `MoveInstance`, `MergeGroups` | the functions of that name; `Regroup` and `Payload` are the rows they all write |
| `UndoGroupOperation` | the function, with `Undoable` for `verifyGroupOperationStateTx` |
| `SetGroupLock`, `RestoreAutomaticGroup` | the functions of that name, which are not journalled |
| `ApplySync`, `DeleteDownloader` | what the rest of the program does to these rows; a batch names for each task it shows the automatic group it was found to belong to |

`Mirror` has the same upserts with the data that deletion depends on;
`ContentGroups` has the suggestions, the tombstones that keep their group, and
the journal. `ContentHistory` adds the history variable `past`, a picture of
all placements and groups before and after each edit, which the code does not
keep: the journal stores only the rows it believes it changes.

### Syncer, Replica

The daemons are part of the module. A daemon counts the changes of its tasks
(`clock`) and stamps the task that changes (`world[t].at`); `row[t].at` is the
stamp that the stored row shows. The code keeps neither number (except
qBittorrent's `rid`, which is `clock` as the daemon reports it): they let the
properties compare a row with a moment. What a task shows and how it is grouped is
left to `Mirror`, so that every upsert of a record is `at |-> j.seen[t]`.

| Model | Code |
|---|---|
| `Add`, `Change`, `Age`, `DaemonRestart` | the daemons, as the adapters meet them: `Age` moves the window of `recently_active`, a restarted Transmission numbers its tasks anew |
| `DeleteRemote` | `DeleteRemote` of the service, which looks at no running sync, and users of the daemon |
| `Tick`, `Trigger`, `SyncNow` | `triggerAll`, `Trigger`, `SyncNow`; `Begin` is `begin` and what `sync` reads of the downloader |
| `ReadAll`, `ReadMain`, `ReadInfo`, `ReadRecent` | `FullSnapshot` and `Delta` of both adapters; qBittorrent's delta is two requests, and changes may fall between them |
| `Commit` | `ApplySync`: upserts by hash, then removals by hash, then by numeric ID over the rows just written, then, after a complete answer, every row it did not show; cursor and `lastFull` |
| `Fail` | any failed request, normalisation or transaction, and `RecordFailedSync` |
| `FullSyncDue`, `Restart` | the age of `lastFull`; `New` with an empty one |

A job is one call of `sync`; its record holds what the goroutine holds. `due` is
the predicate of `fullSyncDue`, true again after some time.

`Replica` knows no request and no cursor. `Syncer` implements it with
`copy[t] = [present |-> row[t].active, at |-> row[t].at]`: a commit is one step
`Follow` of all tasks of a downloader, everything else is a step of the world or
none. Tasks of a Transmission that was restarted leave `stable`: there the
code finds removals by IDs that may belong to another task by now, so a row may
call a task gone that is there, until the next full sync.

### TrackerRules, SiteCatalogue, IyuuSync

`TrackerRules` is `classifyPersistedTracker`. Hosts and paths are names: which
observations a pattern covers, the registrable domain and keyword of a host and
the outcome of one conversion of a pattern or of a stored row (`Canon`, `CanonRow`) are
parameters with the assumptions the code's functions satisfy. A conversion is not
assumed to be idempotent, since the code's is not: `sanitizePathHint` looks for an
empty path and for `/` before it cuts at `?` and `#`, so `/?x` becomes `/` and `/` becomes
nothing, and `normalizeTrackerHost` removes one trailing dot. `CreateCustomTrackerRule`
stores the outcome of one conversion, and each start converts what is stored once more.

| Model | Code |
|---|---|
| `Classify`, `Reclassify` | the rules by priority, display name, host and path; then host, domain and keyword of the catalogue; every row anew |
| `CreateCustomTrackerRule`, `DeleteCustomTrackerRule` | the transactions of that name, with the reclassification each ends with |
| `ApplyIYUUCatalog` | `resolveIYUUApplicationSiteIDs` (`KeptSite`, `Assignments`, `Detached`), the upsert of `iyuu_sites` (`CatalogueRows`) and the reclassification |
| `StoreTrackers` | the part of `ApplySync` that replaces the trackers of a torrent and reclassifies |
| `NormalizePersistedTrackerData` | the startup transaction, on rows of older versions and of this one |
| `Call`, `Begin`, `Refuse`, `Succeed`, `FailCall`, `Cancel` | `Service.sync` with `begin`, `end` and the cooldowns, for the schedule and for users |
| `Crash`, `Start` | the process; `Start` is `Open`, which serves nobody before the startup transaction has committed |

`calls[c].at` is `attemptedAt`, read before the lock is taken, so that calls reach
the lock in any order. `latest` is a history variable: ID and slug of every row of
the last applied catalogue. The clock counts seconds, as the stored times do, and
a restart takes at least one: two catalogues could otherwise be applied in one
second, one on each side of a crash that loses the cooldown. Steps of the wall clock are not
modelled.

The startup transaction rewrites the rules one by one. When one takes the stored form of
another that is still to be rewritten, the UNIQUE constraint lets `Open` fail or not,
depending on the order of the rows. `Start` is possible in such a state and never
forced, so the model has both outcomes.

## 4. What the runs show

| Run | Instance | Shows |
|---|---|---|
| `jobs_safety` | 2 requests, 2 keys, plans of two and of one step, 2 job IDs, cancellations and faults; about 515,000 states under symmetry | `AtMostOneCall`, `OrderedCalls`, `DoubtNeverHidden`, `CompletedMeansDone`, `OneJobPerKey`, `SettledForever`, and the refinement `LedgerKept` |
| `jobs_settle` | two requests with one key, one plan of two steps, cancellations | `JobsAreAttended`; `StartedJobsSettle`, `AcceptedJobsSettle` under fairness |
| `jobs_retry_runs` | violation | `AnsweredJobsRun`: a pending job without a goroutine is given as the answer of a retry |
| `planned_data` | 2 tasks of one downloader, evidence missing or present, a file renamed, moves and locks, versions up to 2; 111,000 states, two and a half minutes | `TypeOK`, `AcceptedDataIsProven`, `AcceptedAsPreviewed`, `AcceptedUnedited`, `AcceptedDataIsUnreferenced` |
| `planned_sharing` | a task on each of two downloaders of one storage, sharing data, a file or a directory; 14,000 states | `AcceptedDataIsUnreferenced`, `AcceptedAfterBarrier` |
| `planned_tested_witness` | violation | `AcceptedAfterBarrier`: a connection test makes an unread downloader current |
| `content_edits` | 2 tasks, one of which changes its suggestion, 2 automatic and 2 new groups, 2 edits, versions up to 3 and undos beyond; 504,000 states under symmetry, two and a half minutes | `TypeOK`, `OneUndoPerGroup`, `UndoneStaysUndone`, `CreatedGroupsPinned`, `EditsKeepTasksListed`, `UndoRestoresThePast` |
| `content_restore_witness` | violation | `RestoreKeepsTasksListed`: an automatic group that a move made manual keeps its ID, is the suggestion of its own members, and is retired with them |
| `content_merge_witness` | violation | `MergedGroupsTakeNoTask`: the upsert of a sync does not bring a merged group back, and places tasks in it |
| `syncer` | a qBittorrent or a Transmission with 2 tasks, 3 changes, 2 failures or restarts, one sync besides the schedule; 412,000 states | `TypeOK`, `CursorNeverSkips`, `RetiredOnlyWhenGone`, `NeverGoesBack`, `FullSyncIsCurrent`, `FirmSyncsMissNothing`, the refinement `ImplementsReplica`, and `MirrorCatchesUp` under fairness |
| `syncer_barrier_witness` | violation | `BarrierMissesNothing`: a task that left the window of `recently_active` before any sync reported it is not in the delta that a deletion waits for |
| `sites` | 2 callers, 3 sites, 4 catalogues that swap, drop and rename, 3 patterns of which one conversion makes the next, 2 edits, 3 seconds; 266,000 states under symmetry, two minutes | `TypeOK`, `AlwaysClassified`, `CatalogueLinked`, `StaleWhenMissing`, `SlugsStay`, `RulesLeaveForAReason`, `TimesMoveOn` |

### Disagreements without a run

Some statements of the documents are contradicted by the plain text of one
function; a run would show nothing more than the text does.

* `internal/domain/deletion.go:79-81` asks callers to plan again immediately before
  each remote call; `execute` (`internal/deletion/service.go:174-207`) does not, so
  a sync between revalidation and call is not looked at.
* The pages promise that a locked group keeps its members
  (`TorrentGroupsPage.tsx:459`, `SyncAuditPage.tsx:190`); `upsertTorrentTx`
  (`internal/store/sync.go:282`) does not look at the lock.
* `README.md:152` says that only explicit custom rules classify trackers, and
  `README.md:20` and `docs/architecture.md:142` that the IYUU directory is not taken
  for announce domains; where no rule matches, `classifyPersistedTracker` maps by
  host, domain and keyword of the catalogue.
* `docs/architecture.md:62` and `internal/downloader/types.go:80-82` say that numeric
  IDs may be reused and never stand for an identity; removals of a Transmission delta
  are found by them (`internal/store/sync.go:152-161`).
* `internal/store/sites.go:221` calls the startup normalisation idempotent, and
  `internal/store/sites_test.go:407-409` has a second startup rewrite nothing. Rules
  stored while serving went through one conversion only: a rule typed with the path
  `/?x` is stored with `/` beside a rule of the same host without a path for another site
  (`sites.go:54`, `sites.go:860-876`); the next start finds both in one bucket and deletes both
  (`sites.go:282-294`). The run `sites` reaches such starts, and `RulesLeaveForAReason` says
  that a start loses no other rules that still have a valid form.

### Bounds

Two requests and two job IDs allow every pair of requests that share a key or a
plan; a plan of two steps has a first, a last and a boundary between them. In the
mirror, one data group needs two members for mixed evidence and for a foreign
reference, two downloaders for the barrier, and one second directory inside the
first for occupants. `MaxVersion` and `MaxEdit` bound the versions of groups by 2, so
that each group can change once after it was captured; that a group edited twice,
away and back, is noticed as well follows from `EditsWithdraw`. Transitions
beyond the bounds are left out, not wrapped. In `ContentGroups` two edits overlap
in every way (same source, one inside the other's target, an edit of a merged
group), and version 3 leaves room for two edits of one group or an edit and a
restore; undos are not bounded, since each edit is undone once. Locks, which also
raise versions, stop at 2 (`MaxLocked`) and edits go on. Its runs switch deadlock
checking off: when the downloader has been deleted and all edits are used up, the
system has nothing left to do. The run that checks liveness of jobs has one key,
so that the second request is a retry; jobs of other keys share no row with it.

In `Syncer`, three changes are an addition, a deletion and an addition again, or
two tasks of which one takes the ID of the other after a restart; two faults are a
failed sync and a restart in either order (`MaxClock`, `MaxFaults`). One call
besides the schedule (`MaxCalls`) suffices for every pair of syncs, since the
single flight admits one at a time and the scheduler may come any number of times.
Downloaders share no row here, so one is enough; the proofs cover any number. In
`IyuuSync`, two callers compete, three seconds
(`MaxTime`) give a success, a refusal and a success again, or a crash in
between, and two edits (`MaxEdits`) a rule that is made and deleted or a rule and
an observation; the legacy rules are none or two that collapse to one pattern.
Three patterns, the last of which needs two conversions to become the first, are the
shortest chain on which one stored rule is converted once more.
Symmetry permutes callers and site IDs, of which the tables only compare equality. The runs of both
switch deadlock checking off: with clock, faults and edits used up, and the process down
in the second, nothing is left to do.

### Fairness

The run `jobs_settle` assumes weak fairness of each handler and each goroutine
(`HandlerStep`, `WorkerStep`): the Go scheduler runs runnable goroutines, every
HTTP call is limited to 30 seconds, and SQLite transactions wait for a lock with a
busy timeout. A stopping process exits because `main` joins the deletion service
before it returns, and it starts again because the compose file restarts it. No
fairness is assumed for clients, the planner, crashes or stops.

`Syncer` assumes weak fairness, per downloader, of `Tick` (the ticker of `Run` goes
on and takes up every downloader it finds free), of `FullSyncDue` (time passes the
interval of full syncs) and of the steps of a sync under way (requests are answered
or run into their time limit; the transaction waits for its lock). Failed syncs,
restarts and users' calls are bounded, not fair: `MirrorCatchesUp` says that rows
catch up once daemons, users and failures are quiet. It needs `FullSyncDue`:
a change outside the window of `recently_active`, or a removal whose ID was
forgotten, is repaired by nothing else. The remaining runs are safety only and
assume no fairness.

## 5. What is proved

`DeleteJobsProofs`, for any numbers of requests, keys, plans, steps and jobs,
with cancellations, faults and crashes: `TypeCorrect`, `CallsAtMostOnce`,
`CallsInOrder`, `DoubtIsReported`, `CompletedJobsAreDone`, `KeysAreIdempotent`,
`OutcomesAreFinal`. They follow from one inductive invariant, `Inductive`: the
types, `Ownership` (the handler that inserted a job is the only one to hold it
with a goroutine, and the goroutine exists only after the handler is done),
`Rows` (what a status says about steps and calls) and `WorkerInv` (what each
control point of a goroutine implies about its job). The properties alone are not
inductive: that a step was not yet called when `IssueDelete` runs is known only
from the control point, and that nobody else changes the job only from
ownership. The proof has a frame: a goroutine touches its own job only, and the
invariant is stated row by row. Assumptions: `MaxSizeAssumption`,
`SizeAssumption`, `NullAssumption`, `FlagAssumption`.

Two further theorems of that module say how far the disagreement of
`jobs_retry_runs` reaches. `NothingIsLeftHalfway`: as long as no database call of a
living process fails (`DbFaults = FALSE`), every job without an outcome has its
goroutine, a handler about to start one, or is pending after its client went away
(`JobsAreAttended`). `AnsweredJobsRunUndisturbed`: without cancelled requests
either, the violated `AnsweredJobsRun` holds, so that a dropped client and a
failing write are its only causes. The hypotheses are conclusions about causes,
not claims about the code; the other theorems make neither. Crashes and stops are
allowed in both: what they orphan is settled before the process serves again.

`JobLedgerProofs`, under the same assumptions: `LedgerImplemented`, the
refinement. `RowMove` names the eight ways in which a step of the protocol moves
the row of a job (it rests, is accepted, begins, sends step `i`, acknowledges step
`i`, completes, fails, or ends in doubt); each action of handlers, goroutines and
the process is shown to be one of them for each job, and each of them is a step
of the ledger or a stutter, where the numbers of the ledger are cardinalities of
sets of steps that grow by one element. `Inductive` does not suffice: that `acked`
never exceeds `sent`, and grows only when a call is open, needs that a completed
step was called and that the step in flight is not recorded as completed yet
(`RecordsTrailCalls`, theorem `RecordsAlwaysTrail`). What the ledger alone promises
then holds of the tables: `LedgerHonestyKept` (an outcome is never better than the
acknowledgements) and `SettledJobsSendNothing` (after an outcome nothing is sent).

`PlannedDeletionProofs`, for any tasks, downloaders, storages and views:

* `PlanInvariant`: the saved plan carries the ID of its own request and steps.
  From this and the guard of `Accept` (not blocked, equal IDs) follows
  `ConfirmedStep`: each data step that will be executed is a step of the plan of
  the mirror at revalidation, with the same owner and manifest. The step may name
  another group than at the preview, so the properties speak of the group the
  task is in now.
* `DataIsUnreferenced`, `DataIsProven`, `DataIsAsPreviewed`: consequences of
  `ConfirmedStep` and the blockers.
* `DataIsReread`, under `Tested = {}`: no accepted plan deletes data before every
  enabled downloader of the storage was read during the request. Its invariant
  `CurrentMeansHeard` says that during a request a downloader of the storage that
  counts as current has been read or waits in the barrier; a downloader that is
  configured meanwhile starts as not current. The run `planned_tested_witness`
  shows that the hypothesis is needed.
* `UnreadWereTested`, of which `DataIsReread` is the special case: for any `Tested`,
  a downloader of the storage that an accepted plan counts as current was read
  during the request or was tested (`UntestedAfterBarrier`). Connection tests are
  the only way around the barrier.
* `RowsAreJoined`: `TypeOK`, with the joins of the rows: tasks to their groups,
  the plan to tasks and groups that are there. Rows are only added while a plan
  lives, so that what it names stays known; that the list of refreshes stays within
  the barrier of the plan needs that it is empty outside a refresh (`TypeInv`).
* `EditsWithdraw`: no accepted plan holds a task whose content group was edited
  after the preview. The invariant `EditsRaise` says that a captured version is
  never above the current one and stays below it once the group was edited: syncs
  keep versions and edits raise them, so one edited back is noticed too.

Assumptions of these: `RankAssumption` (IDs are totally ordered and every set of tasks has
a greatest one), `HomeAssumption`, `ViewAssumption`, `VersionAssumption`. The
bounds on versions are guards of the proved specification too; no proof uses
them, as they only remove steps.

`ContentGroupsProofs`, for any tasks, groups, suggestions and numbers of edits:
`ContentTypes`, `CreatedGroupsArePinned`, `OneUndo`, `UndoneStays` and
`EditsListTasks`, from the inductive invariant of `JournalIsConsistent`. None of
the properties is inductive alone, since what an undo restores was saved many
steps before: `Inv` says what the journal knows. No group falls behind a version
the journal recorded (`VersionsGrow`), no two edits left a group at the same
version (`VersionsDiffer`), what an undo retired is past all of them
(`UndoneIsOver`), a created group at its recorded version holds only tasks the
edit put there (`CreatedAsRecorded`), and the saved placements and groups were
sound (`PinnedBefore`, `SavedInUse`). Split, move and merge are instances of one
`EditStep`, which preserves the invariant once for all three; sync, deletion,
lock and restore satisfy the hypotheses of one lemma, `QuietStep`. Assumptions:
`NameAssumption` (IDs hashed from content and UUIDs do not collide),
`HomeAssumption`, `SuggestAssumption`.

`ListedTasksStay` in the same module is the counterpart of the two violations: a
listed task is lost only by a sync that brings it into a group retired before,
or by the restore of a group that is a suggestion for one of its members
(`TasksStayListed`); no other edit, undo, lock or removal of a downloader loses one.

`ContentHistoryProofs`, under the same assumptions: `UndosRestore`. The journal keeps
only the rows that an edit believed it changed, and the undo may come after any
number of syncs, locks and edits of other groups. The invariant compares each
journal row with the picture of its moment: outside the rows of the journal the
pictures before and after the edit agree, inside them the journal has what the
picture before has. That the groups are still as the edit left them is what
`Undoable` checks by versions, and `Inv` of `ContentGroupsProofs` is what makes a
version a witness of that.

`SyncerProofs`, for any tasks, downloaders, changes, failures and calls: `Types`,
`NoChangeSkipped`, `NothingInvented`, `RowsNeverGoBack`, `FullSyncs` and
`Refinement`. None of these is inductive, because what a commit writes was read
steps before. `Inv` says what the answer of a sync under way knows: how far it is
(`Stage`); that what it shows was so at a moment between the beginning of the sync
and now, and not before what the rows show (`Seen`, which needs `OneJob`, the
single flight: only then do the rows stay put until the commit); that
applying it leaves no change behind its cursor missing (`Covers`); and that the IDs
it calls removed are those of tasks that were gone (`Removals`). The last one is
about identity: Transmission gives no number twice between two restarts
(`Numbering`), so every number that a row or an answer remembers belongs to its
own task or to none (`RowsOwn`, `JobOwns`). `WorldInPast`, `RowsBehind` and
`CursorsBehind` order stamps. Each step of the daemons satisfies `Later`, under
which an answer keeps what it knows. `Refinement` maps the initial states and,
from `Inv`, every step to a step of `Replica` or a stutter.
`FirmSyncs` limits the violation of `syncer_barrier_witness` to Transmission's
deltas: a full sync, and a delta of a qBittorrent, leave an active row for every task
that was there before the sync began and still is, whatever failed before
(`FirmSyncsMissNothing`). Its invariant `FirmInv` adds that a stamp is given to one state
of a task, that only a Transmission gives new IDs, and that the cursor a
qBittorrent answers with is not older than the sync. Assumptions:
`HomeAssumption`, `FiniteAssumption` (a downloader has finitely many tasks, which
Transmission needs to number them). The fairness of `Spec` is not used.

`IyuuSyncProofs`, for any rules, sites, observations, conversions, catalogues, callers
and delays: `Types`, `Classified`, `Linked`, `Stale`, `Monotone`, `NamesKept` and
`RulesLeave`. By the last (`StartKeepsRule`), a start loses a rule only when it finds
no valid form for it or another site's rule of the same form, and nothing else loses
one but its deletion. `LinkedSites` is the heart of `Linked` and `NamesKept`: the
sites a snapshot is assigned to are those of its slugs, those of its IDs under names it does not use, and new ones. `TimesInv` is why
no two catalogues share a time: a call that the cooldown does not hold back came
in after the last success. Neither bounds nor the number of rules are used;
that a first rule exists among any set of them (`FirstRuleExists`) follows from the
well-foundedness of finite sets (`Least`). Assumptions: `PatternAssumption`
(no two patterns share host and path), `CanonAssumption`, `SiteAssumption`,
`SnapshotAssumption` (what the client validates), `DelayAssumption`,
`LegacyAssumption`.

## 6. Only model-checked, and not modelled

Only model-checked: liveness (`StartedJobsSettle`, `AcceptedJobsSettle`,
`MirrorCatchesUp`), which under fairness is outside what TLAPS proves. The
properties of the runs that expect a violation are false, hence not proved; what
remains true of each is: `AnsweredJobsRunUndisturbed`, `UnreadWereTested`,
`ListedTasksStay` (for both runs of `ContentGroups`) and `FirmSyncs`. Two of these
state properties that no run checks, `UntestedAfterBarrier` and `TasksStayListed`:
they are there for the proofs, as what is left of a violated property.

Not modelled: the loss of committed transactions on power failure (the database
runs in WAL mode with `synchronous=NORMAL`; the crash of the model is that of the
process); audit events and the journal of sync runs; runtime figures of tasks and
downloaders; edits of a downloader's address and credentials; parsing of downloader
and IYUU answers, sessions and HTTP transport; the jitter of the catalogue's
schedule; the text of paths, hosts and domains (path mapping, public suffixes,
redaction), which enters as parameters; references held by disabled downloaders,
which the planner leaves out on purpose; cryptography of sessions and credentials;
SQL queries of lists and reports; configuration; page rendering and the browser's
polling of jobs, whose retries are requests of `DeleteJobs`. Planned and not yet
modelled: groups 6 and 7 of section 2, and the deletion of a downloader during a
deletion of tasks (`ContentGroups` has it, `PlannedDeletion` does not).
