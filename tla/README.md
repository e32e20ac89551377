# A verification project for brain-sync

brain-sync keeps a directory of Markdown knowledge (a *brain*) in step with remote documents (Confluence pages,
Google Docs) and regenerates summaries over the resulting folder tree. Truth is split over three stores that no
transaction spans: the portable manifests under `.brain-sync/sources/`, the managed Markdown files under
`knowledge/`, and a machine-local SQLite runtime database. A daemon, any number of command-line and MCP
processes, and the user's own file operations change them at the same time.

The TLA+ modules here model that coordination, TLC checks it on small instances, and TLAPS proves the central
results for every instance. All paths below are relative to the repository; `lifecycle.py` and the like are
under `src/brain_sync/`.

## 1. Inventory

| Component | State it keeps | Operations | Modelled in |
| --- | --- | --- | --- |
| Source lifecycle (`sync/lifecycle.py`, `sync/finalization.py`, `sync/lifecycle_policy.py`) | none of its own | add, update, remove, move, poll, observe missing, finalize, reconcile, folder move | `SourceLifecycle`, `SourceRepair`, `SourceSettings` |
| Manifests (`brain/manifest.py`, `brain/repository.py`) | one JSON file per source: state, path, hashes, settings | read, validated write, delete, re-path | `SourceLifecycle`, `SourceSettings` |
| Managed files (`brain/repository.py`, `brain/fileops.py`, `brain/managed_markdown.py`) | Markdown with an identity header | materialize with rollback, resolve, move with rollback, delete | `SourceLifecycle`, `PreparedCommit` |
| Runtime rows (`runtime/repository.py`) | `source_lifecycle_runtime`, `sync_polling`, `child_discovery_requests`, `regen_locks` | lease, fence, poll rows, requests, ownership | `RuntimeRow`, `RegenRow` |
| Runtime schema (`runtime/repository.py`) | the database file and its version | create, upgrade from version 23 on, reset | `RuntimeSchema` |
| Poll scheduler (`sync/scheduler.py`) | heap, key set, deadline map | schedule, remove, reschedule, pop due, next due | `Scheduler`, `Timers` |
| Daemon loop (`sync/daemon.py`) | active sources, scheduler, watcher, regeneration queue | drain moves, reconcile, rescan, poll the due, regenerate, sleep | `DaemonLoop` |
| Watcher (`sync/watcher.py`) | two queues filled by an observer thread | enqueue, drain | `DaemonLoop` |
| Pipeline, attachments (`sync/pipeline.py`, `sync/attachments.py`) | none | reload, version check, fetch, stage, commit, undo | `SourceLifecycle`, `PreparedCommit` |
| Child discovery (`runtime/child_requests.py`, `lifecycle.py:722`) | one-shot request rows | request, consume, register children | `SourceSettings` |
| Regeneration queue and topology (`regen/queue.py`, `regen/topology.py`) | pending events, cooldowns, rate window, retry counts | enqueue, pop ready, waves, walk-up | `RegenQueue`, `RegenTopology` |
| Regeneration ownership and engine (`runtime/repository.py:2359`, `regen/lifecycle.py`, `regen/engine.py`, `regen/evaluation.py`) | `regen_locks` rows, summaries, sidecars, journals | evaluate, claim, call the model, persist, release, reclaim | `RegenRow`, `RegenEngine` |
| Prompt planner (`regen/prompt_planner.py`) | none | pack files and sub-areas, split, merge | `PromptPlanner` |
| Tree reconcile (`sync/reconcile.py`) | none | prune rows, find changed folders | `DaemonLoop` (startup) |
| Daemon guard and launchers (`runtime/repository.py:2433`, `application/launcher.py`) | `daemon.lock`, `daemon.json` | acquire, inspect, start, adopt, stop | `DaemonGuard` |
| Query index, global context (`query/`, `regen/prompt_planner.py`) | two caches | load, validate, build | `Caches` |
| Doctor (`application/doctor.py`) | none | scan, fix, rebuild, adopt | `Doctor`, `RegenEngine` |
| Retry helper (`util/retry.py`) | one circuit breaker for the process | call, retry, open, half-open | `BackendCall` |
| Interfaces, telemetry, adapters, LLM backends, browse, structure | append-only events | format, fetch, record | not modelled (section 7) |

What makes each hard, and what makes it correct:

- **Source lifecycle.** Every operation is a sequence of separate SQLite transactions, manifest writes and file
  operations. Leases (30 seconds for a poll, ten minutes for a move or a remove) expire while a remote answer is
  awaited. A process may die between any two calls. Correct means: a lease is always given back; a late answer
  is not committed over somebody else's work; commit sections exclude each other; a removed source stays
  removed; the soft paths (watcher, reconcile, remote 404) leave leased sources alone; no manifest is written
  that cannot be read back; files are not lost; owed content arrives; a reconcile repairs whatever a crash left;
  a request or a setting of the user is not lost silently.
- **Scheduler.** Cancelled checks stay in the heap. Correct means it behaves as one timer per source.
- **Daemon loop, watcher and queue.** A change passes through five structures before its folder is regenerated,
  two of them filled by another thread. Whatever was popped must be put back, worked off, or let go of in a way
  the code means.
- **Regeneration.** Summary, sidecar, journal and row are four writes. Ownership may be reclaimed from a slow
  but living owner. Correct means one worker, a sidecar that tells of its summary, rows that others can take.
- **Guard and launchers.** A lock file, a status file that is read, changed and replaced without protection, and
  process ids that may be given out again.
- **Routines that a failure interrupts.** A schema upgrade of statements that commit one by one, a commit of
  many files, a repair from stale readings, a breaker whose trial may be cancelled, a cache whose key is read
  after its content, a budget kept by sums of rounded estimates.

The hazards, each at its line, with the properties that cover it or the reason why none does, are in
`PROJECT.json`.

## 2. Modules

| Module | Models |
| --- | --- |
| `RuntimeRow` | one `source_lifecycle_runtime` row and the SQL statements on it, as operators |
| `SourceLifecycle`, `SourceLifecycleMC` | one registered source and every process that works on it |
| `SourceLifecycleTypes`, `SourceLifecycleProofs` | proofs of type correctness and of the safety properties |
| `SourceRepair`, `SourceRepairMC`, `SourceRepairProofs` | one reconcile, and a second, from arbitrary wreckage; proofs |
| `Timers`, `Scheduler`, `SchedulerMC`, `SchedulerProofs` | abstract timers; the heap with lazy deletion, which implements them; proofs |
| `RegenTopology` | paths, ancestors, waves, walk-up, propagation, as operators |
| `RegenQueue` | the queue on top of them: its structures, and its operations as actions without a program counter |
| `DaemonLoop`, `DaemonLoopMC`, `DaemonLoopProofs` | composes the queue with the watcher, the timers, the polls and the life of the daemon |
| `RegenRow` | one `regen_locks` row and the statements on it, as operators |
| `RegenEngine`, `RegenEngineMC`, `RegenEngineProofs` | the regeneration of one area by several sessions; proofs |
| `DaemonGuard`, `DaemonGuardMC`, `DaemonGuardProofs` | daemons, launchers, guard file and snapshot; proofs |
| `RuntimeSchema`, `PromptPlanner`, `Doctor`, `PreparedCommit`, `BackendCall`, `Caches`, `SourceSettings` | one routine each, with its own state |
| `Routines`, `RoutinesMC` | the seven of them in one specification: a behavior runs one, the others are over |
| `RoutinesProofs` | proofs about each of the seven, and about all of them |

### SourceLifecycle

*State.* `manifest` is the manifest file: its state (`unregistered` when there is no file), the area its
`knowledge_path` lies in, and whether the three content fields are set (the code sets and tests them together).
`files` is the set of areas that hold a Markdown file with the identity of the source. `rt`, `polling` and
`child` are the rows of the three runtime tables. `fence` is the process inside `BEGIN IMMEDIATE` of a commit
fence; every other write of the database waits for it (`DbFree`), reads do not. `pc` and `snap`, `spot`, `dest`,
`flag`, `row` are the program point and the local variables of each process. `notice` says whether the daemon
owes a reconcile, because it is starting up or because the watcher saw a change; `folderMove` is the queued
folder move.

*Steps.* One step is one repository call: a transaction, a reading or a writing of the manifest, a file operation.
Steps of all processes interleave. Every writer of the manifest reads it in one step (`Rewrites`, `FollowFile`),
which leaves what will be written in `snap`, and replaces it in another (`WriteBack`); of the writers, a remove's
unlink and an update take no fence. `FollowFile` (`sync_manifest_to_found_path`) requires the manifest and the
file to be there still (`MayFollow`): a move that misses one of them rolls back, a finalization raises, a reconcile
ends the daemon. Two pairs of calls are one step: `path_exists` and `unlink` of a removal (whatever is there by
then goes), and the look at the destination and `shutil.move` of a move. The correspondence:

| Prefix of the program points | Code |
| --- | --- |
| `sy` | `sync_active_source_once`, `process_source`, `process_prepared_source`, `materialize_markdown` |
| `rm`, `de` | `remove_source`, `_deregister_source` |
| `fi`, then `de` | `finalize_missing`, `_return_rediscovered_not_missing` |
| `mv` | `move_source` with its rollback |
| `rc` | `reconcile_sources`, `_revalidate_runtime_row`, `observe_missing_source` |
| `ad`, `up`, `rq` | `add_source`, `update_source`, `request_source_polls_now`: no lease |

`ApplyFolderMove` (`fm`) looks for sources under the renamed folder outside of the fence, and reads and writes the
manifest inside of it. `Expire` lets the lease run out at any moment. `Crash` kills a process between any two of
its steps; SQLite rolls its transaction back, its lease stays behind under a token that nobody uses again.
`UserTouchesFiles` and `UserRenamesFolder` are what the user does with other tools.

*Abstractions.* One canonical id: the rows, the manifest and the files of different sources are independent, and
the loop of a reconcile over several sources is represented by what it does to one. Content is not modelled
beyond the presence of hashes: a remote answer is one of unchanged, changed, missing credentials, error or 404.
File names within an area are not told apart. Deletion by a remove that fails halfway may leave any part of the
files. Attachments are `PreparedCommit`'s, the settings of a manifest `SourceSettings`'s.

### SourceRepair

`Wreckage` admits every manifest the serializer accepts, every set of files over three areas, every row without
a live lease. The daemon starts and reconciles, then a client reconciles again. `Repaired` relates manifest,
files and rows: it is what the other operations may rely on after a restart.

### Scheduler and Timers

`Scheduler` has the three structures of the code; the heap is a set of entries, since it is read from its
smallest deadline on only and equal entries leave it in the same call. The abstract `Timers` has just one armed
moment per key. The refinement maps a timer to the entry of the deadline map, so that it is the heap, with the
dead entries in it, that has to agree: what is popped, and until when the loop sleeps. A key that is already
scheduled ignores `schedule_from_persisted`, which `_sync_scheduler_state` avoids by removing it first.

### RegenTopology, RegenQueue and DaemonLoop

*State.* `pend`, `retry`, `cool` and `window` are the queue's `_pending`, `_retry_counts`, `_last_regen` and the
length of `_regen_times`; `mode`, `seeds`, `todo` and `hot` are the batch under way. `seen`, `deb` and `moves`
are the watcher's `event_queue`, `_pending` and `move_queue`. `known` and `timer` are the sources the loop has
loaded and the keys in its scheduler, `turn` the due keys of this pass. Of the tree there is `exists`, `stale`
(folders whose insight state is not of their present inputs) and `tracked` (folders with a `regen_locks` row).
`adrift` is a history variable: it names the reason when the code lets go of a stale folder.

*Steps.* `Gather` is the head of the loop up to its first await: it applies the moves, drains the watcher,
reloads the sources if they changed or the rescan is due, and pops the due keys. A reload arms every key anew:
for its persisted time, or, if that is `far` (more than thirty days ahead), for an interval from now; such keys
are `clamped`, and as an interval is longer than the time between two reloads, none of them becomes due. `ClockSet`
is the correction of a wall clock that leaves persisted times far ahead, `MonthsElapse` the time that brings them
near. `Poll(s)` is one due source,
`StartRegen(ready)` takes a batch, `Regen(p)` works off one folder of it; the loop awaits between these and
nowhere else, so the observer thread and the outside come in between. Waiting is qualitative: which waits
(debounce, rescan, cooldown, due) are over is chosen, and the fairness says that each is over in the end. The
engine's work is reduced to what the queue can tell of it: succeeded, unchanged, refused, failed, raised. The
user renames one folder (`MoveSrc` to `MoveDst`), which has no folders in it.

### RegenRow and RegenEngine

*State.* `input` is what the area holds, `meta` its sidecar, `summary` the content its summary speaks for, `row`
its `regen_locks` row; `at`, `kind` and `mind` are program point, purpose and locals of each session. Texts and
hashes are known by the content they come from. `ousted`, `overwritten` and `excuse` are history variables: who
lost a row while working, whether a terminal write without an owner hit another's row, and why a sidecar was
written for another content than the summary's.

*Steps.* One step is one statement on the row, one evaluation, one file write or the model call: `Evaluate`
(`evaluate_folder`), `Claim`, `Persist`, `Plan`, `Invoke`, `WriteSummary`, `WriteSidecar`, `Journal`, `Terminal`
with its second try without an owner (`Look`, `Save`), the failure path, the cleanup of an empty area, and the
loops after a run over all paths (`Backfill...`, `Orphans`). `Raise`, `SidecarFails`, `Cancel` and `Die` come in
between any two, `Edit` and the two doctor writes at any moment; `GrowOld` makes running work overdue.

### DaemonGuard

*State.* `proc`, `kind` and `home` describe the daemon under a pid, `holder` who has the lock on `daemon.lock`,
`guard` and `snapshot` what the two files say, `draft` a snapshot somebody has read and is about to write.
Launchers have `at`, `call`, `view` (what they read) and `target`. `reused` and `mixed` are history: pids that
meant two processes since somebody saw them, and daemons whose snapshot a launcher's record fell on.

*Steps.* Every read or write of a file, every attempt at the lock and every signal is a step. A launcher probes
the guard by taking it for a moment (`TryGuard`, `Ungrab`), as the code does.

### The routines

- `RuntimeSchema`: a database file holds a version, tables and rows; `Open`, `LookAtTables`, `LookAtVersion`,
  the statements of creation, of the upgrades and of the v30 table swap, `Reset` (unlink and create), `Dies`.
- `PromptPlanner`: texts are lengths, a file a sequence of headed blocks. `Planned` is what `build_prompt` and
  `build_prompt_from_chunks` have in common; packing, trimming and splitting are written from the code, while
  the properties say what they are for. `inlined` keeps what the first prompt had, `shown` what the prompt that
  is sent has, which after a `Merge` are files by their summaries.
- `Doctor`: `Findings` is the scan, `Fixed` a fix from what the scan read; fixes raise and the doctor dies.
- `PreparedCommit`: migration of the two old attachment layouts, staged writes, text, manifest, and the undo of
  each in reverse order.
- `BackendCall`: the attempts of `async_retry` against the breaker.
- `Caches`: the area index takes its key after it has read, the global context before. The set of areas is fixed:
  an area that comes or goes is one whose content changes, from or to nothing. The key of the global context is
  read in one step, though `_core` itself has several files to it; a change between two of these is taken to come
  before or after the key, so a context whose files are of different moments is not told apart from its parts.
  `mark_stale`, which only makes an answer fresher, is left out.
- `SourceSettings`: `update_source` against polls and reconciles that rewrite the same manifest and drop the
  same request; a request is known by the command it came from.

They share no state, so one specification runs them side by side: its initial states are those of one routine
with the others at their end.

## 3. Runs

| Run | Question | Instance | Result |
| --- | --- | --- | --- |
| `lifecycle_interleavings` | do two commands and the daemon interfere? | 2 clients, 2 commands, no faults, leases expire at any time | 3 properties hold, 500,933 states |
| `lifecycle_faults` | what do a crash, a failing call, the user and the remote do? | 1 client, 2 commands, 1 event | 5 properties hold, 862,541 states |
| `lifecycle_convergence` | does everything that should happen, happen? | 1 client, 1 command, 1 event, fair | 2 properties hold, 199,915 states |
| `repair` | does a reconcile repair? | 3 areas, all wreckage, 2 reconciles | 3 properties hold, 6,062 states |
| `scheduler` | is the heap a set of timers? | 2 keys, 4 moments, persisted times in the past, near and beyond the clamp | 3 properties hold |
| `daemon_loop` | is a change forgotten, a source, a retry? | 4 folders, 1 source, 1 retry, limit of 2, 2 events | 5 properties hold, 122,781 states |
| `regen_engine` | do two sessions on one area interfere, and what do deaths and failures leave? | 2 sessions, 2 contents, 2 structures, 2 events | 5 properties hold, 350,334 states |
| `daemon_guard` | is there one daemon, and do launchers know which? | 2 pids, 2 launchers, 2 roots, 2 events | 5 properties hold, 583,023 states |
| `routines` | do the seven routines keep their promises, interrupted and overtaken? | see below | 9 properties hold, 1,326,742 states |
| `lease_overwritten`, `missing_polled` | does the code do what the documents say? | 1 client, 1 or 2 commands, 1 or 2 events | violated, see section 5 |
| `removed_returns` | does only an add register a source? | 2 clients, an update and a remove, no faults | violated, see section 5 |

What each property says:

- *Lifecycle.* `CommitUnderLease`: a poll in its commit section has its lease and the fence. `NoResurrection`: once
  a source has no manifest and nobody is between reading one and writing it back, it comes back only by an add. (A
  writer that *had* read it may still write it: `OnlyAddRegisters`, in section 5.) `SoftPathsRespectLease`:
  reconcile, folder move and missing observation write no manifest under another's lease. `NoLeakedLease`,
  `FenceMatchesSection`: whatever fails, lease and fence are given back. `ManifestStaysValid`: what is written can
  be read. `NoFileLost`: no user content disappears but by a remove or the user. `OperationsEnd`,
  `OwedContentArrives`: commands end, and content that is owed comes.
- *Repair.* `StartupRepairs`, `RepairedPlacementIsStale`, `ReconcileIsIdempotent`.
- *Scheduler.* `NoLostWakeup`, and `ImplementsTimers`, the refinement of `Timers`.
- *Daemon loop.* `ChangesAreCarried`: a stale folder is in one of the five structures, or the code let go of it in
  a named way. `OvershootsByOneBatch`: the hourly limit is overshot by one batch at most. `PolledAgainAndAgain`: an
  active source is polled for ever, unless its persisted time stays beyond the clamp (section 5 says what the
  documents mean). `ChangesSettle`: the queue comes to rest.
- *Engine.* `OneWorker`, `NothingStaysTaken`, `SidecarTellsOfSummary`: an area looks done with another content's
  summary only for a named reason. `AreaSettles`: with files at rest and writes going well it is done in the
  end.
- *Guard.* `OneDaemon`, `SnapshotTellsOfDaemon`, `StopsOnlyBackground`, `DaemonComesUp`: no leftover of a crash
  keeps a daemon from coming up.
- *Routines.* `HandedOutServes`: whoever opens the database can use it, however it was created or upgraded.
  `MigratesInPlace`: a supported database is not thrown away. `RefusedOnlyByRounding`: a prompt keeps to the
  budget, and is refused without need by one token at most. `OnlyTheseAreLeftOut`: the prompt that is sent has
  every file, inlined or by summaries of all of its text, but for what does not fit beside the others and what was
  inlined in a first prompt that is given up. `FixedStaysFixed`: what the doctor marked as fixed, its next scan
  does not find. `CommitIsAllOrNothing`, `BreakerMeters`, `CachesTellTheTruth`, and `AskedIsHeard`: requests,
  settings and versions do not go back unnoticed.

Several of them have exceptions in their text: a history variable or an operator with a name (`adrift`,
`excuse`, `ousted`, `mixed`, `Contested`, `hurt`, `halfMoved`, `DroppedUnheard`...). Each is a way the code
really loses something, found by TLC as a counterexample to the plain property and then named, so that the
property says that these are *all* the ways. Section 5 lists them.

*Bounds of the lifecycle.* `MaxCommands` and `MaxEvents` bound how often clients issue commands and faults
happen; the daemon polls and reconciles without bound in between, and the clock is free. Every pair of the seven
commands, with the daemon as a third actor, is explored in every interleaving of their steps: the hazards of the
list take two operations and an expiry, or one operation and a fault. Two areas suffice for a source to be in
the wrong place; reconcile is run with three, so that copies lie in two places that are not the manifest's. The
convergence run has all seven commands. `MaxTime` bounds the clock of the scheduler, which is enough to schedule,
cancel, reschedule and pop a key with a dead entry in front of and behind the live one.

*Bounds of the daemon loop.* Root, a folder, one in it that may be renamed to stand beside it, the new name: two
depths below the root make waves, walk-ups and a bound (`MaxDepth = 2`) that cuts one off. A limit of 2 is
overshot by a batch of 3. Two events are what a change lost between two structures needs: the change and what it
crosses. Initially either all folders are tracked or none, and the inner one is stale or not.

*Bounds of the engine.* Two sessions of every pair of purposes with the daemon first, two contents and two
structures, and two events that are spent on edits, failures, deaths, cancellations, late work or the doctor.

*Bounds of the guard.* A pid for the old daemon and one for the new. One launcher starts and restarts, one
stops. An event is a crash, an interrupt, a start from a terminal, a stranger under a pid, a wait that ends too
early, another root, or a call beyond the first.

*Bounds of the routines.* Schema: versions 23 to 31, two processes, three opens, one death. Planner: base texts
of every residue modulo the three characters of a token, up to three of five kinds of files, three lists of
sub-areas, with and without binary files, three backends. Doctor: two sources and two files in every relation of
manifest, path and identity, three calls, one hitch. Commit: two names in every store, two polls, one fault.
Breaker: a threshold of 3, one retry, five calls, two cancellations, so that it opens, is tried, opens again and
is tried in vain. Caches: two areas, two contents, three loads, two changes, two misreads. Settings: one updater
with two commands, one child, two page versions, two visits, one mishap.

For safety, the proofs of section 4 close what the bounds leave open, where there is one: they hold for all
clients, areas, keys, sessions, pids, intervals and bounds.

*Deadlock.* `CHECK_DEADLOCK FALSE` is set where the system may stop: in the lifecycle runs (commands and events
spent, a removed source has nothing left to do), in `daemon_loop` (a daemon that stopped or died for the last
time), in `regen_engine` (all sessions over), in `daemon_guard` (nobody asks any more) and in `routines` (every
routine ends). That nobody waits for ever is what the liveness properties are about. The scheduler never stops
and is checked for deadlock.

*Symmetry.* Clients and areas are interchangeable, and so are the keys of the scheduler. Runs with liveness
properties use no symmetry, which would be unsound there.

*Fairness.*

- *Lifecycle.* The daemon is one sequential loop (`daemon.py:210`) that never blocks on another process: weak
  fairness of its polls, of its reconciles while one is owed, and of a queued folder move. A command that is
  running is run on by the operating system, so each client's `Continues` is weakly fair; that it *starts* is
  not assumed. Time passes, so the lease of a dead operation expires in the end; a living operation's lease may
  or may not. A reconcile aborted by an error ends the daemon, which is started again. That polls recur is assumed
  here; `DaemonLoop` shows it as `PolledAgainAndAgain`, but for a source whose persisted time stays beyond the
  clamp, of which `OwedContentArrives` therefore says nothing.
- *Daemon loop.* The loop runs (weak fairness of `Loop`) and time passes (`QueueElapses`, `HourElapses`). Waits
  are chosen at each pass, so a pass in which all of them are over must be taken if it is possible again and
  again: strong fairness of a `Gather` with everything quiet and a reload, of a batch of all that may be ready,
  and of a `Gather` in which a given source is due. The code's waits are finite and its clock monotonic, which
  is what justifies this: a reload schedules a source anew, but for the same persisted time, or at once. It is not
  so for a time that is clamped to an interval from the reload: `Gather` is not enabled for such a source, and
  fairness asks nothing for it. `MonthsElapse` is not fair: no daemon has to run for months. `ClockSet` costs an
  event.
- *Engine.* Each session's `Step` is weakly fair: nothing in it waits for another session. Sessions are begun
  again (`Take`) as long as the area is not settled, which is the queue's part and is shown, with its
  exceptions, by `DaemonLoop`. Running work without a living owner grows old.
- *Guard.* Every process runs. The lock is taken strongly fairly, for a launcher that probes again and again
  leaves it free in between. A wait for a daemon ends by its time-out, and a launcher calls again, when that
  costs no event.

No fault, user action, crash or command is assumed to happen anywhere.

*Mutants.* For every property of a passing run `PROJECT.json` names a definition and a mutated form of it, next
to it in the module ("A mutated form: ..."), that TLC finds to violate the property: a dropped renewal in the
commit section, a clear that takes an expired lease to be gone, a fast path that forgets the state, a heap entry
pushed once only, a status that is not written when a row is released, an upgrade that compares with the tables
of today, attachments undone before those written over them, a breaker that forgets its trial, a manifest
written back as it was loaded.

## 4. Proofs

From the named assumptions on the constants alone:

- **Lifecycle** (`SourceLifecycleTypes`, `SourceLifecycleProofs`). `TypeOK` is not inductive: a move writes the
  area it read as its destination or origin into the manifest some steps later. `Placed` adds what every program
  point knows of the locals it is going to use, and `Typed == DataTypes /\ PcType /\ Placed` is inductive. `IInv ==
  Typed /\ Coordination /\ ManifestsStayValid`, where `Coordination` joins `NoLeakedLease`, `FenceMatchesSection`
  and `CommitUnderLease`, none of which is inductive alone: a poll keeps its lease while it commits *because* it
  holds the fence, the fence is its own *because* it is at a fenced point, and it gives the lease back *because* it
  owns it only at leased points. From it: `LeasesAreReturned`, `SectionsExclude`, `CommitsAreOwned`,
  `ManifestAlwaysValid`, and the action properties `RemovedStaysRemoved` and `SoftPathsGiveWay`. The lemma
  `Coordinates` states once what a step of a process has to respect; the steps are then cases of it. `Writers` says
  which actions write the manifest, and `ManifestsStayValid` that what a process is about to write back is valid
  too: it was so when it was read, and stays so whatever the manifest becomes. `RemovedStaysRemoved` says that from
  `Gone` on every reading comes to nothing, update's included. `FilesAreKept` counts: a move takes the file away in
  the step that puts it elsewhere (`SwappingKeepsCount`), and no other step that takes one away is without an
  excuse (`FileWriters`); for this the set of areas is assumed finite.
- **Repair** (`SourceRepairProofs`). `StartingUpRepairs`, `RepairedPlacementsAreStale` and
  `ReconcilingAgainIsIdle`, for any wreckage, areas and clients. What the startup has achieved is only there at its
  end, so `RepairInv == Typed /\ LeftAlone /\ Starting /\ Started` says at each point of the daemon's reconcile
  which part of the repair is done (`DaemonAt`), that the clients wait until it is over, and that afterwards every
  client still finds what its scan read (`ClientAt`). The last is why any number of reconciles at once is idle:
  none of them can take another by surprise. `LeftAlone` says that the owners of the row are dead.
- **Scheduler** (`SchedulerProofs`). `TypeCorrect`, `NoLostWakeupAlways` and `SchedulerImplementsTimers` for any
  keys, intervals, offsets and clamp. The invariant has the heap entry behind every scheduled key, and the key
  set in step with the deadlines (`KeysMatchDeadlines`); with it a pop of live entries is exactly a firing of
  the armed timers, and dropping dead entries does not move the earliest one.
- **Daemon loop** (`DaemonLoopProofs`). `LoopTyped`, `ChangesAlwaysCarried` and `OvershootIsBounded`, for any
  finite tree, sources, limits and number of events. `LoopInv == TypeOK /\ BatchShape /\ Grounded /\ Watched /\
  Caught /\ OvershootsByOneBatch`. `ChangesAreCarried` says nothing of the time before the watcher runs, in which
  a change could be missed without a reason; `Caught` extends it to the startup reconcile, and `Watched` says that
  the watcher is there once the loop is. A walk that stops forgets nothing because it has one folder at a time to
  work on (`BatchShape`); a rename reports parents that are there (`Grounded`). `BatchStep` states once what every
  outcome of a folder has to respect: what is left of the batch, the books of the queue, and who keeps a stale
  folder in mind; the four outcomes are cases of it. `OutsideBatch` and `UserStep` do the same for the steps
  between batches and for those of the user.
- **Engine** (`RegenEngineProofs`). `EngineTyped`, `EngineHasOneWorker`, `EngineLeavesNothingTaken`,
  `EngineSidecarTellsOfSummary`, and `TwoWorkersMeansOusted`: two sessions work at once only if one was ousted.
  The invariant says at every point of the program whether the session has the row, and what a session between
  the summary and the sidecar knows of both.
- **Guard** (`DaemonGuardProofs`). `GuardInv == TypeOK /\ Minded /\ Locked /\ Drafted /\ Tells /\ Background`:
  what each program point knows (`Minded`), who has the lock (`Locked`), what a snapshot about to be written may
  say (`Drafted`), and from these what the file says (`Tells`) and what a launcher has in view (`Background`).
  `GuardTyped`, `GuardAdmitsOne`, `GuardSnapshotTells` and `GuardStopsOnlyBackground` follow.
- **Breaker** (`RoutinesProofs`). `BackendIsMetered`, for any positive threshold. `Metered` relates the
  breaker's own count to the failures since the last success; that nothing is on its way while the breaker is
  open is what makes it inductive.
- **Settings** (`RoutinesProofs`). `AskedIsHeardAlways`. The invariant says that no copy of the manifest
  that somebody is about to write back is ahead of the page (`NothingAhead`), without which a poll that read the
  manifest it rewrites could still take its version back, and that a poll which asked for the children and is
  done with them has registered those it did not miss (`ChildrenKept`).
- **Caches** (`RoutinesProofs`). `CachesAlwaysTellTheTruth`, for any number of areas, calls and changes, where the
  mark of an unreadable part is no content. What a call has walked so far either is what the part holds or the
  part is hurt: that is lost at the next change unless the invariant names the hurt parts, so `CachesInv` has one
  conjunct for each point of a call (`Checking`, `Walking`, `Snapshooting`, `Reading`) and two for what outlives
  it: the index is its own key but for the hurt parts (`IndexSound`), and so is the context (`ContextSound`).
- **Runtime database** (`RoutinesProofs`). `HandedOutAlwaysServes` and `RowsAreMigratedInPlace`, for any finite set
  of processes and any numbered first versions. `SchemaInv == SchemaTyped /\ Alone /\ RowsAtPath`. `Alone` says,
  as long as no upgrade had company, of every file that its tables and columns fit its version (`Coherent`), and of
  every process that its place in the creation or the upgrade is that of the file it opened (`Relies`).
  `RowsAtPath` says that the database with the rows is the one that everybody has open, and what each process may
  therefore have read of it (`Handles`): a process that creates has a file of its own, and one that is about to
  throw the rows away has the excuse that the property names.
- **Commit** (`RoutinesProofs`). `CommitsAreAllOrNothing`, for any finite set of attachments, any area and any
  number of calls that raise. That an undo restores the files is not visible in the files half-way: `Undoable` says
  that there is a state of the managed directory, the one between the moves and the writes, from which the records
  of what was written lead to the present (`WritesFrom`) and to which the records of what was moved lead from the
  beginning (`MovesTo`). A write or its undo keeps that witness, a move or its undo changes it in one place.
  `WrittenOnce` keeps a record from standing for two writes, `NoneLeftOut` carries the first half of the property,
  `TextKept` that of the text and the manifest.
- **Doctor** (`RoutinesProofs`). `FixedIsNotFoundAgain`, for any finite number of files, any brains and rows, fixes
  that raise and deaths; the sources are two, as in the model, for a claim that is contested is one between two.
  A fix that was applied says nothing of the next scan, unless no later fix takes its mend back. `Settled` says for
  each check what its fix has brought about, and `Tame` which changes of the brain keep that: reconciles, removals
  and rewrites of a header do. The rewrite is the hard one, because it goes to the file that the *scan* led to:
  `AllSeated` says that for every header still to be rewritten the manifest and the files lead to the same file
  now (`Seated`), whatever was fixed before.
- **Planner** (`RoutinesProofs`). `RefusalsAreRounding`, for any budget, wording, and number and length of files,
  sub-areas and summaries. The four texts that `_pack_formatted_file_parts` tries end with the empty one, so one of
  them fits the room there is (`FirstWithinFacts`), and so do the sub-areas (`PackKidsFacts`). Each estimate rounds
  down, so two texts put together cost at most one token more than they were counted for (`TokensFacts`); after a
  first such token no sub-area is loaded, so there is no second one (`PlannedFacts`). `NothingElseIsLeftOut` is
  `OnlyTheseAreLeftOut`, in three parts. What is left does not fit: the greedy choice counts the estimates of
  single texts (`Cost`), the files largest first (`LargestFirstFacts`), and leaves a file only if those taken and
  it cost more than the room (`GreedyLeaves`); the text of all of them, with the notes, is estimated at no less
  (`TextHolds`). No text is lost in a split: each piece that is gathered is at the end of what there is
  (`GatheredFacts`), so sections and joined sections have the blocks in order (`SectionsFacts`, `JoinedFacts`), a
  level of the split does if the next one does (`ChunksAtFacts`), and below the third there is no next one
  (`ChunksFromFacts`). And no file is lost between the two prompts but those the property names: whatever is not
  inlined is still to be summarized or has been (`SummarizedOnce`, `SummarizeBooks`), and the merge leaves a
  summary out for want of room among the summaries alone (`MergeRoom`).
- **All seven** (`RoutinesProofs`). Each routine is first proved on its own, as `CallSpec`, `SettingsSpec`,
  `CachesSpec`, `SchemaSpec`, `CommitSpec`, `DoctorSpec` and `PromptSpec`. `RoutinesKeepTheirPromises` says all
  nine properties of `Spec`, the specification that the run checks, where a behavior is one routine with the others
  over. `RoutinesInv` is the invariant of each routine, or that it is over. A step of the one leaves the variables
  of the others alone (`EachForItself`), and what is over does not go on (`OverStays`), for which the bounds that
  it has reached have to be numbers (`RoutinesAssumption`): TLC uses them as such, the code has none.

Where a proof needs an induction, over the places of a list or the numbers that a cut may have, it takes the least
counterexample (`LeastNumber`, from the well-foundedness of `<` on the naturals). What was to hold is a set, not an
operator: `UpToAny` (of every number up to one) and `OneByOne` (of every sequence) say that a set with the first
and with the next of each of its elements has all of them, and `StepByStep` that a function defined from one number
to the next exists, which the sums and folds of the planner (`Total`, `FlattenSeq`, `Sections`, `Joined`) rest on.

The larger invariants were checked by TLC on the bounds of the runs before they were proved: `SchemaInv`,
`CommitInv` (with two faults) and `RepairInv` among them.

*Model-checked only.* Liveness under fairness, which is outside of what the prover does: `OperationsEnd`,
`OwedContentArrives`, `PolledAgainAndAgain`, `ChangesSettle`, `AreaSettles`, `DaemonComesUp`. Every other property
of a passing run is stated by a theorem.

## 5. Where code and documents disagree

Shown by a run:

- `ReconcileSparesLeases`. `_revalidate_runtime_row` (`lifecycle.py:332`) decides on one reading of the runtime
  row and deletes or rewrites it in another transaction. A lease acquired in between is wiped.
  `docs/RULES.md:686` says that reconcile paths must revalidate and skip rather than overwrite lifecycle-owned
  coordination. The commit fence catches the consequence for polls (`CommitUnderLease` holds), and a move
  notices at its next renewal; a remove or a finalization does not renew.
- `MissingLeavesPolling`. A poll saves its progress after its lease is gone, and `request_source_polls_now`
  upserts: both put the row of a source back that became missing meanwhile. `docs/runtime/SCHEMAS.md:213` says
  that missing sources leave `sync_polling`.
- `OnlyAddRegisters`. `update_source_sync_settings` reads the manifest (`brain/repository.py:283`) and writes it
  back (`288`) with no lease and no fence. A remove that unlinks it in between (`269-274`) is undone, and the
  source is registered without files or rows. `docs/sync/README.md:310` has `Add Source` as the entry, and its
  table (`176`) says that an update leaves the lifecycle alone. `NoResurrection` says what remains.

Met while modelling, and built into the models as the code has it, most of them as a named exception of a
property:

*Sources.* A source that went missing before its first materialization has no hashes. When its file reappears,
`SourceManifest.validate` refuses the write of state `stale`, and the error ends the reconcile (`ReconcileAbort`)
and the daemon with it; `docs/sync/README.md:180` says that it becomes `stale`. `docs/RULES.md:655-668` asks for
two confirmations before a finalization; the code, and `docs/sync/README.md:181`, finalize on the first. A commit
section whose migration raises by itself loses its list of what to move back (`lifecycle.py:631-650`); a migrated
attachment replaces a managed one of the same name; removing `_sync-context` deletes what else is in it; a
`PermissionError` in `materialize_markdown` is raised without restoring the text (`brain/repository.py:470-471`).
An attachment whose download failed is named in the text and not asked for again while the page is unchanged
(`pipeline.py:165-170`; `docs/RULES.md:502`).

*Child requests and settings.* `update --fetch-children` on an unchanged materialized page is consumed without
any discovery (`pipeline.py:181-207`, `lifecycle.py:769`); so is one when credentials are missing, the discovery
failed or a child could not be registered. A request saved during a poll is dropped with the old one. `update
--sync-attachments` writes back the request it read when it began. A refused `child_path` comes after the
setting was written. A setting and a poll that rewrite the manifest at the same time lose each other
(`docs/RULES.md:960-965`).

*Daemon loop and queue.* Changes made between the startup reconcile and the start of the watcher are seen by
neither (`daemon.py:162`). A path whose ownership is refused is neither retried nor put back (`queue.py:188`,
`232`); a failing walk retries its seed only, an exception outside of the `try` loses the rest of the batch
(`daemon.py:288`), the walk ends after a bounded number of folders, and a stale folder above or below an untracked
one is passed over at startup (`reconcile.py:38`). A moved file queues its destination only (`watcher.py:93-97`;
`docs/RULES.md:437-441`). A time more than thirty days ahead, as the correction of a wall clock leaves it, becomes
an interval from now (`scheduler.py:97-98`) of at least 1800 seconds, and `_sync_scheduler_state` removes and
schedules every key anew every 300 seconds (`daemon.py:67-79`, `251-254`): the wait starts over before it ends, and
the active source is not polled. The comment (`scheduler.py:96`) and `tests/unit/test_scheduler.py:158` mean the
interval to take the place of the time; `PolledAgainAndAgain` excepts it. A poll that a lease refused after a 404
leaves the source unscheduled until the next reload.

*Regeneration.* The terminal write is repeated without an owner (`engine.py:421-432`, `queue.py:309-320`,
`engine.py:900`), which may end the work of a session that claimed the row meanwhile. Stale work is taken over
from a living owner (`runtime/repository.py:2559`), and the reclaim by session reads and writes in two
statements (`2569-2601`). Hashes are taken before the prompt reads the files again (`engine.py:1235`). A crash
between summary and sidecar leaves a summary nobody knows (`brain/repository.py:971-975`). Writing into a folder
that was removed makes it again (`fileops.py:113`). Cleanup deletes a row whoever owns it (`engine.py:1015`,
`1046`). A journal that cannot be appended fails a regeneration whose sidecar is written (`engine.py:331`).
`doctor --rebuild-db` (`doctor.py:644`) and `--adopt-baseline` (`682`) write rows under a running session.

*Prompts.* When a file was left out of the first prompt, the second one is made of the summarized files alone
(`engine.py:1331-1380`, `prompt_planner.py:822-868`): a file that fitted and was inlined in the first is not in the
prompt that is sent, in any form. `docs/regen/README.md:333-336` has the summaries take the place of the raw
content and the structure stay the same, and `docs/RULES.md:783-793` has the files of the area in the prompt; two
files, of which one fits, show it, and `OnlyTheseAreLeftOut` names it. A prompt may be refused for a single token
though its scaffold fits (`prompt_planner.py:714`, `762`). The room of a file that is dropped again is not offered
to others. A text with one section goes to paragraphs at once. `prompt_overhead_tokens` is reported and never
subtracted.

*Guard and launchers.* A launcher's probe of the guard may be what makes its own child fail to start. The
confirming look (`launcher.py:378-388`) that meets a half-written `daemon.json` kills a healthy child. The
stopped snapshot (`launcher.py:314`) overwrites the ready one of a new daemon; `write_daemon_status` reads,
keeps and replaces without protection (`runtime/repository.py:2710-2721`; `docs/ARCHITECTURE.md:266-269`). A
signal that arrives before the handler is installed is lost (`handlers.py:95-107`). A start that fails leaves
the snapshot at `starting`.

*Database.* `CREATE INDEX` without `IF NOT EXISTS` (`runtime/repository.py:106`, `205`) makes every later open
raise when a process died between the v24 script and the version (`583-590`). A death, or another open, between
the rename and the drop of the v30 swap (`1386-1402`) makes the next open reset the whole database
(`docs/COMPATIBILITY.md:24-28`). Table names are read before the version: an upgrade in between is taken for an
unsupported database. A second migrator may set the version back.

*Doctor.* Two registered sources that claim one file rewrite its header in turn (`Contested`). A placement is
marked as fixed when the reconcile passed a leased source over (`PassedOver`, `doctor.py:589-592`); a bad path
of a row is marked as fixed though nothing changes it (`624-631`), and the fix of an orphaned row raises on it.
`ensure_no_active_daemon` is called by nobody. The journal fix removes directories with files other than
Markdown in them (`docs/RULES.md:900`).

*Breaker and caches.* A cancelled half-open trial leaves the breaker shut to all for good (`retry.py:53`); its
docstring says 3 failures, the threshold is 10 (`retry.py:15-17`, `45`); the `timeout=` of `engine.py:749` is
swallowed by `async_retry`. The area index takes its key after its walk (`area_index.py:121-122`), so that a
change or a misread in between is served until the area changes again. `invalidate_area_index` and
`handle_watcher_folder_change` are called by nobody.

## 6. Plan

What a next extension would take up, in this order:

1. A row of `regen_locks` under a renamed folder: `RegenEngine` with two areas, so that the move of rows that
   `DaemonLoop` shows and their owners are in one state (`runtime/repository.py:2182`).
2. A poll in `DaemonLoop` that implements the poll of `SourceLifecycle`, so that the fairness assumed there is
   derived.
3. The second guard of an MCP server, and `migrate_sources`.

## 7. Not modelled

Remote services, document conversion and LLM backends (their outcomes are inputs); argument parsing, formatting,
logging and telemetry (nothing reads them back); local files, structure and browse (single file operations and
read-only views); configuration and initialisation but for the active root (sequential); ranking and placement
scores (heuristics without a specification); the similarity guard of summaries and the hash functions (a choice,
and injective names). File writes are atomic, as the rename in `atomic_write_bytes` makes them. The status of
every part is in `PROJECT.json`.
