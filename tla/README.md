# A formal model of Signal Observatory

Signal Observatory collects public evidence about research and software topics
(arXiv papers, GitHub repositories), keeps every raw answer for ever, derives
relational "Silver" rows from it, and shows them read-only. Its promises are
about evidence: nothing collected is lost, nothing is invented, and a report of
success or of punctuality can be trusted after crashes, restarts and partial
failures. This directory states those promises in TLA+, model-checks them with
TLC on small instances, and proves those that are not about liveness with TLAPS
for every instance.

## 1. Inventory

### Components, their state and their operations

| Component | State it keeps | Operations | Talks to |
|---|---|---|---|
| Worker host (`apps/worker` `main.py`) | coroutine locals, stop event, per-source `asyncio.Lock`, readiness file | take leadership, repair at startup, plan / wait / claim / run / settle per job, stop | ledger, collectors, coverage |
| Scheduler ledger (`operations/scheduler.py`) | `scheduler_executions` rows, PostgreSQL advisory lock | `plan`, `start`, `finish`, `reconcile`, `materialized_windows`, `leadership`; read-only timing and punctuality gate | PostgreSQL |
| arXiv collector (`collectors/arxiv`) | `arxiv_collection_cursors`, Silver papers and matches, ingestion runs | `collect` (incremental), `backfill`, dry-run, audit | arXiv API, Raw store |
| GitHub collector (`collectors/github`) | poll state, daily snapshots, topic matches, discovery state, ingestion runs | `discover`, `snapshot`, dry-run | GitHub API, Raw store |
| Raw store (`collector_core/raw_store.py`) | one directory per record | `write`, `load`, `read`, `iter_records` | file system |
| Backup and restore (`operations/backup.py`, `restore.py`) | backup directories, staging directories, `FAILED.json`, restore and drill reports | create, verify, restore into an explicit empty target, disaster-recovery drill | PostgreSQL, Raw store, registry files |
| Topic registry (`packages/topic-registry`) | declared YAML, projected category/topic/alias/mapping rows, versions, audit | load (with its checks), diff, sync | PostgreSQL |
| Coverage ledger (`operations/coverage.py`) | one derived row per topic and source | rebuild: read, derive, compare, commit the columns that differ | cursors, matches, snapshots |
| Health, integrity, verification (`operations`) | none | reports | all tables |
| Attention domain (`packages/attention-domain`) | contract tables, not written by any collector yet | repositories | PostgreSQL |
| API, CLI, Web UI, settings, migrations | none of their own | reads; the CLI starts collections by hand | services |
| Analytics, entity resolution | none (interfaces only) | - | - |

How they interact: the worker calls the collectors and then rebuilds coverage;
the collectors write Raw first and rows second; the scheduler's ledger and the
collectors' cursors are the only state that survives a crash and steers what is
done next. The CLI runs the same services in another process, and no lock
excludes it from the worker's.

### What is hard, and the properties that make each part correct

- **Scheduler.** Several hosts, coroutines of one host, a lock in PostgreSQL
  that can be lost, statements that are atomic one by one only. Correct when: a
  window is executed at most once; jobs of one source never overlap; evidence
  never moves backwards; a claimed window is settled in the end; startup leaves
  no due window unrecorded; no window is skipped; a verdict is final; a passed
  punctuality gate stays passed; a stop ends.
- **arXiv.** A paged, recursively partitioned query over a source that shows
  articles late, cut short at any commit. Correct when: a cursor never passes
  work that was not persisted; partitions lose no instant; an unfinished window
  is resumed and finished work not repeated; the run's verdict tells the truth;
  everything is collected in the end.
- **GitHub.** Conditional requests join what was answered to what was recorded.
  Correct when: a row shows the repository as it was when asked; an ETag always
  names a recorded state; verdicts tell the truth; every tracked repository is
  observed.
- **arXiv backfill.** Windows with durable cursors, replaced by halves that have
  cursors of their own, in runs cut short anywhere and repeated by hand. Correct
  when: a succeeded window lacks nothing; a cursor never points past what is in
  Silver; a run that reports success has collected its range; repeating it ends.
- **Coverage.** Derived in one moment and committed in another, by any process.
  Correct when: a row that says complete or empty is true of the target it
  names, and partial means that something is unresolved.
- **Raw store and backup.** Publication by rename under concurrent writers and
  crashes; a database snapshot and a Raw copy taken one after the other. Correct
  when: a record is never changed or half visible; a published backup holds
  every Raw record its rows point to.
- **Restore and drill.** Several steps outside any transaction, on targets that
  others may use, from backups that may have rotted. Correct when: a passing
  report is a proof; backups are never mixed; nothing is overwritten; a drill
  cleans up.
- **Topic registry.** Several processes apply files that change meanwhile.
  Correct when: a sync is all or nothing and idempotent, its audit log replays,
  the latest version is what the rows hold, and an ambiguous alias is refused.
- **Health and verification.** Reports derived by separate queries from rows in
  the middle of runs. Correct when: they do not contradict one another, and a
  failure once reported is not taken back without a reason.

`PROJECT.json` lists every hazard at its line with the properties that watch it.

## 2. Plan

In order of importance.

1. `WindowLifeCycle` (abstract), `Scheduler` (implements it),
   `SchedulerPunctuality` (extends it). **Done.**
2. `ArxivIncremental`. **Done.**
3. `GithubCollector` for one collecting process. **Done.**
4. `RawStore` (temporary directory, rename, concurrent writers, crash, the row
   after the record) and `RawBackup` over it. **Done.**
5. `ArxivBackfill` beside `ArxivIncremental` over the common `ArxivWindow`, and
   `CoverageLedger` over its cursors. **Done.**
6. `GithubEvidence`: what coverage, health, the topic page and the verifier make
   of the GitHub rows. **Done.**
7. `BackupRestore`: restore and drill. **Done.**
8. `TopicRegistry` (pure checks and comparison) and `RegistrySync`. **Done.**
9. Theorems for every component: the type invariant and each invariant and
   action property that a passing run checks. **Done** (section 6).

Left, in this order:

- two GitHub collectors at a time, which needs the unique constraint of the
  daily row and the lost update of the poll state;
- incremental cursors as an input of `CoverageLedger`;
- the audit's statistics, if they ever steer a collection.

No module declares a RECURSIVE operator, so all of them can carry theorems.

## 3. The modules and the code

How they build on one another:

    WindowLifeCycle <= Scheduler <- SchedulerPunctuality <- MCScheduler
    ArxivWindow <- ArxivIncremental <- MCArxiv
                <- ArxivBackfill <- CoverageLedger <- MCBackfill
    GithubCollector <- GithubEvidence
    RawStore <- RawBackup <- MCRawBackup
    BackupRestore <- MCRestore
    TopicRegistry <- RegistrySync <- MCRegistry

The proofs are in modules that extend these: `Scheduler_proofs`, and over it
`Scheduler_leader_proofs` about `SchedulerPunctuality` too; `ArxivIncremental_proofs`;
`CoverageLedger_proofs` about the backfill too; `GithubCollector_proofs` about
`GithubEvidence` too; `RawBackup_proofs` about the store too;
`BackupRestore_proofs`; `RegistrySync_proofs` about `TopicRegistry` too.

(`<-` is EXTENDS, `<=` is "is implemented by", checked as a refinement.) Names
of definitions are those of the code where there is one. An operator whose name
is that of another one and a suffix, under a comment "Faulty variant", is a
plausible bug of that operator: putting it in its place breaks a property, which
shows that the property depends on the code. No specification uses it.

### Scheduler (`Scheduler`, `WindowLifeCycle`, `SchedulerPunctuality`)

| TLA+ | code |
|---|---|
| `ledger[j][w]` | row of `scheduler_executions` for job `j` due at `w`; `tagged` is the contract marker in its metadata, `started` its `started_at` |
| `leader` | holder of the PostgreSQL advisory lock |
| `phase[h]` | stage of `serve` / `scheduler_host` of one process |
| `task[h][j]` | locals of the coroutine `scheduled_job`: `observed` (the clock read at startup), `gap`, the rows `reconcile` selected (`miss`, `lost`), and the window it waits for |
| `Observe`, `Backfill`, `ReconcileRead`, `ReconcileWrite` | startup of `scheduled_job`: read, plan elapsed windows, and the two halves of `reconcile` |
| `PlanNext`, `wait_until_due`, `QueueExit`, `Claim`, `ClaimRefused`, `FinishJob`, `FinishRefused`, `LoopExit` | the loop |
| `StartHost`, `StopSignal`, `TaskEnded`, `HostExit`, `HostUnwind`, `HostCancelled` | the host, including the two `gather` calls that differ in `return_exceptions` |
| `Crash`, `DropDeadSession`, `SessionLost`, `DbError` | the environment |
| `Timing`, `Gate`, `Continuity` | `scheduler_timing` and the punctuality and continuity gates of `SchedulerPunctualityVerifier.status` |

One action is one database transaction or one stretch between awaits. `plan`,
`start`, `finish` and `reconcile` are operators on the ledger with the
conditions of their SQL: `start` and `finish` are guarded by the status,
`reconcile` updates what it selected earlier by primary key. `next_cron_run` is
arithmetic on a period and an offset. `WindowLifeCycle` is what a reader of the
ledger may rely on, and `ImplementsLifeCycle` is the refinement.

### arXiv windows (`ArxivWindow`)

What incremental collection and backfill share: `split_window`, `Written` (query
dates have the grain of a minute), `Matching` and `Page` (what arXiv answers,
ordered by submission date), `persist_feed` (the page's papers in Silver) and
`terminal_status`.

### Incremental collection (`ArxivIncremental`)

| TLA+ | code |
|---|---|
| `parent[m]` | cursor `incremental` of a mapping: status, window, `next_start`, `last_query_until`, and the partition in its checkpoint |
| `child[m]` | cursors `incremental-part:<root>:<child>` |
| `persisted[m]` | articles in Silver matched to the mapping |
| `run[r]` | locals of `collect`: mapping, root and target window, pending children, accumulator |
| `origin[m]` | history: where the first window of a mapping started |
| `StartRun` ... `FinishRun` | `collect`, `_collect_incremental_mapping`, `_collect_window` |

Sessions expire their objects on every commit, so each action reads the
database afresh, as the code does. arXiv itself is `Visible`: an article is
found by queries only some time after its submission date, never later than the
overlap. The pages of a query shift when an article appears in the middle.

### Backfill and coverage (`ArxivBackfill`, `CoverageLedger`)

| TLA+ | code |
|---|---|
| `cursor[m]` | the cursors of mode `backfill` of a mapping, by window: status and `next_start` |
| `latest[m]` | the window whose row has the newest `updated_at`: the one `_record_error` marks as failed |
| `enabled` | enabled mappings of active topics, which a registry sync changes |
| `run[r]` | locals of `backfill`: the range, the mappings still to do (`todo`), the queue of windows (`pending`), the window in hand, the accumulator |
| `partition_windows`, `OpenMapping`, `SkipWindow`, `OpenWindow`, `NextMapping` | the two loops of `backfill`, with the windows it skips and the cursors it creates or reopens |
| `LimitReached`, `Send`, `Retry`, `SplitWindow`, `ReceivePage`, `ReceiveEmpty`, `ParseFails`, `RequestFails`, `Forbidden` | `_collect_window` and its errors |
| `coverage[m]` | the row of `topic_source_coverage` |
| `draft[r]` | what a rebuild has read and derived and not yet committed |
| `derive_arxiv`, `cursor_gaps`, `coverage_status` | `_derive_arxiv`, `_cursor_gaps` |
| `Derive`, `Merged`, `Conflict`, `CommitCoverage` | `rebuild`: the session writes the columns that differ from those it read, so two rebuilds may mix in one row |

Every action ends with one commit. A backfill ends with a rebuild, and a rebuild
can also be called alone. `CoverageLedger` holds the specification of both.

### GitHub (`GithubCollector`, `GithubEvidence`)

| TLA+ | code |
|---|---|
| `poll[r]` | `github_repository_poll_states`: ETag, `last_snapshot_at`, `next_eligible_at` |
| `snapshots[r][d]` | the row of repository `r` for UTC date `d`: the version it shows and when it was asked for |
| `match[m][r]`, `discovery[m]` | tracking state of a match, status of a discovery state |
| `run` | locals of `discover` or `snapshot`; `listed` is the due list |
| `remote[r]` | GitHub: ticks at which the versions of a repository appeared. An ETag is the number of a version |
| `Send`, `Retry`, `Unreachable`, `Refused`, `create_full_snapshot`, `create_unchanged_snapshot` | `_snapshot_repository` with `GithubClient.get` and `GithubPersistence` |
| `OpenMapping`, `SearchPage`, `MappingFails` | `_discover_mapping` |
| `development`, `_development_repository` | the topic page of `GithubQueryService` |
| `derive_github`, `between` | `_derive_github`, `MissingObservationDetector` |
| `verify` | `GithubCrossDayVerifier` |
| `freshness_state`, `_collector_state`, `_overall_state` | `OperationsService`, as far as it depends on GitHub |

### Raw store and backup (`RawStore`, `RawBackup`)

| TLA+ | code |
|---|---|
| `dirs[n]` | the directories of the store: a record under its final name (`Keys`) or under a name from `mkdtemp` (`Temporaries`), and how complete its two files are |
| `writer[w]` | locals of `LocalRawStore.write` and of the collector's sink in one process |
| `rows` | committed rows of `arxiv_raw_responses` / `github_raw_responses`, by `raw_path` |
| `FindExisting`, `MakeTemporary`, `WritePayload`, `WriteMetadata`, `Publish`, `RenameRefused`, `Verify`, `WriteFails` | `write`, step by step |
| `CommitRow` | `record_raw_response` and the commit in `preserve` / `persist` |
| `backup` | locals of `BackupService.create` and of the copier: the dumped rows, the paths still listed, the paths copied |
| `catalog` | published backups; the verdict is `verification_state` |

`RawBackup` extends `RawStore` and interleaves its steps with those of one
backup. The final name of a record is a function of source, timestamp and
checksum, so a name stands for an observation. The copier's listing is one step
(`sorted` consumes the pattern first) and each copy another. Removal of a
temporary directory is one step.

### Restore and drill (`BackupRestore`)

| TLA+ | code |
|---|---|
| `manifest[b]`, `disk[b]` | what a published backup was made of, and what of it is still intact |
| `place[x]` | a target: its Raw tree and its database (`absent`, `empty`, `partial` or the backup it holds) |
| `op[p]` | the restore or drill one operator's process is in |
| `report[x]`, `evidence` | the report beside the target; drill reports that were kept |
| `left` | history: drills killed, kept for inspection or stopped in their clean-up |
| `_preflight` ... `VerifyRestored` | `RestoreService.restore`: verification and empty target, copy, comparison, rename, `pg_restore` in its two visible halves, final checks |
| `StartDrill` ... `RemoveTree` | `DisasterRecoveryDrill.run` with its `finally` |
| `StepFails`, `Killed`, `Rot` | a disk, database or tool fails; the process dies; a published backup loses a part |

### Registry (`TopicRegistry`, `RegistrySync`)

| TLA+ | code |
|---|---|
| `Valid`, `Collisions`, `HasCycle` ... | the loader's checks, pure operators over the declared sets |
| `registry_checksum`, `compare`, `warnings` | `checksum.py`, `diff.py` |
| `files` | the YAML files, which an editor changes at any time |
| `rows`, `deprecated` | registry rows by key, `deprecated_at` of topics |
| `versions` | `registry_versions` with audit entries, warnings and checksum |
| `sync[p]` | one process: what it has loaded and read, and its uncommitted rows |
| `Load`, `ReadLatest`, `Diff`, `OpenVersion`, `SyncCategories`, `SyncTopic`, `Commit`, `Rollback` | `sync`; the insert of a version waits for another open transaction with the same number, and fails if that one committed |

## 4. Runs

| Run | Instance | Shows |
|---|---|---|
| `scheduler_leader` | 2 hosts, 2 jobs of one source (periods 1 and 2), ticks 0..2, one crash | life cycle implemented, source exclusion, startup settles what was due, every running row is accounted for, a passed gate stays passed, a failed one recovers for a reason |
| `scheduler_faults` | 2 hosts, 1 job, one crash, lost session or database error | evidence moves forward, no double execution, and as liveness: claimed windows settle, stops complete |
| `scheduler_split_brain` | as above, lost session | **violation** of `VerdictIsFinal` |
| `arxiv_incremental` | 1 process, 2 mappings, 3 articles, pages of 1, split above 2 results, 3 requests a run, ticks 0..3, two faults of any kind | no gap, partitions cover, children stay done, unfinished windows resumed, honest verdicts, eventual collection |
| `arxiv_concurrent` | worker and CLI, no fault | **violation** of `NoGap` |
| `arxiv_backfill` | 1 process, 2 mappings, 4 articles, ranges 0-2, 6-8 and 0-8 in windows of 4, split above 2 results, pages of 1, 3 requests a run, one fault of any kind | succeeded windows complete, cursors lose nothing, coverage claims and verdicts honest, eventual completion |
| `backfill_split` | 1 process, 1 mapping, the whole range, 6 requests, no fault | **violation** of `SucceededRangeIsComplete` |
| `github_daily` | 2 repositories, 3 days, due after a day, 2 requests a run, one fault of any kind | reports agree, rows are current, ETags name the newest row, honest verdicts, eventual observation |
| `github_stale_304` | 1 repository, days of 6 ticks, due after 5 (20 hours, the default), no fault | **violation** of `SnapshotIsCurrent` |
| `raw_backup` | 2 processes, 3 observations, 4 temporary names, 1 backup, one crash or error anywhere; symmetric | records whole and permanent, rows have records, backups cover their rows |
| `backup_restore` | 2 operators, 2 backups out of 5 kinds, the active target and another, 1 drill, one fault; symmetric | a pass is a proof, backups never mixed, drills clean up, nothing overwritten |
| `registry_sync` | 2 processes, 7 contents, up to 3 versions, one crash or error; symmetric | history replays, rows hold the latest version, deprecation dates last, a second sync does nothing, an alias means one topic |

**Why the bounds are enough for the cases meant.** Two hosts are what split
leadership needs; a third adds only another spectator. Two ticks let a daily job
miss, run and plan windows and a slower one share an instant with it. Three
articles with a threshold of two make a window split, and a child split again
when a late article lands in it; three requests are fewer than such a window
needs, so partitions are interrupted and resumed. The backfill's first window of
four ticks holds three articles, so it is split and its first half is read page
by page over several runs; the three ranges overlap and leave a hole between
them, so cursors of one range are resumed by another and the gap test has a gap
to find. Three days give a full row, a changed row and a repeated one; the
freshness thresholds of one and two ticks lie in that order inside them. One or
two faults hit every commit of every operation. Two writers race for one record;
three observations are a row of the snapshot, an orphan and a newcomer; four
temporary names let both writers build while a backup remembers two others. Two
operators race for one target with two backups, the fewest that can be mixed.
The contents of the registry retire, rename, drop and reorder a first registry,
and three more are files the loader refuses; three versions let a retired topic
live through a later sync. Properties that need more have been tried with larger
bounds outside the recorded runs without a different answer.

**Deadlock** is checked in every run: hosts are restarted, collections, syncs and
restores start again for ever, so no behaviour may end, not even at the last
tick.

**Fairness.** *Scheduler*, weak: time advances; a coroutine whose next step is
possible takes it (asyncio runs ready tasks); the server ends a dead client's
session; a container is restarted (`restart: unless-stopped`). *arXiv*, weak: a
scheduled collection starts again and a started one goes on. *GitHub*: the same,
and strong fairness of the start of the snapshot job, because discovery may hold
the shared source lock again and again and asyncio locks are first come, first
served. *Backfill*: weak for a command that was started; strong for each range,
since the operator repeats each backfill whatever else is run in between -
without this nothing in the code makes one finish. No fault, signal, edit or
restore is ever forced. The clock stops at its last tick and scheduled runs go
on there, which stands for further days on which nothing new appears.

## 5. Findings

Each is a violation run whose trace follows the code step by step.

1. `scheduler_split_brain` - `reconcile` selects open rows and later updates
   them by primary key. A host that lost its leadership session can settle a
   window in between; the next leader then overwrites `succeeded` with
   `interrupted`, although the overview says that atomic status transitions
   protect each window.
2. `arxiv_concurrent` - `next_start` is written by primary key. A late page of
   an old window moves the cursor of the next window that another process has
   begun.
3. `backfill_split` - a window that was split stays `partial` for ever: its
   halves succeed under cursors of their own. The backfill reports success, the
   coverage ledger reports unresolved work, and every rerun requests and splits
   the window again.
4. `github_stale_304` - a second full answer on one date keeps the day's row but
   stores the new ETag, and the 304 of the next day repeats the outdated row.

Further things the models show, recorded here without a run:

- *Scheduler*: the loop plans the first window after the *current* clock, so a
  window that elapses while a job runs has no row until the next restart.
- *arXiv*: an answer with fewer entries than `itemsPerPage` announces makes the
  cursor step over the rest. `_record_error` fails the cursor with the newest
  `updated_at`, which need not be that of the request that failed, so a finished
  backfill window can be taken back (and collected again).
- *Coverage*: two processes that rebuild at once can leave a row whose columns
  come from different derivations; with nested ranges such a row can say complete
  of a target that is not. `ClaimsAreHonest` is therefore stated for one process.
- *GitHub*: two collecting processes that find no row of the date both insert
  one, and the second fails on the unique constraint. A repository that takes the
  name of another is recorded under it. `missing_snapshot_count` counts a 304
  twice. Health takes the latest run of either kind, so a partial snapshot run is
  hidden by a later discovery; its freshness counts repositories that are no
  longer tracked; and a run that was killed stays `running`, which counts as
  healthy. The topic page reads its own latest run and may say otherwise. The
  verifier reads rows and poll states in separate statements.
- *Raw store and backup*: `iter_records` also finds temporary directories, so a
  write in progress can fail a backup, and a process killed while it fills
  `metadata.json` fails every later one. The verification of a backup compares
  numbers: a record without a row makes up for a row whose record is gone, which
  only a restore notices. A backup with records and no row is verified with a
  warning, yet its restore always fails.
- *Drill*: a restore that was refused writes no report, so that drill leaves no
  evidence of its failure, although `backup-restore.md` speaks of the report of
  each failed drill.
- *Registry*: topics that swap names, or a renamed slug that keeps its name, can
  never be synchronised. An alias that moves to another topic leaves both rows
  active. Reordering a list makes a new version with an unchanged checksum.

## 6. Proofs

All hypotheses on constants are the named assumptions of the modules; whatever
else a theorem needs is part of its statement.

`Scheduler_proofs`, for every set of hosts, jobs, schedules, bounds and fault
kinds:

- `TypeCorrect`: `Spec => []TypeOK`. `TypeOK` is inductive. The lemma
  `NextRunIsInstant` is the arithmetic core: the window planned next lies after
  the clock and within the bounded set of instants. One lemma per ledger
  statement (`PlanStep`, `StartStep`, `FinishStep`, `ReconcileStep`) says that it
  keeps the rows' type and that no row moves backwards.
- `EvidenceForward`: `Spec => EvidenceMovesForward`, from the second half of
  those lemmas. It needs no assumption about leadership: it holds with any number
  of hosts that believe they lead.
- `ExclusiveExecution`: `Spec => []NoDoubleExecution`. `NoDoubleExecution` is not
  inductive alone - nothing in it prevents a second claim. `ExclusionInv` adds
  `ClaimedRank`: the row of a coroutine that runs has been claimed, that is, its
  rank is at least 2. Rows do not move backwards, so the row is never `scheduled`
  again and the guard of `start` refuses a second claim. `RunningStep` says what
  a step can do to running coroutines: at most one starts, by claiming.

`Scheduler_leader_proofs`, under `CrashesOnly == Faults \subseteq {"crash"}`: a
lost session or a failed statement lets a host run on that no longer leads, which
is finding 1. The inductive `LeaderInv` says that a host that serves is the
leader, the coroutines of all others are gone, none has failed, and what runs is a
running row. From it: `SourcesExclude`, `RunningExecuted`, `StartupSettles`, and
`LedgerImplements` - every step is a step of `WindowLifeCycle` or a stutter.

The punctuality gates rest on one lemma, `NextMoves`: whatever the step, a row
stays, is added, is tagged before it is due, is claimed, or is settled
(`RowMove`).

- `VerdictsAreFinal` (`VerdictIsFinal`): no such move leaves a verdict. This is
  the property that `scheduler_split_brain` refutes when sessions may be lost, so
  the hypothesis marks exactly what the code relies on.
- `PassedGatesStay` (`PassedIsFinal`): a gate passes only when its contract is
  complete - every window of the qualification has a tagged, final row - and then
  no move reaches those rows (`PassedIsComplete`, `QualificationStays`).
- `FailuresAreOutlived` (`FailureIsOutlived`): a bad row moves only by a claim
  (`BadStays`), and `TimingIsBad` says which timings count as bad.

`ArxivIncremental_proofs`, for any mappings, articles, limits and faults, under `OneProcess == \A p, q \in Runs :
p = q`: two processes move each other's cursors, which is finding 2.

- `TypeCorrect`. `TypeOK` alone is not inductive, since a step builds what it
  writes from its locals: `ControlInv` says what the locals of a run and the
  cursors of its mapping say of one another. `CursorInv` is the part without a
  run: no cursor lies ahead of the clock, a window that has not succeeded starts
  an overlap before the last one that has, and a partition belongs to the window
  of its parent and lies inside it. One lemma per action shows that it stays.
- What each action does to the cursors is then stated once (`Repartitions`,
  `Requeues`, `Touches`, `Paged`, `RootSaved`, `ChildSaved`), and the other
  theorems go through these cases (`StepCases`) and not through the actions.
- `ChildrenDone`, `WindowsResumed` (`ChildrenStayDone`, `UnfinishedIsResumed`).
- `PartitionsCover` (`PartitionCovers`): a child is struck off only when it
  succeeded, and halves span what they replace.
- `VerdictsAreHonest` (`HonestVerdict`): all mappings that a run without error
  and safety stop has left behind have succeeded.
- `NoArticleSkipped` (`NoGap`), also under `HonestPages`: no answer has fewer
  entries than the page size it announces. The code moves the position by that
  size and does not count the entries, so such an answer would be a gap.
  `DataInv` says of each cursor that all before its position is in Silver; an
  article that appears between two pages can push others to a later position
  only (`HeldGrows`), so nothing not yet collected slips past the position. It
  says of a partition that all it lacks lies in the queue. `NoGapGrows` links the
  windows: what was submitted before the start of a window was submitted more
  than the overlap before the last query, which could therefore find it.

`CoverageLedger_proofs`, for any articles, mappings, ranges, limits and faults:

- `TypeCorrect`. `TypeInv` adds `Turn`: the mapping whose turn it is exists.
- `NoWindowGap` and `Resumes` (`WindowsHaveNoGap`, `ResumesWithoutLoss`), for any
  number of processes that share the cursors. `SoundInv` adds `InFlight`: all
  before the position of a request in flight is in Silver. A page then extends
  what is there, and nothing else moves a cursor.
- `BackfillsAreHonest` (`HonestBackfill`). `Honest` says of a run without error
  or safety stop that every instant of the range is in Silver or lies in a window
  still pending. `WindowsCover` and `HalvesCover` are the arithmetic: the
  partition and each split cover what they replace, and cutting dates to the
  minute loses nothing at a border, since both ends count.
- `ClaimsHold` (`ClaimsAreHonest`) under `OneProcess`. `NoGapNoLoss` is its core:
  if all windows of a finite set are collected and the gap test finds nothing,
  all between the first start and the last end is collected. The draft and the
  row carry the claim until the next commit.

`GithubCollector_proofs`: `TypeCorrect` without hypothesis, and under
`OncePerDay == DueAfter >= Day` - a repository is asked at most once a UTC day,
which the default of 20 hours does *not* give (finding 4) - `EtagsName`,
`RowsAreCurrent` and `VerdictsAreHonest`. `ExactInv` says that the row of the
newest date is the one poll state and ETag name; `HonestInv`, that all of a
run's due list that is done and without error has its row.

`ReportsAlwaysAgree` (`ReportsAgree`) needs no such hypothesis: it is about four
derivations of one set of rows. `VerifierSatisfied` and `NewestOfAll` compare
what each takes for the newest row; `NoRunNoRow` says that rows exist only once a
run has a verdict. That the days of a topic add up (`DaysAddUp`) is a statement about
sums over its repositories: days expected, days with a row, and days missing.
`SumsExist` and `SumOfDifferences` prove what the library's fold yields on a
finite set, by the least counterexample (well-foundedness of the naturals),
since an induction theorem that takes an operator cannot be used here.

`RawBackup_proofs`, for any observations, processes, bounds and faults:

- `RecordsAreWhole`, `RecordsStay`, `RawFirst`: the store's properties. Their
  inductive invariant `StoreInv` adds `Sound` - a writer owns an existing
  temporary directory that is as complete as its step says, or the record it
  goes on with is published - and `Apart`, no two writers build in one
  directory; without `Apart` one writer's clean-up could empty what another is
  about to publish. `WriterStep` states once what a step must respect, and one
  lemma per action shows that it does. All of them also give `Kept`, which is
  `RecordsStay`.
- `BackupsCover`: `BackupInv` adds `SnapshotCovered` - the rows of the snapshot
  have published records (Raw first), stay published (`Kept`), are therefore
  listed (they are whole), and stay listed until copied.
- `PassMeansExact`: the rows are among the records, so equal numbers mean equal
  sets (`VerdictIsExact`, from the library's facts on finite sets).

`BackupRestore_proofs`, for any operators, backups, targets and faults:
`PassProves`, `Unmixed`, `DrillsAreClean`, `NeverOverwrites`. `RestoreInv` ties
each operation to its place: once it has published the tree is its own, while it
fills the database the database is `partial`, which no other restore accepts; a
drill's place is nobody else's. `NoRecordsNoRows` uses the assumption that a
backup is published only when its numbers agree.

`RegistrySync_proofs`, for any registries, contents, processes and faults, from
the assumptions that slugs have an order, that a content's aliases are finite
and of its own topics, and that no category is called like a missing parent.
`RegistryInv` has two halves.

- `SyncInv` is about a sync under way (`Fits`). Its comparison is that of the
  committed rows *as long as* no other sync has committed since it read the
  latest version (`ComparisonIsCurrent`); its transaction is open only while
  that is so (`NextVersion`, which is what the unique number of a version buys);
  and its tables are the committed ones with what it has written so far
  (`TransactionTables`). A commit is therefore always the next version on the
  tables it compared (`CommitIsNext`).
- `Committed` is about rows, dates and versions as constants, so that one lemma
  per part says what such a commit does to it: every row is audited (`Logged`),
  entries continue one another (`Replays`), the latest version is held
  (`Holds`), dates are those of the last retirement (`Dated`), neighbours differ
  (`Differs`).

From them follow `HistoryTheorem`, `LatestVersionTheorem`, `DeprecationTheorem`
and `ResyncTheorem`. `ResyncTheorem` needs `Holds`: after a version without a row
change only other content or other warnings can make another. `AliasTheorem` is
a fact about the loader's checks (`TextMeansOneTopic`). `TypeCorrect` shows that
references resolve although no sync ever deletes a row: a retained row refers to
retained or rewritten rows, and a cycle of categories that touches the new
content would have to lie in it, because its parents are declared there
(`ResolvedAfter`).

**Only model-checked.** Liveness, and with it everything that needs ENABLED, is
out of the prover's reach: `RunningSettles`, `StopCompletes`,
`EventuallyCollected`, `EventuallyBackfilled` and `EventuallyObserved`. Theorems
under `CrashesOnly`, `OneProcess`, `OncePerDay` or `HonestPages` say nothing
without their hypothesis; what can happen then is said in section 5. Every
invariant and action property of a passing run is stated by a theorem.

## 7. Left out, and why

- Scheduler: the readiness file, the error raised when a row's source name
  differs, `finished_at` and messages, clock skew between hosts. A coroutine
  claims a window that is due by its own clock, and all hosts share one here.
- arXiv: `max_pages` and `max_results` are folded into the choice of a page size
  and into the faults "slow" and "limit"; the Raw write that precedes each page
  is left out because nothing in the cursor logic reads it (`RawStore` models
  it); a page is one transaction, as in the code. A window that can neither be
  read nor split (the minimum partition) pauses for ever. Mappings of low
  priority may starve when a run's requests are always used up, so
  `EventuallyCollected` and `EventuallyBackfilled` speak of the first mapping.
  Dry runs, counters and quality checks are not modelled. The passing runs have
  one collecting process: with two, finding 2 holds.
- Backfill: its range lies in the past, so no article appears meanwhile. The
  incremental cursors, which `_derive_arxiv` reads as well, are not among the
  cursors of `CoverageLedger`.
- GitHub: one process collects at a time; renames, forks and archived flags
  appear only as "barred" repositories; with fewer requests per day than tracked
  repositories the last ones starve, so the run's limit fits all of them.
  `github_daily` has a due interval of a whole day. In health, whatever
  registry, scheduler and the other source add is taken to be in order, since it
  can only degrade the state further.
- Raw store and backup: one source (each is listed after the snapshot and
  compared on its own); symbolic links and logical keys; the directory's fsync,
  since a crash here ends a process and not the machine; the order of the copied
  paths, which is left open.
- Restore: the choice between a native and a Docker client, version comparison,
  the free-disk check, retention. The counts, the migration and the registry of
  a restored database are those of its dump.
- Registry: YAML parsing, free text, source rows, data-quality counts. `TypeOK`
  of `RegistrySync` is proved and not among the properties of `registry_sync`.
- The components marked `not_modelled` in `PROJECT.json` are read-only, pure I/O,
  schema or declarations; each entry gives its reason.

## 8. How to run

    tlc -workers 2 -config SchedulerLeader.cfg MCScheduler.tla
    tlc -workers 2 -config SchedulerFaults.cfg MCScheduler.tla
    tlc -workers 2 -config SchedulerSplitBrain.cfg MCScheduler.tla
    tlc -workers 2 -config ArxivIncremental.cfg MCArxiv.tla
    tlc -workers 2 -config ArxivConcurrent.cfg MCArxiv.tla
    tlc -workers 2 -config ArxivBackfill.cfg MCBackfill.tla
    tlc -workers 2 -config BackfillSplit.cfg MCBackfill.tla
    tlc -workers 2 -config GithubDaily.cfg GithubEvidence.tla
    tlc -workers 2 -config GithubStale304.cfg GithubCollector.tla
    tlc -workers 2 -config RawBackup.cfg MCRawBackup.tla
    tlc -workers 2 -config BackupRestore.cfg MCRestore.tla
    tlc -workers 2 -config RegistrySync.cfg MCRegistry.tla
    tlapm Scheduler_proofs.tla
    tlapm Scheduler_leader_proofs.tla
    tlapm ArxivIncremental_proofs.tla
    tlapm CoverageLedger_proofs.tla
    tlapm GithubCollector_proofs.tla
    tlapm RawBackup_proofs.tla
    tlapm BackupRestore_proofs.tla
    tlapm RegistrySync_proofs.tla
