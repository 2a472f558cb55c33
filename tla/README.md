# A TLA+ model of the lance-etl control plane

lance-etl moves windows of an Iceberg source into per-route Lance datasets and
publishes qualified versions of them to a search API. Its truth is a PostgreSQL
control plane (`src/src/lance_etl/state`) driven by a reconciler
(`src/src/lance_etl/reconciler`) whose workers read Iceberg and write Lance
outside any database transaction; maintenance and indexing jobs rewrite the same
Lance datasets. The modules here specify that system, model-check it on small
instances and prove the safety properties of its control plane for every size.

Paths below are relative to `src/src/lance_etl/` unless they start with `src/`.

## 1. The system

| Component | State it keeps | Operations | Talks to |
|---|---|---|---|
| Dataset-work lanes, `state/repository.py`, `state/tables.py`, `state/types.py` | `source_snapshots`, `datasets`, `dataset_work`, `dataset_publications` | `claim_due_work`, `renew_lease`, `advance_phase`, `complete_ingest`, `publish_dataset`, `retry_work`, `block_work`, `retry_blocked_work`, `enqueue_rebuild`, `assign_dataset_spec_revision`, `enqueue_source_snapshot`, `block_source_snapshot`, ... | one PostgreSQL database, many reconciler replicas |
| Work execution, `reconciler/workers.py` | none of its own; Lance versions, tags, markers | ingest a window, build / pin / qualify a candidate | source reader, Lance, prewarm |
| Marker and replay merge, `etl/completion.py`, `etl/replay_sink.py`, `etl/storage.py`, `etl/mutation.py` | completion marker in the Lance dataset's metadata | merge a window so that older rows never overwrite newer ones; finalize the marker | Lance |
| Reconciler service, `reconciler/service.py` | none durable | claim a batch, execute it, reconcile results, heartbeat, drain loop, SLO evaluation, retention decisions | lanes, workers |
| Source planning, `reconciler/iceberg.py`, `reconciler/planning.py`, `source/` | planning epoch and head of the source | walk the snapshot lineage, classify manifests, seal or block windows | Iceberg, lanes |
| Specification lifecycle, `state/`, CLI | specifications, revisions | create, activate, retire, assign | lanes |
| Publication retention, `reconciler/retention.py` | retired publications, cleanup claims | claim, delete externally, finalize; retention floor | lanes, Lance |
| Publication workflow, `publication/`, `reconciler/prewarm.py` | manifests, candidate tags | pin, qualify, prewarm replicas | Lance, search API |
| Maintenance and indexing, `maintenance/`, `indexing/` | Lance versions and index segments | compaction, cluster rewrite, index build and merge | Lance |
| Search API, `src/rust/search-api` | dataset and entry caches, admission permits | resolve the active publication, open, query, evict | catalog, Lance |
| Recall, tools, wiring, telemetry, `src/bench` | none | measurement, construction | - |

**Concurrency.** One process executes its claims one after another. The
protocol is made for several processes on one database (row locks with `SKIP
LOCKED`, fences, stale results that are tolerated rather than raised, and
`tests/test_postgres_queue_load.py`), and operators use the same database beside
them. The models allow any number of processes.

**What is hard here.** A lease can lapse while its worker is healthy, and the
worker never looks at the lease again until it submits: superseded workers commit
to the same Lance URIs as the current owner. Several transactions separate a
Lance commit from the row that records it, and the process may die between any
two. Three kinds of work share a lane and are frozen against a pointer that
other work moves. The planner's gate closes while INGEST rows run. And every
transaction runs under READ COMMITTED, so a predicate it evaluates may be out of
date by the time it commits. `PROJECT.json` lists these hazards at their lines,
with the property that covers each.

**What correct means, per component.**
Lanes: at most one worker can change a dataset; windows are applied in source
order without a gap; no lane wedges. Catalog: a reader sees one publication at a
time, never going back in source order. Execution: a published version holds
exactly the windows up to its sequence and stays pinned. Snapshot completion:
COMPLETE means every row is applied, and a closed gate is opened only by its
repair. Planning: the sealed rows are the real lineage, a rejection is a fact of the
table and not of a race, and a plan made before a gate is not applied after it.
Replay merge: a marked table holds every key's last mutation that has not expired.
Dispatch: a lease lasts as long as it was granted for, whatever other processes do, and
every row settles. Retention: nothing the
specification retains, a reader may still open, or an unfinished window scans is
removed. Specifications: one revision is ACTIVE, and what the checks accept the
database stores. Maintenance and indexing: no row is lost to a rewrite, a stamp or
a success that skips later work is true, an index has one model.
Search API: a cached handle never serves a version that has been removed.

## 2. Modules

| Module | Contents |
|---|---|
| `DatasetLanes` | the lanes and their workers, one action per repository transaction, Lance commit or fault; the retention floor of the source |
| `ServingCatalog`, `CatalogRefinement` | what the catalog promises a reader, and the mapping from `DatasetLanes` to it |
| `SnapshotCommit` | the transactions that complete or gate a snapshot, statement by statement |
| `SourcePlanning` | planners, the operator and a live Iceberg table |
| `SourceManifests` | classification of one snapshot, operators used by `SourcePlanning` |
| `WindowClassification` | the classification of one snapshot by itself, for any manifests and evidence |
| `LineageWalk` | the constant-memory walk over a snapshot's ancestry |
| `Dispatcher` | reconciler processes, leases and heartbeats in time |
| `ReplayMerge` | a window written row by row by several attempts |
| `PublicationRetention` | sweeps that remove old publications |
| `SpecLifecycle` | drafts, activation and assignment of revisions, statement by statement |
| `SpecValidation` | what a revision must satisfy in Python and in the tables |
| `LanceTable` | an external store with optimistic commits, and the writers the jobs race with |
| `IndexSegments` | segment build and commit, shared by the two jobs |
| `MaintenanceJob`, `IndexJob` | one dataset through a maintenance run, one index through an indexing run |
| `TableJobs` | the two jobs one after another over one `LanceTable`, and two documented claims about them that the code does not keep |
| `ClusterShuffle` | the data path of a clustered rewrite: packing, read tasks, shuffle, write tasks, and tasks that fail |
| `DocumentedClaims` | statements of the repository's documents about the lanes that the code does not keep |
| `MCLane`, `MCFleet`, `MCComponents` | instances for TLC |
| `DatasetLanesProofs`, `LaneServingProofs`, `IngestCommitProofs`, `SourcePlanningProofs`, `LineageWalkProofs`, `DispatcherProofs`, `SpecAndRetentionProofs`, `TableJobsProofs` | theorems and proofs, section 5 |

### DatasetLanes

State and code correspond as follows.

| Variable | Code |
|---|---|
| `snap` | `source_snapshots.state`, and `rejected` for a snapshot whose blocking evidence is immutable |
| `ds` | `datasets`: `desired` / `materialized` are the two spec revision ids, `applied` is `last_applied_source_snapshot_seq`, `uri` / `ver` the ingest pointer, `pub` the active publication, `fence` the lease fence |
| `work` | `dataset_work`: state, sequence, frozen revision and `expected_*` columns (`exp`), candidate columns (`cand`), phase, lease (`token`, `lapsed`), attempt count |
| `pubs` | `dataset_publications`, keyed by the work row that created it |
| `claims` | the `WorkClaim`s in the hands of workers, each with the worker's progress |
| `lance`, `marker`, `pin` | the Lance versions of a URI, its completion marker, and the tag that pins a candidate |

Work, publication and URI identities are derived from their inputs in the code
(`deterministic_*_work_id`), so a work id in the model is the record of those inputs
and inserting it twice is visible.

`claim_due_work` is one transaction: it releases expired leases, sweeps
waiting rows that are frozen against a pointer that moved, selects due rows in
lane order, locks them and raises the fence of each dataset. `SKIP LOCKED` may
hide any row, so the batch is any admissible subset. `execute` to
`qualify_candidate` are the steps of a worker; none of them looks at the lease
after the first. `retry_work`, `block_work`, `complete_ingest`, `advance_phase` and
`publish_dataset` are what `ResultReconciler` and `BoundedDispatcher` submit; each
checks `lease_is_current` and, when the result diverges from the frozen
expectations, blocks the row as the code does. The remaining actions are the planner's
and the operator's, and two faults: `LeaseExpires` and `WorkerCrash`.

Abstractions, and why the properties do not notice them:

- *Time.* A lease is live until `LeaseExpires`; renewing it is the absence of
  that step. Rows in RETRY_WAIT are always due, because not claiming a row yet is
  the same as its backoff not having elapsed. This allows every real timing and more.
- *Rows of a window.* A Lance version is the last snapshot its rows contain.
  The replay merge keeps the newer of two windows and a window is written as one
  commit; `ReplayMerge` writes it key by key and shows what the marker then promises.
- *Claim batches.* The code selects rows without excluding datasets that already
  have a RUNNING row; if it selects one, the unique index aborts the whole
  batch (finding `claims_disjoint`). In the model such a batch takes no step and
  another batch may be claimed instead, so `LanesDrain` speaks of a system in which that
  abort is not repeated for ever: it ends when the running sibling ends.
- *Isolation.* A repository transaction is one step. `SnapshotCommit` looks
  between the statements of the completion transactions; the claim
  transaction is planned.
- *Retention floor.* `select_retention_floor` and the decision taken from it are
  state functions; `Expirable` says which source snapshots Iceberg may then drop.
- *One source.* Rows of different sources never share a snapshot or a dataset.

### ServingCatalog and CatalogRefinement

The abstract state is, per dataset, the applied sequence, the publication served
and the publications served before. A swap carries exactly the applied sequence,
names a Lance version no other publication ever named, and retires its
predecessor in the same step. `ImplementsCatalog` maps the publication
rows to it by their state, so a lane that left two publications ACTIVE, retired
one early, or served an older snapshot after a newer one would violate it.

### SnapshotCommit

`build_control_plane_engine` sets no isolation level, so PostgreSQL's default READ
COMMITTED applies. `complete_ingest` is split into its updates of the work and
dataset rows, the `UPDATE ... WHERE NOT EXISTS` of `complete_snapshot_if_applied`, and
the commit; the gate transactions into the `FOR UPDATE` of the snapshot row, the
query of the restored state, and the commit. `lock` is the write lock of the
snapshot row. The foreign key of `last_applied_source_snapshot_seq` gives a
completion a KEY SHARE lock of the same row: it conflicts with the gate's `FOR
UPDATE` and with no other completion, which is what `ApplyIngest` and
`LockSnapshot` say.

### SourcePlanning, SourceManifests, WindowClassification, LineageWalk

`table` and `hist` are Iceberg: the live metadata and the facts of every snapshot ever
committed. A planner goes through `plan_pinned`, the walk and classification of
descendants (or the qualification of a baseline), `verify_planning_snapshots`, and
then one transaction per window. Writers commit, roll back, expire, change the
partition specification or replace the table between any two of these, a second
planner writes, and the operator reopens gates. `source.epoch` is the fence: a plan
carries the epoch it started from. `outdated` is a ghost that remembers which planners a
gate has overtaken.

A snapshot's kind stands for its manifests and its summary: an append, one that removes
rows, one that declares no data (`quiet`) or whose summary has no numbers (`garbled`), one
with more facts than a plan collects that declares none of them (`bulk`), one that states
its specification in its summary (`stated`) or mixes two (`mixed`), a first commit with two
mutations of one record (`conflict`). `ReadFails` is Spark refusing any read of a cycle; the code then records that
against the snapshot, the baseline or the checkpoint, durably. A baseline is read twice, once
to qualify it and once for its files. `Formats` says whether the table numbers its snapshots.
`SourceManifests` keeps the classification itself, on sets of manifest
facts; `SourcePlanning` calls it, and `WindowClassification` applies it to any snapshot
with any facts and any evidence of the catalog. `SourcePlanning` has the ancestry as a set, the least one that holds the head and,
up to the stop, the parents the generation retains; candidates are a set the planner takes
in the order they were committed. `LineageWalk` is the walk as the code does it, with two
cursors for cycles of damaged parents and a bounded deque.

### Dispatcher

Durations are counted down by `Tick`, so behaviours in time are finite-state. A cycle of
`run_once` plans, claims a batch, executes it claim by claim, reconciles each result,
drains again up to `MaxDrains`, and sweeps. The heartbeat runs only while its claim
executes, so the claims behind it in a batch age. A renewal is a transaction of the
heartbeat's thread: `Beat` may come any time after it is due (`late` counts how long), be
refused, or fail; `granted` is what was left of the lease when the claim began or what the
last renewal gave it. A crash, a process that stalls while it computes and every moment a
renewal is late are faults; safety holds for any number of them. `retry_delay` is the capped
backoff.

### ReplayMerge

An attempt normalizes its window (`collapse_snapshot_mutations`), cuts it into chunks
by rows and bytes, and for each chunk does the preflight read, the conditional merge
and the verification, then sets the marker. Attempts are never cancelled: older ones
go on writing beside newer ones, and Spark repeats a task whose commit already
happened. Digests are the events they are taken of. A partition is a set whose rows have a
place by their key; a task is the offset it has reached, and its chunk the slice there whose
length the code's shrinking loop ends at.

A publication of the same dataset runs maintenance on the same URI, also when it has lost
its lease: `run_retention` deletes the rows whose event time is behind a cutoff, tombstones
`extra_seconds` later. `cutoff` is the latest one used, and `robbed` remembers that a task lost
rows between their merge and their verification. Lance orders the commits of two merges that
touch a key, and the second is made against the first, so a key has one row and the check for
duplicate stored keys in `load_key_states` has nothing to find.

### PublicationRetention

The publisher, which pins its candidate and then persists the manifest, sweepers, readers, a
late attempt that makes either or both of these writes again, and a clock. A sweep
claims, removes pin and manifest outside the database, finalizes the row, and later
deletes the audit rows; it may crash between any two. Publications of one dataset may
have different retention settings, since each refers to its own revision.

### SpecLifecycle and SpecValidation

`SpecLifecycle` splits the operators' transactions into statements with the `FOR
UPDATE` and `FOR SHARE` locks they take; the dataset's lane moves beside them, and while it
has an open publication an assignment waits for the next ingest instead of enqueueing a rebuild. The rows an
activation selected to lock are a set it takes in order (`todo`).
`SpecValidation` starts from the revision migration 0001 stores, applies edits, and submits it:
the checks of `state/specs.py`, the CHECK and UNIQUE constraints and column types of the
tables, and the decoding of what was stored. Decimals count 1/100000, so the rounding of
a NUMERIC column is visible. `INTEGER_MAX` and `BIGINT_MAX` are the widths of the columns; TLC's
own integers have 32 bits, so the run scales both down, and the theorem is for any widths.

### LanceTable, MaintenanceJob, IndexJob, TableJobs, ClusterShuffle

`LanceTable` is external: versions, an optimistic commit that fails on conflicting changes, an
Overwrite that keeps configuration and drops indexes. That fragment ids are never used twice, not
even after an Overwrite, is an assumption about Lance taken from the docstring of
`fragment_id_signature` (`maintenance/cluster.py:172`); `StampIsTruthful` depends on it, as the
code does.
Its writers append, merge, delete and compact between any two phases of a job.
`MaintenanceJob` has the clustered rewrite (plan, retention, overwrite, index rebuild,
stamp) and the compaction rounds it hands over to; `IndexJob` has plan, shards, reduce,
commit, stale rounds, training with its sidecar, and in-place maintenance.
`ClusterShuffle` is the data path of the rewrite. The driver packs the partitions, one
after another, into buckets under a cap and splits a partition above the cap into salted
buckets (`derive_buckets`). One read task per shard goes through its batches, cuts each into
slices by bucket and partition (`assign_global_bucket`; the rows of a salted partition take
its buckets in turn, each shard starting at an offset of its own), buffers the slices, and
flushes the largest buffers when a chunk's worth is held (`pop_largest_bucket`). Write tasks
take the chunks of a bucket in the order of their partitions. A task may fail at any
step; the driver goes on to the documents only if none did and the rows reported are the rows
planned (`validate_rewrite`). Rows are named by shard, batch and position.
Every phase may fail, the commit of a stamp, of segments and the cleanup after a commit included;
a run of the indexer may be configured differently from the one that trained the index
(`config_reusable`), and then trains it again.
`kept`, `expired`, `torn` and `dropped` are ghosts: the rows written and not deleted, the rows
a run's retention deleted, whether the last training left an older configuration or an older
sidecar in place, and the fragments of the segments the last rebuild dropped (section 6).

### MCComponents

The components above that share no state are explored in one run: the first step of a
behaviour chooses the component (`part`), and all other variables stay as they were.
The state space is the sum of the components', not their product.

## 3. Runs

| Run | Question | Instance | Distinct states |
|---|---|---|---|
| `lane` | does the invariant of the proofs hold, does a lane implement the catalog, is a source snapshot that may expire ever needed again, and can a lane wedge? | 1 dataset, 2 snapshots, 2 revisions, 1 fault, 2 operator actions, fair | 236 873 |
| `fleet` | do fencing, source order, the contents of served versions and the completion of snapshots survive superseded workers, gates and repairs? | 2 symmetric datasets, 2 snapshots, 2 faults, 2 repairs, 1 rebuild request, traded against each other | 409 683 |
| `planning` | are the sealed windows the real lineage, whatever happens to the table and whoever else plans? | 2 planners, 3 snapshots, both formats, 1 window per plan, 1 table event, failed read or failed cycle, 1 repair, fair | 317 907 |
| `dispatch` | how long does a lease last, and does every row settle? | 2 processes, 2 datasets, batch 2, lease 3, heartbeat 1, 2 attempts, 2 faults, fair | 411 870 |
| `components` | the properties of the components of `MCComponents` | below | 1 736 493 |
| `completion_skew`, `claims_disjoint`, `attempts_bounded`, `refreeze_revision`, `rejections_recorded`, `stamp_indexed`, `sidecar_current` | refuted statements, section 6 | small | - |

**Bounds.** `MaxSeq`, `MaxFaults`, `MaxRepairs`, `MaxGates`, `MaxAborts`,
`MaxSnapshots`, `MaxEvents`, `MaxWrites`, `MaxRuns`, `MaxClock`, `MaxPointer`,
`MaxEdits`, `MaxWindows`, `MaxAttemptsMade` and `MaxFailures` are conjuncts of guards and nothing else.
`MCFleet` bounds their sums as well (`WithinBounds`): two datasets share one snapshot and one
fault, one dataset gets two snapshots or two faults, and a second repair needs both datasets.

Lanes of different datasets meet only in a snapshot's completion, the source gate and a
claim batch, so one dataset is enough for lane properties and `fleet` puts two
together. Two snapshots give an earlier and a later INGEST and, with the publication of
the first and a rebuild, every order `Precedes` can produce. Two faults leave two
superseded workers beside a current one; `MaxAttempts` 2 reaches both outcomes of
`retry_work`. Two revisions and two operator actions in `lane` reach assign-then-rebuild, by
the same `enqueue_rebuild` a request takes in `fleet`, and block-then-repair.

In `planning` three snapshots are a baseline, a window and a window beyond the bound of
one plan, so a plan ends before the head; one event is enough to expire, roll back or
replace what a planner has pinned or to fail a read, and one repair to overtake a plan. A
descendant is a clean append or one past the fact limit (which is 1 there) that declares
nothing: once expired, the first looks damaged and the second empty. What else
can be wrong with a snapshot is explored fact by fact in the `manifests` part of `components`,
and the theorems are for all kinds. In `dispatch` a batch of two puts a claim behind another and
the lease is long enough for one heartbeat, short enough to lapse behind it, and two faults
are enough to lose it to a renewal that is late.

In `components`: table jobs with 3 rows of which one is expired, 2 concurrent writes, 3
runs, 2 shards per rebuild and all index kinds (a rewrite, a run that trusts its stamp, and
one more); 3
publications with different retention, 2 sweepers, batches of 1, clock up to 2; 4
revisions in 2 specifications, 2 sessions; drafts with any 2 edits drawn from values
around each limit; 3 keys in 2 partitions, 2 windows, 3 attempts, a retention cutoff that takes
some rows and leaves a tombstone; all metadata graphs of 4
snapshots, damaged ones included; all snapshots with at most 2 manifest facts and those with
3, one more than are collected, with and without evidence; completions of 3 datasets, of which one is
neither first nor last, with 3 gates and 2 aborts; a shard of two batches of 2 rows beside one of at most 1 row, over 2
partitions and rows without a vector, caps 1 and 2 (a bucket of several partitions, and a
partition of several buckets), buffers of 3 rows (so that one is flushed with a batch half
taken) and one failing task. The clocks of the sweepers agree there (`Skew` 0).

**Deadlock** is not checked: with every bounded counter spent and every row
finished, or a snapshot classified, the system stops, and idling is what
the real processes then do. `LanesDrain`, `PlanningConverges` and `WorkSettles` ask
the question deadlock checking cannot.

**Fairness.** `lane`: `claim_due_work`, because `run_loop` in
`reconciler/cli.py` repeats `run_once`, which plans and then claims and drains, for as
long as the process lives, and logs and retries a cycle that failed (this assumes that
planning does not fail in every cycle, since a cycle whose planning raises never
claims); worker and reconciliation steps, because a worker that has not
crashed runs on; expiry of a lease whose worker is gone, because time passes.
Nothing is assumed of operators, the planner, or faults. A dataset that needs an
operator (`NeedsRepair`: a closed gate, or a blocked row that still gates the
lane) is excused, and only that.

`planning`: each planner's own steps, for the same reason; failed cycles, the table's
events and the operator are not fair. The reconciler command exits when the source
does not fit its registration before any baseline is sealed, and
`PlanningConverges` excuses that. It is stated for tables that number their snapshots; for
the others it is false (`rejections_recorded`).

`dispatch`: time passes, a process that has not crashed goes on, and a runner's work
ends. Only executing takes time there, everything else a process does, the renewal when it is
due included, is instantaneous unless a fault delays it, and faults are finitely many: if a claim could always wait longer than its
lease before it begins, it would be claimed and lost for ever, which is a matter
of `lease_duration` and batch size and not of the protocol. The same is true of renewals that
are always too late. `WorkSettles` assumes in its
statement, not as fairness, that planning goes on succeeding somewhere.

**Mutants.** Each property of a passing run is paired in `PROJECT.json` with
one changed definition, a plausible bug of the mapped code, that makes TLC report
exactly that property: a blocked row that no longer holds back its successors, a
lease check without token and fence, a rebuild that reads the latest version, a
candidate pin that is overwritten, a completion that ignores blocked rows, a
missing retirement, a lost EXISTS, an epoch that is not compared, a stamp that survives an
overwrite, an off-by-one of a salt, and so on. They stand above the definition they change,
marked `Mutant`.

## 4. Properties

Lanes and catalog:

- `AtMostOneOwner`: of all workers that ever claimed work of a dataset, at most one passes `lease_is_current`.
- `AppliedPrefix`: the applied snapshot covers exactly the succeeded INGEST rows.
- `ServesExactly`: a publication's version holds exactly the snapshots up to its sequence, and so does the ingest pointer, whatever superseded workers committed to those URIs.
- `PublishedIsPinned`: what is served is what its work item pinned.
- `SnapshotCompletion`: outside a gate, COMPLETE and "all INGEST rows succeeded" agree (transactions atomic).
- `ImplementsCatalog`: the refinement of section 2.
- `LanesDrain`: every dataset keeps returning to drained and served, or to a state an operator can see and repair.
- `ExpiredSourceIsNeverNeeded`: a window one of whose snapshots the retention decision let go, or that is fully ingested, is never ingested again.
- `NeverEarly`, `GateHolds`: the part of snapshot completion that survives READ COMMITTED.

Planning:

- `SealedLineage`: the accepted rows are the unbroken lineage from the baseline, each clean and with exactly the targets it adds rows to.
- `RejectedIncrementIsReal`: a descendant rejected for what it is, and not because a read failed, is really unacceptable or over the fact limit, and did not just expire while it was read.
- `OvertakenPlansWriteNothing`: a plan a gate has overtaken writes nothing.
- `PlanningConverges`: on a table of format 2 planning keeps reaching the head, or leaves the reason in the gate.
- `NoDocumentTwice`, `RetainsTheTail`: the walk ends on damaged metadata and keeps the checkpoint and its direct descendants.
- `AcceptedWindowsOnlyAdd`, `CleanAppendsAccepted`: classification accepts only what adds, with exactly the targets it adds to, or a rewrite the catalog vouches for; and it refuses no clean append whose summary is readable and whose facts are within the limit.

Dispatch, merge, retention:

- `HeartbeatKeepsLease`: until its heartbeat reports a loss, a running claim has its lease exactly as long as the time since its last renewal, or since it began, is less than what it was granted then. So one that began with more than a heartbeat left keeps it while renewals are less than `LeaseDuration - Heartbeat` late, and one that began later, or is renewed later, may run without it; the lanes are safe all the same (`AtMostOneOwner`).
- `WorkSettles`: every row ends SUCCEEDED or BLOCKED.
- `MarkedTableIsComplete`: a table marked with a window holds every key's last mutation up to it, or a later one, and nothing else, except where retention deleted that mutation or a later one; what a late attempt then puts back is past its retention too, if event times follow source order.
- `NoFalseConflict`: no late or repeated attempt ends in a conflict, unless retention deleted rows between their merge and their verification.
- `RetainedStayIntact`, `ReaderHasGrace`, `NothingLeaks`: what is retained keeps row, pin and manifest; so does what a reader resolved within the grace period; what lost its row left nothing behind, save for a late attempt.

Specifications:

- `OneActiveRevision`, `AssignedWhileActive`: overlapping activations leave one ACTIVE revision; a dataset is pointed only at a revision that is ACTIVE then.
- `PreparedDraftsPersist`: a draft the Python checks pass is stored and read back as it was; the four exceptions are in section 6.

Maintenance and indexing:

- `JobsKeepRows`: the table holds exactly the rows written and not deleted.
- `StampIsTruthful`: a table whose stamp makes later runs skip it is clustered, and indexed but for the fragments of segments its rebuild dropped; that there are none is the refuted `StampMeansIndexed` (section 6).
- `ReportedDeletes`: a run that does not fail reports exactly the rows its retention deleted.
- `OneModel`: all segments of a vector index have the same centroids and quantizer, unless the last training committed its index and then failed to replace an older configuration, or to replace an older sidecar of the same row count (`torn`); the next complete training ends that. That a stale sidecar is never found is the refuted `SidecarIsCurrent` (section 6).
- `BuiltMeansCovered`: a run that reports success covered what it planned.
- `EveryRowRoutedOnce`: a rewrite that is committed holds every row of its version exactly once, and one is refused only after a task failed.
- `WrittenInPartitionOrder`: read bucket by bucket, the partitions of the new fragments never decrease.
- `BucketsBounded`: no bucket receives more rows than the cap; a salted one at most one more for each further shard.

`TypeOK`, `LaneInvariant` and `CompletionWitness` are invariants the proofs carry;
`SourcePlanning` has a `TypeOK` of its own.

## 5. Proofs

Every theorem below holds for any number of datasets, snapshots, workers, planners,
sessions or sweepers, and any value of the bounds. Each proof has one lemma per action and,
within it, one step per conjunct the action can disturb.

| Module | Theorem | States |
|---|---|---|
| `DatasetLanesProofs` | `LaneSafety`, `TypeCorrect`, `AppliedInOrder`, `SingleOwner`, `CompletionExact` | `[]LaneInvariant`, `[]TypeOK`, `[]AppliedPrefix`, `[]AtMostOneOwner`, `[]SnapshotCompletion` |
| | `SpentWindowsStaySpent` | `ExpiredSourceIsNeverNeeded` (action property) |
| `LaneServingProofs` | `ServingSafety`, `ServesExactlyHolds`, `PublishedIsPinnedHolds` | `[]ServingInvariant`, `[]ServesExactly`, `[]PublishedIsPinned` |
| | `LanesImplementCatalog` | `ImplementsCatalog`: the lanes implement `ServingCatalog` |
| `IngestCommitProofs` | `ReplaySafety`, `NoFalseConflictHolds`, `MarkedTableIsCompleteHolds` | `[]ReplayInvariant`, `[]NoFalseConflict`, `[]MarkedTableIsComplete` |
| | `CompletionNeverEarly`, `WitnessHolds` | `[]NeverEarly`, `[]CompletionWitness` |
| | `GateStaysClosed` | `GateHolds` (action property) |
| `SourcePlanningProofs` | `PlanningSafety`, `PlanningTypes`, `SealedLineageHolds`, `RejectedIncrementIsRealHolds` | `[]PlanningInvariant`, `[]TypeOK`, `[]SealedLineage`, `[]RejectedIncrementIsReal` |
| | `OvertakenPlansHolds` | `OvertakenPlansWriteNothing` (action property) |
| | `AcceptedWindowsHold`, `CleanAppendsHold` | `[]AcceptedWindowsOnlyAdd`, `[]CleanAppendsAccepted` |
| `LineageWalkProofs` | `WalkSafety`, `NoDocumentTwiceHolds`, `RetainsTheTailHolds` | `[]WalkInvariant`, `[]NoDocumentTwice`, `[]RetainsTheTail` |
| `DispatcherProofs` | `DispatchSafety`, `HeartbeatKeepsLeaseHolds`, `RunnersExclude` | `[]HeartbeatInvariant`, `[]HeartbeatKeepsLease`, `[]ScheduledRunnersExclude` |
| `SpecAndRetentionProofs` | `RetentionHolds`, `RetainedStayIntactHolds`, `ReaderHasGraceHolds`, `NothingLeaksHolds` | `[]RetentionInvariant`, `[]RetainedStayIntact`, `[]ReaderHasGrace`, `[]NothingLeaks` |
| | `LifecycleHolds`, `OneActiveHolds` | `[]LifecycleInvariant`, `[]OneActiveRevision` |
| | `AssignedWhileActiveHolds` | `AssignedWhileActive` (action property) |
| | `PreparedDraftsPersistHolds` | `[]PreparedDraftsPersist` |
| `TableJobsProofs` | `JobsSafety`, `JobsKeepRowsHolds`, `StampIsTruthfulHolds` | `[]JobsInvariant`, `[]JobsKeepRows`, `[]StampIsTruthful` |
| | `ReportedDeletesHolds`, `OneModelHolds`, `BuiltMeansCoveredHolds` | `[]ReportedDeletes`, `[]OneModel`, `[]BuiltMeansCovered` |
| | `ShuffleSafety`, `EveryRowRoutedOnceHolds`, `WrittenInPartitionOrderHolds`, `BucketsBoundedHolds` | `[]ShuffleInvariant`, `[]EveryRowRoutedOnce`, `[]WrittenInPartitionOrder`, `[]BucketsBounded` |

**Assumptions.** Each proof rests on the named ASSUME of its module, and TLC evaluates all of
them: bounds are naturals (positive where the code refuses zero), the heartbeat is
shorter than the lease, the datasets of a dispatcher are finitely many, and the
null value is none of the values it stands beside (`NullAssumption`, `NullColumns`,
`NullPublication`; SQL's NULL is no work id, number or row). `PlanningAssumption` lists the
kinds a snapshot may have. `ReplayAssumption` says that a window holds finitely many rows
and that chunk bounds are positive, `TableAssumption` that the rows that can be written are
finitely many, `IndexAssumption` and `ReplanAssumption` that shard sizes and the settings a
CHECK constraint keeps positive are. `ShuffleAssumption` says that a table is a finite sequence
of shards of batches of partition numbers and that cap and buffer are positive;
`TargetsAreKeys` and `InspectedAreEvidence` what a manifest fact can be; `EditsAreTyped` that an
edit of a draft keeps the Python type of what it changes, which `specs.py` checks first, and
touches neither its number nor, as a whole, its list of fields or indexes; `FactLimitAssumption` that
the fact limit is a number. The theorems use no fairness and bound no faults. Of time they
assume what the models say: processes count it together (`Tick`), a renewal may be late
by any amount, and a sweeper's clock is off by at most `Skew`.

**Lanes.** `AppliedPrefix` is not inductive. Completing the INGEST of snapshot *s* sets
`applied` to *s*, so every earlier row must have succeeded already: that is
the last conjunct of `SourceOrder` about RUNNING rows, and it holds because
`claim_due_work` only takes a row when `lane_order_predicate` finds nothing earlier
unfinished. It stays true because a new snapshot is always later than all others
(first conjunct of `SourceOrder`), so no unfinished row can appear *before* a running
one, and because a succeeded row never changes again. `AtMostOneOwner`
follows from `Fenced`: a fence is used by one claim, and a claim that is current
carries the fence of its dataset. `Fenced` is preserved since a claim always takes
a fence above every earlier one. `ExpiredSourceIsNeverNeeded` follows from the same
invariant: rows are only ever added for a snapshot that is not there yet, and a repair
reopens unfinished rows only, which keep the floor where it is.

**What is served.** `ServingInvariant` is about superseded workers. A worker that lost its
lease may still write a window, build a candidate, pin or set a marker, so the contents of a
URI may be ahead of what its row says. Three facts keep that harmless: whatever is in
the URI beyond the applied snapshot belongs to an ingest that lane order had let through
(`DatasetHolds`), so it is the next window and not a later one; a publication that can
still be swapped in matches the pointer, and no ingest that was let through is newer than it
(`LiveHolds`, the last conjunct of `IngestClaim`); and the URI of a rebuild holds only the
rebuild's own snapshot until it is published (`Candidate`). A version once committed never
changes, hence what a publication names stays exact. The refinement is then shown
step by step: `complete_ingest` is the abstract application of a window,
`publish_dataset` the swap, everything else a stutter. That the swap's location is new
needs `Succeeds`: a publication in the URI of a rebuild is later than that rebuild.

**Statements of a completion.** `CompletionWitness` adds what a transaction in flight
knows: a completion that holds the snapshot row saw every *other* row committed,
and its own commits with it; rows never leave SUCCEEDED, so the knowledge does not
go stale. It is the opposite knowledge, "some row is unfinished", that does, which is
the finding below. `GateHolds` needs the same: a completion that could overwrite the gate
would have to hold the row the gate's transaction has locked.

**Planning.** A planner acts on what it read some steps ago. A snapshot never changes, and
one that has left the live table does not come back, so a classification of a snapshot
that is live *now* was made from its real manifests: `WindowsOK` and `RejectionOK` say
so under that condition, and `verify_planning_snapshots` at the end of a cycle makes them
unconditional. Without it an expired snapshot would be rejected for its missing manifests. A
failed read says nothing of the snapshot, so its codes are outside the theorem.
That accepted rows are consecutive needs that a walk which reaches the checkpoint
goes through every snapshot between; this comes from the ancestry being the *least* set
that walks. The rejection theorem covers format version 1, where every
sequence number is 0: there no descendant is recorded at all. A plan carries the epoch of
its checkpoint, and an overtaken one an older epoch than the source (`OvertakenPlans`).
The parts of the invariant take the state as arguments, so that one lemma about values
carries a part over every step that leaves those values alone.

**The walk.** `NoDocumentTwice` is Floyd's argument. The invariant carries the way of the
fast cursor as a function, twice as long as what was yielded; if the next
document had been yielded before, the way would be periodic from there on and one of the
multiples of the period would have made the cursors meet already (`ReturnIsPeriodic`,
`CursorsMeet`). Where the argument needs induction over numbers it takes the least
counterexample instead, from the well-foundedness of `<`.

**Leases.** `HeartbeatKeepsLease` says whether a lease is live. `BeatsInTime` says how much of it is
left: while a heartbeat runs and what was granted is not used up, the row is still the process's
and its lease has left exactly what was granted less the time since; afterwards the process has no
lease at all. Nobody else touches a row whose lease is live, so only time takes it. As a row has
one owner, `RunnersExclude` follows: a claim whose grant exceeds a heartbeat and the delay of its
renewal holds its lease, and whoever else still executes work of that dataset is past its own grant.
A renewal later than that really lets two runners overlap; what they may do is the subject of
`DatasetLanesProofs`.

**Retention.** Sweeps hold publications that have expired only, and expiry is stable: time
and newer publications only add to it (`ExpiryIsStable`). Hence nothing that has not expired
has lost anything. A reader's location was the served one when it was resolved, so
its retirement, and the grace counted from it, came later.

**Specifications.** Two activations of a specification are serialized by the rows they
lock: `Queued` says that of two that have selected, one still has to lock the draft
of the other; `Sees` that an activation has locked, or is about to lock, every ACTIVE row.
An assignment holds a share lock on its ACTIVE revision until it commits.

**Replay merge.** A task has *passed* the rows whose place in their partition lies below its
offset. `ReplayInvariant` says that a row an attempt passed is stored with the attempt's window
or a later one, or that its mutation or a later one of its key is past its retention
(`replay_update_condition` makes stored sequences grow, only retention takes a row away, and the
cutoff grows too), that what is
stored with a window's number is that window's terminal row, and that the marker only moves
from a window to the next, once all of it has been passed. An older row that is put back
under a marker follows one that expired, and where event times follow source order it is older still. A window's terminal row is unique, since
a window with two rows of a key is blocked, so an attempt that meets its own sequence
meets its own digest: no conflict. That the slices of a task leave out no row needs no induction
over chunks: places are numbers, and the offset of a task that ended is past all of them
(`Passed`). The length the loop ends at is the least of what every closed set
of lengths tried contains, which gives that it is positive and within bounds.

**Table jobs.** Plans, pins, builds and stamps speak of fragments of an older version. Every
commit *follows* its predecessor (`Follows`): ids that are gone do not come back, a fragment
keeps whether it is clustered, and one that is covered stays covered while it lives.
One lemma per Lance operation shows that, and one lemma (`OldKept`) carries what was
recorded across any commit. Then `JobsKeepRows` needs that the groups of a rewrite are the
rows of the planned version, which the overwrite finds unchanged or refuses (`RowsOK`).
The stamp needs that what it will name is clustered and covered, in a segment still to be
committed, or in one that was dropped (`StampOK`, `RebuildOK`), and that no stamp from before the overwrite names a
fragment that lives. `BuiltMeansCovered` follows the same split between covered
and being built through shards, merge and commit (`CoverOK`). For `OneModel` the
invariant names the model every segment has (`CurrentModel`): that of the configuration, or,
between a training and the write of its configuration, the last one trained;
the sidecar of the configuration holds that model or none (`ModelOK`, `RebuildModelOK`). A
training that ends halfway over an older configuration or sidecar breaks this and sets `torn`,
the next one replaces every segment and restores it. Writing this down showed two
conditions that overlapped in a CASE, where TLA+ leaves the choice open: the phase
after an indexing plan without target fragments, and one check of `SpecValidation`. Both now say
what the code's order of tests says.

**The shuffle.** The invariant has two halves. `PlanOK` is about the packing: the buckets
closed so far and the open one cover every partition below the next exactly once, in order, and
the rows counted in a bucket stay under the cap; a partition above it has salted buckets
0 .. *n*-1, enough for its rows. So the bucket of a row exists and is one, and later buckets hold no earlier
partitions. `ReadersOK` accounts for rows: what a read task has passed is in exactly one of its
pending slices, its buffers and the chunks it emitted, each under the key of its rows, whatever is
flushed when; buffers and chunks of two tasks are disjoint, as their shards are. `OutputOK` says that a
bucket is written in the order of its chunks' partitions, each chunk once, with what is left
coming later, and that the count reported is the number of rows written: hence
`validate_rewrite` compares real counts, and can only refuse what a failed task left out.
`BucketsBounded` needs how many rows of a partition a shard sends to one salted bucket. Their
turns are consecutive numbers, and among *m* consecutive numbers those with one remainder modulo
*n* are at most *m*/*n* rounded up; instead of an induction over rows the proof takes the least
counterexample from the well-foundedness of `<`, and adds the shards up the same way.

**Classification.** The verdict is a chain of early returns over sets of facts; the lemmas follow
it test by test. An append that reaches the end has no removed file and no file of another
snapshot's among its additions, so its targets are those of its own added files; the converse shows that
no test of the chain fires on a clean append.

**Drafts.** `PreparedDraftsPersist` compares two sets of checks written in two languages. One lemma
per table (`FieldConstraints`, `IndexConstraints`, `SettingConstraints`, `ChildConstraints`) derives
the CHECK and UNIQUE constraints from the Python checks; `NumericExact` says which decimals a
NUMERIC column keeps, and `RowsAsWritten` and `ReadBackInOrder` that the rows read back are then the
revision itself, so that they decode and compare equal. The invariant carries that the draft stays a revision
(`IsRevision`) under every edit, and that its outcome is the one its content decides. Numbers
their columns hold, the growth factor of NUMERIC(8, 4) among them, decimals written as floats and
children in order are hypotheses of the property, and each is needed (section 6).

**Only model-checked.** `LanesDrain`, `PlanningConverges` and `WorkSettles`: liveness under
fairness is out of the prover's reach. Every safety property of a run is a theorem.

## 6. Findings

- `completion_skew`: two reconcilers that complete the last two INGEST rows of a
  snapshot at once each see the other row RUNNING; neither marks the snapshot, and
  nothing looks again, so it stays SEALED although "every INGEST row succeeded"
  (`state/repository.py:2516`).
- `claims_disjoint`: "dataset-disjoint by construction" (`state/README.md:135`)
  holds within a batch only. A rebuild enqueued while a later INGEST runs sorts before it,
  is due, and makes the claim of every dataset in the batch fail with it.
- `attempts_bounded`: "The maximum-attempt setting moves exhausted work to
  `BLOCKED`" (`src/docs/adr/postgresql-dataset-control-plane.md:264`) holds for
  failures a worker reports, not for workers that die.
- `refreeze_revision`: "The next INGEST naturally re-freezes the desired revision"
  (`state/README.md:123`) holds for rows inserted afterwards, not for a row
  already enqueued.

- `rejections_recorded`: "Build a bounded accepted prefix or durably record the next rejection"
  (`reconciler/iceberg.py:1114`; `src/docs/etl-data-flow.md:92` says the same) does not hold on a
  table of Iceberg format 1, where every sequence number is 0. The planner rejects the descendant
  with SOURCE_SEQUENCE_ORDER, `assert_new_snapshot_extends_latest` (`state/repository.py:964`)
  refuses the row, and every cycle fails the same way without a row or a gate.
- `stamp_indexed`: "A rebuild failure therefore cannot leave an unindexed generation marked
  current" (`maintenance/README.md:178`, also `maintenance/cluster.py:1181`).
  `finalise_cluster_dataset` does not look at the count `commit_segments` returns. When a
  writer appends a fragment after the overwrite, the rebuild puts it into a shard with clustered
  fragments, and the writer deletes that row again, the segment of that shard is dropped as
  stale, while ids and row count are those of the overwrite again: the stamp is written although
  the index does not cover the dataset, and later runs skip it. A shard has to hold both kinds of
  fragment, so in the code it takes more than `CLUSTER_READ_SHARDS` (64) fragments; the run
  has 2 shards.
- `sidecar_current`: "a stale sidecar can never be mistaken for a current one"
  (`indexing/optimize.py:97`). Sidecars are named by the row count at training, and a failed
  write is swallowed (`indexing/runner.py:707`): after two trainings at one row count the sidecar
  of the first may be what is found for the second.

Observations made while modelling, without a run of their own; the models contain each of
these behaviours and the properties say where they allow for them:

- A read that fails (`reconciler/iceberg.py:1014`) is recorded against the snapshot as a rejection
  that is never retried, although the snapshot may be sound.
- Record retention runs on the table an ingest writes to (`reconciler/workers.py:1005`). Rows
  under a completion marker disappear, as the code expects (`reconciler/workers.py:918`); a
  late attempt may put an expired row back until retention runs again; and a task whose rows are
  deleted between its merge and its verification ends in a ReplayConflict that no other writer caused.
- A claim behind another in its batch may begin with less of its lease left than a heartbeat
  takes, and a renewal may be late: the runner then goes on without its lease until
  the heartbeat notices.
- A slow planner without a checkpoint may record BASELINE_NOT_RETAINED after another has
  sealed the baseline. Rows rejected at the baseline are outside `RejectedIncrementIsReal`
  for that reason.
- With no unfinished work the retention floor is None, and only the replay horizon keeps
  the last sealed snapshot, the parent of the next window.
- A training that fails between creating its index and writing the configuration over an older
  one leaves later segments with another model until the next training (`torn`).
- Phases of a rewrite that end in an error report fewer deletions than they made.
- An attempt that lost its lease and pins after the cleanup of its publication leaves a
  pin that no sweep finds (ghost `late`).
- Assigning revisions A, B and again A is refused once the lane has moved on
  (`state/repository.py:767`, against the docstring at line 686); RETIRED has no way
  back to ACTIVE and a configuration is unique within its specification, so a rollback
  has to differ from what it returns to.
- A draft whose decimals were written as integers passes the checks and does not decode as
  it was written; one whose children are not listed by ordinal is refused; a growth factor
  of 10^4 or more passes the checks and overflows NUMERIC(8,4); and a setting or option of 2^31
  or more, `retain_versions` say, passes checks that are to refuse what "falls outside the
  database contract" (`state/specs.py:661`) and is refused by its INTEGER column. These four are the
  hypotheses of `PreparedDraftsPersist`.

## 7. Plan

1. `ClaimTransaction`: `claim_due_work` statement by statement beside `complete_ingest`
   and `publish_dataset`; whether lane order survives the time between selecting a row
   and locking its dataset.
2. The search API's caches, janitor and admission permits, composed with
   `PublicationRetention`.
3. Several indexes of one dataset, and what `cleanup_dataset` removes, in `TableJobs`.
4. Clock skew and larger instances of the components, each in a run of its own.
5. The theorems of new modules, and a composition of `ClusterShuffle` with
   `MaintenanceJob`, whose rewrite takes the rows of its groups as one step.

## 8. Not modelled

Recall measurement, benchmarks, telemetry, command lines, Spark and cloud-storage wiring
keep no control state; nor does SLO evaluation. The search API is represented by a reader
that resolves and opens a location. Python's own type checks, row accessors and
configuration parsing, the distance computation that assigns a row to a partition, the
contents of rows, schemas, vectors and index structures, and the bytes of digests are
data the properties do not tell apart. The removal of old Lance versions and what a
publication manifest says are left out; everything else that is missing is in the plan.
