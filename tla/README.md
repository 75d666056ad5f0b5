# Verification of ondaDB

TLA+ models of the ondaDB storage engine, TLC runs that check them on small
instances, and TLAPS proofs that hold for every instance. Paths such as
`txn.rs:2003` are files of the crate (`src/src/`); `docs/` is `src/docs/`.

## 1. The system

ondaDB is a log-structured storage engine with multi-version transactions.
Writes are buffered in a transaction, validated at commit, logged, inserted in a
memtable and published; memtables are sealed and flushed to tables; tables are
compacted. The parts, with their state, their operations and what is hard about
them:

| Part | State | Operations | What is hard |
|---|---|---|---|
| Sequence publication (`db.rs`, `snapshot.rs`) | `next_seq`, publish cursor, completed ranges, `visible`, snapshot counts | `reserve_seq`, `publish_range`, `acquire_*_snapshot`, `pin_read_floor`, `release_snapshot`, `oldest_snapshot`, `observe_seq` | commits finish out of order; a compaction works with a floor frozen earlier |
| Pessimistic locks (`txn_lock.rs`) | entries, owners, queues, commit stamps, free counter | `acquire`, `release_all`, `deny_all`, `wake_all_with_error`, `shut_down` | wait-die over several keys, hand-off, stamps outliving owners, shutdown races |
| Span index (`span_index.rs`) | markers, reserved slots, overflow watermark | `reserve`, `try_reserve`, `insert_*`, `prune`, conflict checks | bounded memory must fail towards refusing |
| Transactions (`txn.rs`) | write buffer, read set, snapshot | begin, get, put, `delete_range`, `commit`, `prepare`, `rollback`, refresh | five isolation levels, validation against concurrent commits |
| Prepared transactions (`prepared.rs`, `db.rs`) | registry, WAL generation pins, tombstones | `prepare`, `commit_prepared`, `abort_prepared`, sweep, recovery | frames in two generations, unlinked in order, crash anywhere |
| Unified store (`unified.rs`) | one memtable and WAL for all families, sealed queue, replay floor | apply, `commit_decision`, `rotate`, `flush_unified`, open | writer slots, rotation, several flush workers, fail-stop |
| Column families (`column_family.rs`) | memtable, sealed queue, levels | apply, rotate, flush, retire | stalls, ordered publication, drop and clear |
| Read path (`column_family.rs`, `iterator.rs`, `range_tombstone.rs`, `memtable.rs`) | none of its own | point reads, iterators, merges, range masks | sources change while they are read |
| WAL (`wal.rs`) | stripes, group-commit queue | append, sync, replay | torn tails, group commit |
| Catalog (`manifest.rs`, `manifest_edit.rs`, `db.rs`) | snapshot, edit log | `catalog_txn*`, snapshot, replay | crash between snapshot and rename |
| Compaction (`compaction.rs`) | picks, inputs, outputs | picking, merging, retention | concurrent picks, excise, snapshots |
| Parts, tiers, storage (`parts.rs`, `storage*.rs`) | table files on tiers, pending deletions | move, detach, attach, mount, freeze, export | paths reused, files retired later, failure half way |
| Excise and range locks (`excise.rs`, `range_lock.rs`) | locked ranges | lock, excise | waits against compaction |
| Checkpoint, maintenance (`checkpoint.rs`, `maintenance.rs`) | deletion pause, plans | checkpoint, backup, clone, object-store checkpoint, restore | files deleted under a copy |
| Caches (`table_cache.rs`, `cache/`, `read_resources.rs`, `local_cache.rs`) | readers, blocks, descriptors, disk files, namespaces | lookup, insert, evict, lease, release, purge | purges and evictions beside lookups, ids shared by databases |
| Upgrade (`upgrade.rs`) | two sibling directories, journal, marker | rebuild, swap, recover, roll back, clean up | crash and other openers between two renames |
| IO limiter, legacy readers, configuration, tools | | | timing and data transformation |

How they interact: `commit_mu` serialises commits, prepares and their
resolutions; an ingestion reserves and publishes its sequence without it, before
its tables are installed. Lock grants
refresh the snapshot that commit validates against. A commit reserves span slots,
validates, reserves sequences, applies to the WAL and memtable, publishes, and
inserts its markers. Prepares move the validation forward and leave a reservation
that every other commit checks, and a frame in a WAL generation that flushes must
not unlink. Flushes publish through the catalog, which carries the replay floor.
Compactions, excises, ingestions and part moves change the same levels through
it, and leave files behind that iterators, checkpoints and the paced deletion
worker still need or will unlink. Reads capture a state, merge its sources and
go through the caches.
`PROJECT.json` lists the hazards at their lines.

## 2. The modules

| Module | Models | State and actions against the code |
|---|---|---|
| `Publication` | sequence publication, snapshots, version retention | variables are the fields of `DbInner` and its publish lock; `ReserveSeq`, `Apply`, `PublishRange`, `NoteThreadCommit` are the steps of a commit; `Acquire*`, `PinReadFloor`, `ReleaseSnapshot` those of a reader; `FreezeGcFloor`, `Compact` those of a compaction on one tracked key; `ObserveSeq` is a part attached at run time |
| `TxnLock` | the lock table and the refresh after a grant | one action per outcome of `acquire`, one per wake-up, `ReleaseAll` with hand-off and sweep, `Reacquire` for a key already held, `Refresh`, `RefreshExpired` and `RefreshConflict` for the refresh, `Prepare` (reservation and `deny_all`), `CommitPrepared`, `AbortPrepared`, `FailStop`, `ShutDown` |
| `SpanIndex` | the committed-span index | operators on `markers`, `reserved`, `overflow_seq` |
| `Commit` (extends `SpanIndex`) | the commit pipeline and prepared transactions as seen by conflict detection | `Begin`, `Get`, `RefreshPin`/`RefreshAdopt`, `ReserveRange`/`ReservePoints`, `Validate`/`Refuse`, `Apply`, `Publish`, `InsertMarkers`, `Finish`, `Prepare`, `CommitPrepared`/`ResolvePrepared`, `DecisionFails`, `AbortPrepared`, `EnableRangeDeletes` |
| `WalGens` | `WalGenState`: pins, tombstones, sweep | `Retirable` is `next_retirable`, `SweepResult` the fixpoint |
| `UnifiedStore` (extends `WalGens`) | the unified layout on disk and in memory, rotation, flush, failed flush, prepares and decisions as frames, crash, open | the operation holding `commit_mu` is `op`, a flush is a stage of a sealed memtable, a sweep's unlinks are a list in `sweeps` |
| `RangeTombstones`, `Tables`, `Reads`, `MergeRun` | pure algorithms: fragments; memtables and tables as blocks of restart runs; point reads, batched reads and scans; what one compaction writes | operators named after the functions; `Visible` (in `Reads`) is the reference a read is compared with |
| `Lsm` (extends `Reads`, `MergeRun`) | one family as its readers see it | writes, `SealMem`, `FlushImm`, snapshots; a compaction is `PickJob`, `LockAndMerge`, `InstallMerge`, a manual or range sweep `StartSweep`, `SweepLevel`; `PlanExcise`, `ExciseCovered`; ingestion; a restart that replays a flushed log |
| `Cursor` (extends `Reads`) | one iterator, entry by entry | `curKids` is the merge heap over shard cursors and the table iterator; a call is `SeekToFirst` ... `IterPrev`, then `EnterGroup`, `GroupEntry`, `CloseGroup`; `LateInsert` is a writer between any two; `TailRefresh` is the tailing iterator |
| `TxnReads` (extends `Reads`) | one transaction's buffer | arena, entries, hash index, savepoints, read set; puts, deletes, merges, range deletes, gets, savepoint calls, commit, reset, one-shot writes |
| `Caches` | readers, blocks, descriptors, disk cache, shared read resources | one action per critical section of a lookup, insertion, eviction or purge; `DbOpens`, `DbCloses`, `CloseResources`, `DirReplaced`, `ProcessRestarts` |
| `Family` | rotation, flush, drop, clear, close in the per-family layout | `thread` is the program counter of each rotating call, `worker` that of each flush worker, `ddl` that of the drop or clear; `fam` the objects, of which an old one may still be held; `FamilyCrash` is a crash and the reopen |
| `Wal` | one WAL generation and its successor | stripe files with a synced prefix, buffers, group queue, tickers; `submit_frame`'s paths, `sync`, `close`, `replay` over what a crash may leave |
| `Catalog` | MANIFEST and MANIFEST-EDITS | a job goes through `StartJob`, `CheckPoison`, `EnterTxn`, `AppendRecord`, `SyncRecord`, `PublishEdit`, `SaveManifest`, `CreateLog`, `RetireFiles`, with a failure at every call; `CrashAndOpen` runs recovery on a prefix of the unsynced tail |
| `CatalogAbstract` | what the catalog promises | requests become durable whole and once, then visible; a crash keeps what was durable and at most the one in flight |
| `Tiers` | table files on tiers and who deletes them | `call` is the program counter of each part or maintenance call, `removals` the deletion pause and queue, `artifacts` what checkpoints, backups, exports and detached parts hold |
| `Upgrade` | the swap of an old directory for its rebuilt sibling | `UpStep` is one file-system call of an opener; `upParent` keeps the parent directories a power failure may come back with |
| `Turns` | two helpers on sequences | |
| `PublicationProofs`, `TxnLockProofs` | theorems, section 4 | |
| `MCReadPath`, `MCDurability` | the two composed models, section 3 | |
| other `MC...` modules | scenarios and values for TLC | |

Names follow the source. Operators whose comment begins "Mutant of" are faulty
variants of the next definition; they show that a property can fail and are used
by no specification.

Abstractions. `Publication` follows one key and takes a batch as a range of
sequences; an ingestion is not one of its commits (see Set apart). `TxnLock` keeps
the wait queue as a set with an order relation, and from a prepared transaction
only the keys it reserves. A transaction in its `doomed` has failed a refresh: what
changed stays above its snapshot, so no later validation of it succeeds.
`Commit` gives a commit one sequence: no watermark separates its records. Keys
are small integers so that spans have an order. `UnifiedStore` takes a writeset
as one item, has `SyncMode::Full` for ordinary commits and separates append from
sync for control frames; sequences are left to `Publication`. An append that fails
whole leaves nothing and is no step; a failed fsync is (`WriteFails`, `SyncFails`).
The poison flag is checked when a call enters, before it waits for `commit_mu`, so
no step behind the mutex is guarded by it: a call already in goes on after a
fail-stop. A coordinator is taken to have one decision call per id in flight
(`MayDecide`). A value in `Tables`
is the sequence of the writes merged into it, so a lost or doubled operand
shows; filters are supersets of the keys. `Lsm` reads one captured state in one
step: what a read captures is immutable in the per-family layout; which job is
due is open, since thresholds are configuration. `Family`'s records are commit
sequences and its log is `SyncMode::Full`; `Wal` is about the other modes.
`Catalog` keeps a table's id, level and tier. A catalog edit is one step in
`Family` and `Tiers`. In `Tiers` a table's klog and vlog are one file whose bytes
are a set of writes; in `Upgrade` a directory is the set of what it holds. In
`Caches` the bytes of a file are a tuple that names directory, incarnation, table
and extent, and one shard of the block cache is modelled. Ghost variables
(`frozen_at`, `read_at`, `last_write`, `bare`, `outcome`, `acked`, `gone`,
`exposed`, `abandoned`,
`written`, `lsmWritten`, `curWant`, `txHist`, `txWant`, `promised`, `artifacts`)
record history for the properties.

Set apart. A snapshot taken while an ingestion runs has a sequence past it and sees
the data once installed, as `ingest.rs:14-17` says: `SnapshotStable` and
`ReadFloorKept` are about commits, and `ScansExact` names the case. Some orders of
events break what the code otherwise keeps; each is
recorded when it happens and is an explicit exception of the property it breaks,
so the property still covers everything else. `exposed` and `abandoned`
(`UnifiedStore`), `lsmTaint` (`Lsm`; exploration stops there), `caStale`
(`Caches`), `strayUnlink` and `halfWiped` (`Family`), `catDoubt` (`Catalog`),
`taint` (`Tiers`), `upTaint` (`Upgrade`). Section 5 lists them.

## 3. The runs

| Run | Bounds | Shows |
|---|---|---|
| `publication` | 2 threads, 2 pins, batches of at most 2, 3 sequences | gap-free watermark, stable snapshots across compaction, own commits become visible once the batches before them are applied |
| `txn_lock` | 3 transactions (one Serializable, one that never refreshes), 2 keys, `SWEEP_AT` 1, one commit sequence, one transaction that may prepare | exclusive grants, wait-die, exact sweep counter, shutdown, grants that see the stamped commits before them, every waiter returns |
| `commit` | one transaction at each of three levels, 2 keys, 2 overlapping spans, 2 slots, one failed decision, of the ReadCommitted one | first committer wins, serializable reads, frozen prepared keys, complete and bounded index |
| `unified_store` | 2 ids, 2 prepares in all, 1 ordinary commit, 4 generations, 1 crash, stall at 2 sealed memtables | acknowledged data and decisions survive, unresolved prepares are kept, resolved ones do not return, compacted data does not return, no generation is withheld for good |
| `read_path` | below | reads, scans, iterators, transaction reads and caches return what was written |
| `durability` | below | nothing promised is lost, calls end, the catalog implements its promise, artifacts and upgrades hold |
| `publication_attach`, `commit_refresh`, `commit_enable`, `unified_floor`, `unified_reuse`, `unified_lost` | smaller | one disagreement each, section 5 |

`read_path` and `durability` each put several modules in one specification. The
modules share definitions and no variable, so a behaviour chooses one of them at
the start (`focus`) and the others stay in an initial state: one run explores
each module by itself, and nothing is claimed about steps of two of them
interleaving.

Bounds of `read_path`.
- `Lsm`: ten scenarios (`MCLsm`), each with two or three writes drawn from puts,
  deletes, operands, expiring puts and range deletes over two keys, up to six
  background moves, one snapshot, two workers; tables of one entry force split
  outputs, three levels occur. A wrong drop needs a version, what shadows it and
  one source below or beside; that is three writes and a level below the target.
- `Cursor`: three keys; every pair of extra writes over two puts, split between
  table and memtable in five ways, with and without restart runs, bounds and
  tailing, one late insert. A reversal error needs a key on each side of the
  position and a fragment or group that spans it.
- `TxnReads`: five modes with buffers of two or three writes, two families, two
  keys, up to three savepoints, colliding hashes or not.
- `Caches`: six scenarios of two databases or directories, two threads, capacity
  one or two in every cache, with reopening, replacement, a failed unlink and a
  restart: an eviction and an insertion that overlap need two threads, a stale
  namespace one release and one reuse.

Bounds of `durability`.
- `Family`: two commits, two incarnations, two flush workers, one flusher, one
  mishap (failed flush, failed edit or crash), stall at one sealed memtable. Seal
  order and overtaking need two sealed memtables and two workers.
- `Wal`: two committers with one frame each (a two-record batch and a prepare),
  two stripes, all sync modes, a buffer of two, one fault, a rotation.
- `Catalog`: two concurrent jobs of eight kinds, three in all, a snapshot after
  one edit, one crash, one fault, three ids: an edit before, in and after a
  snapshot, with another job waiting.
- `Tiers`: twelve scenarios of at most four calls, two running at once, with a
  fault, up to two restarts, and paced or inline deletion.
- `Upgrade`: two openers at a time and three in all, of three kinds, one failure,
  one death and one power failure, with or without keeping the backup.

Why the other bounds are enough. `publication`: a gap needs two commits in flight
and a third sequence beyond; a stale floor needs two pins. `txn_lock`: a wait
cycle needs two keys, and a hand-off that leaves a younger waiter behind needs
three transactions; a stamp dropped by `deny_all` needs one prepare. `commit`: a conflict has two parties, and the third makes the
index overflow and pruning happen; two slots are fewer than three commits use.
`unified_store`: a prepare and its decision in different generations, both
flushed, with an active one beyond, need three generations; two ids make pins of
one generation overlap; the fourth generation is the one a reopen adds.
Two prepares are either one of each id or the same id twice.

Deadlock is checked for `publication`. The other models stop when every
transaction has ended or a bound is reached; for `Family`, `CallsProceed` says in
the states themselves that nobody inside a call is stuck.

Fairness. `publication`: a thread whose batch is applied goes on to publish it; the
code waits for nothing there. Applying is not fair: a memtable queue at its limit
stalls it (`column_family.rs:1231`, `unified.rs:411`), and after a failed flush for
as long as the memtable stays queued. `OwnCommitBecomesVisible` is therefore
conditional on `StallsEnd`, that every reserved batch leaves the apply step.
`txn_lock`: a thread inside the engine that can step does, and a transaction that
is not waiting eventually ends; the second is the caller's part, without which a
lock may be held for ever.
Readers, compactions, flushes, crashes and shutdown are not assumed to happen.
All other runs state safety only, with no fairness: `CallsProceed` and
`HandoffsHold` are the safety half of "every call returns" (some thread can move,
someone knows of the work).

Refinement. `Catalog` implements `CatalogAbstract` (`CatalogImplements`, checked
in `durability`): the mapping takes the durable catalog from what recovery would
read, the shown catalog from the in-memory levels, and the pending requests from
the jobs between request and durable record.

## 4. The proofs

`PublicationProofs` proves, for any threads, finite set of pins and bounds: type
correctness, `InFlightInvisible`, `SnapshotStable`, `ReadFloorKept` and that the
watermark never falls (`VisibleMonotone`). The invariant is
`TypeOK /\ BatchInv /\ PinInv`. The properties are not inductive alone: that the
watermark stays below unpublished ranges needs that reserved ranges are disjoint,
lie above the cursor and are in `completed` exactly when published beyond a gap
(`BatchInv`); that a snapshot is stable needs that the reference counts equal the
number of holders, so that the frozen floor never exceeds a held pin, and that no
version appears at or below the watermark (`PinInv`). The last is where an
ingestion, which installs below the watermark, would not fit.

`TxnLockProofs` proves, for any transactions, finite set of keys and bounds: type
correctness, `GrantedMeansOwned`, `WaitersOlder`, `FreeStampedExact`,
`ShutdownParksNobody`, `GrantSeesPredecessor`. The invariant adds to them how the
queue, the owner and the stage of each thread agree (`OwnInv`), what holds after
shutdown (`ShutInv`), that a transaction which failed no refresh has been told of
every key it holds but the one being granted, so locking a held key again brings
nothing new (`LockInv`), and how stamps, the watermark and the newest commit of a
key are ordered (`SeqInv`): a commit is remembered in its owner and then in the
key's stamp until the watermark has passed it.

`GrantSeesPredecessor` has three exceptions, each a path of the code. The refresh
waits one second for the watermark and then goes on without it. A refresh that
finds a read key changed fails `lock_key` but keeps the lock; locking the key again
returns `Ok` at the old snapshot (`txn.rs:826`, `doomed`). And a commit may leave
no stamp (`bare`): `commit_prepared` does not touch the lock table, and `deny_all`
drops the entries of a prepare with stamps that are not yet published. In the first
and third the transaction may abort on the write it waited for; in the second it
must.

The assumptions on the constants are the named `ASSUME`s of the two modules:
ids are positive numbers, key and pin sets are finite, bounds are natural numbers.

Only model-checked: the liveness properties (`OwnCommitBecomesVisible`,
`WaiterReturns`; temporal reasoning with fairness is out of the prover's reach),
`CallsProceed` (it uses `ENABLED`), the refinement `CatalogImplements`, and
everything about the other modules.

## 5. Where code and documentation disagree

Six runs end in a counterexample to a statement of the repository;
`PROJECT.json` quotes each line.

- `publication_attach`: attaching a part raises the watermark past commits in
  flight, and a snapshot taken there changes.
- `commit_refresh`: a range delete's marker enters the index after its
  publication, and a snapshot refresh in between does not validate against it.
- `commit_enable`: a point commit under way while range deletes are enabled is
  invisible to later range commits. These two windows are the only exceptions
  `SerializableReads` and `FirstCommitterWins` make, respectively.
- `unified_floor`: a failed newer flush leaves the queue while an older one is
  between its poison check and its edit; the older edit raises the floor past
  acknowledged data that no table holds.
- `unified_reuse`: after a reopen an id whose frames are still on disk is accepted
  again; the next open refuses the log. A second way to two frames needs no reopen:
  a prepare fails with "wal closed" between its append and its sync (`txn.rs:2327`)
  and is tried again. `PrepareIdsUnique` counts only prepares that returned `Ok`,
  so that the run shows the first.
- `unified_lost`: a prepare whose generation is rotated, flushed and swept between
  its sync and its pin returns `Ok`, and its only frame is unlinked.

Statements kept as definitions and refuted by TLC when checked by themselves;
the passing properties set exactly these orders apart:

| Definition | Statement of the code | What happens |
|---|---|---|
| `TablesInPlace` (`Tiers`) | file ids are never reused, so the order of deletions does not matter (`db.rs:266`) | a part moved away and back gets its old path again while that path still waits for the deletion worker, which then unlinks the live file |
| `AbandonIsHarmless` (`Family`) | an abandoned rotation removes only its own segment (`column_family.rs:1375`) | it may run after the family was re-created in the same directory, and unlinks the new segment of the same number |
| `ClearedStaysEmpty` (`Family`) | the durable edit already says the family is empty (`db.rs:3348`) | a crash before the wipe leaves WAL files that the reopen replays |
| `FlushesGoOn` (`Family`) | the queue is FIFO, so an older job was taken first (`docs/concurrency-and-safety.md`) | two rotations may send their jobs in the other order than they sealed; with every worker waiting for its turn nobody takes the older one |
| `SyncWalForces` (`Wal`) | `sync_wal`: every earlier commit is on disk (`db.rs:3603`) | beside a rotation it syncs the new handle while the old one is not yet closed |
| `FailedEditReopens` (`Catalog`) | a failure leaves a torn tail, which replay accepts (`manifest_edit.rs:1369`) | a job that had passed the poison check appends behind the torn record |
| `OwnScansMask` (`TxnReads`) | own range deletes mask what the transaction can see (`txn.rs:1490`) | the overlay writes them at the read sequence, which does not mask a version committed at it |
| `GetsExact` (`Lsm`) | the gap owner is the table that may hold the fragment (`column_family.rs:1834`) | below a level's first key there is no owner, so a point read misses a fragment there |
| `ScansExact` (`Lsm`) | a snapshot's view does not change | the events of `lsmTaint`: a compaction drops an expired version above the oldest snapshot and uncovers an older one; inputs replaced between pick and lock; an ingestion that publishes a sequence older than later writes; an operand folded while a replayed copy of it survives; level 0 sorted by key |

`Tiers` sets apart: the reused path; a failed attach, clone or compaction edit
that unlinks its copies though the edit may be durable; table ids handed out
again after a crash; an incremental object-store checkpoint after one from a
read-only database. `Upgrade` sets apart an open that saw no journal and creates
the path inside the swap, and a rollback that a later open turns round. `Caches`
sets apart a descriptor that an evicted reader leaves in the file cache, which
goes on serving a replaced directory. `TxnReads` sets apart two range deletes with
one start in a buffer that also holds a merge, which collapse (`txn.rs:1678`).

The prepare properties of `UnifiedStore` (`DecisionsKept`, `PreparesKept`,
`NoPhantomPrepare`, `NothingResurrected`, `NothingWithheld`) promise nothing about
an id in the ghost `exposed`. An id enters it in three windows: its prepare's
generation is flushed and swept between its sync and its pin (`txn.rs:2371`; this
is `unified_lost`); its decision's generation is swept before the pair is recorded
(`db.rs:3721`); the unlinks of one sweep overtake those of another (`db.rs:1054`).
It also enters when the id is accepted while a frame of it is on disk, by either
way of `unified_reuse`. So `PreparesKept` holds for a prepare once pinned and says
nothing of one that lost its file before. `abandoned` is the exception
`unified_floor` shows.

## 6. Not modelled

- The unified layout's reads: a point read captures the levels and then probes the
  shared memtables (`column_family.rs:2222`), so a flush may fall between; `Lsm`
  has the one-step capture of the per-family layout.
- Failure to create a WAL segment during a rotation (`unified.rs:895`), commit
  hooks, and the secondary write helpers.
- Compaction filters, FIFO compaction, foreign mounts inside a merge, and the
  periodic and mover schedules: policy over the actions that are modelled.
- Value logs, compression, checksums, mmap, varints: bytes below the level any
  property tells apart.
- `open_remote_checkpoint`, multipart uploads and the S3 transport: external I/O.
- Pins that retiring tables take on readers in a writable database.
- The IO limiter (rates), configuration parsing, entities, comparators, the
  decoders of earlier formats (`legacy_onda/`, `waves08/`) and the command-line
  tools: timing and data transformation without shared state.
- Steps of two components interleaving inside `read_path` and `durability`:
  `Lsm` over `Catalog`, for one, is composed only through the promise each states.

What would come next: the unified read as two steps in `UnifiedStore`; `Family`
over `Catalog` and `Wal` in place of their one-step edits and appends; proofs of
`IndexComplete` and `FirstCommitterWins` for every number of transactions, and of
the refinement `CatalogImplements`.
