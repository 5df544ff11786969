# TLA+ models of `src/pgxn/neon/pagestore_smgr.c`

`pagestore_smgr.c` is the storage manager that the Neon extension installs
into PostgreSQL. It reads pages from the page server instead of local files.
Its parts are these:

| Part | Code | Model |
|---|---|---|
| Request/response codec | `nm_pack_request`, `nm_unpack_response`, `nm_to_string` (880-1181) | not modelled: pure serialisation |
| Page-server client (`page_server->send/flush/receive`) | libpagestore.c, outside this file | abstract transport in `NeonPrefetch`, from the spec |
| Prefetch ring and hash index | `PrefetchState`, `prfh`, `compact_prefetch_buffers`, `readahead_buffer_resize`, `prefetch_set_unused`, `prefetch_on_ps_disconnect` (150-627) | `NeonPrefetch` |
| Prefetch state machine | `prefetch_do_request`, `prefetch_register_buffer`, `prefetch_wait_for`, `prefetch_read`, `page_server_request` (484-876) | `NeonPrefetch` |
| Request-LSN oracle | `neon_get_request_lsn`, `nm_adjust_lsn` (1361-1449) | partly: the primary branch (`NeonPrefetch`) and the recovery branch (`ReplicaRedo`), both as the block's last-written LSN |
| smgr entry points | `neon_read`, `neon_read_at_lsn`, `neon_prefetch`, `neon_nblocks`, `neon_create`, `neon_extend` | `NeonPrefetch`, `UnloggedBuild` |
| WAL-logging of evicted pages | `neon_wallog_page` (1213-1313) | partly: an eviction publishes the page LSN (`Evict`) |
| Redo filter | `neon_redo_read_buffer_filter` (2681-2784) | partly: `ReplicaRedo`, without the relation-size cache update |
| Unlogged index build | `neon_start/finish/end_unlogged_build`, `AtEOXact_neon` (2439-2599) | `UnloggedBuild` |

The prefetch pipeline is private to a backend. The backend registers
GetPage requests in a ring of `readahead_buffer_size` slots and pipelines
them to the page server. It receives the responses in ring order, and later
`neon_read_at_lsn` calls consume them. Other backends interact with it only
through shared state: the buffer pool, the WAL, and the last-written-LSN
cache that decides the LSN of a request. The unlogged-build controller is
separate from the pipeline. It is static per-backend state driven by the
index-build AM callbacks and by transaction end. On a standby, the startup
process is a second writer of the last-written-LSN cache: the redo filter
publishes the end of each record for every block it references, and
backends read at those LSNs through the same pipeline.

## Modules

### `NeonPrefetch`

**State.** `pst` is a record holding the fields of `MyPState`: the four ring
counters, the slots, the in-flight and buffered counts, and the ring size.
It also holds `prefetch_lsn`, what has been flushed to the connection, and
`hung` for a receive that blocks forever. `prf_hash` is not stored. It is
derived from the slots (`Lookup`), because `SH_EQUAL` compares the current
tag of the slot that an entry points to. The mutant `HashDeleteKeep` shows
that a stale entry is still detected. The other variables are these:

- `reading`: a `neon_read_at_lsn` that is inside its retry loop;
- `resident` and `bufPage`: shared buffers;
- `lwlsn`: the last-written LSN of each block;
- `wal` and `insertLsn`: the WAL;
- `checked`: the block that `PrefetchSharedBuffer` found absent before it
  calls `smgrprefetch`.

**Operations.** Each C function is an operator that returns the set of
states it may end in. This is because the transport may fail at any send,
flush or receive. A failure runs `prefetch_on_ps_disconnect` (`Disconnect`),
exactly where the code does. The operators and the functions they translate:

| Operator | C function |
|---|---|
| `Compact` | `compact_prefetch_buffers` |
| `CleanupTrailing` | `prefetch_cleanup_trailing_unused` |
| `WaitFor` | `prefetch_wait_for` |
| `ReceiveN` | `prefetch_read` |
| `SetUnused` | `prefetch_set_unused` |
| `DoRequest` | `prefetch_do_request` |
| `Register` | `prefetch_register_buffer`, with its hit tests, ring-full loop and flush policy |
| `ResizeOutcomes` / `Rebuild` | `readahead_buffer_resize` |
| `ReadStartOutcomes` / `ReadAttempt` | the two halves of `neon_read_at_lsn` |

**Actions.** A backend call is one atomic step, because nothing else touches
`MyPState`:

- `Prefetch` is `neon_prefetch`. Under `RacyPrefetch` it is preceded by
  `PrefetchCheck`, the unlocked buffer-table check.
- `Read` and `ReadRetry` are `neon_read` and its retry loop.
- `SyncRequest` is `neon_nblocks`, `neon_exists` and `neon_dbsize`, which
  consume all prefetches and make one request.
- `Resize` is the GUC assign hook.

Other backends act through `Load`, `Modify` and `Evict`. An eviction takes
the maximum of the page's LSN and the last-written LSN, as
`SetLastWrittenLSNForBlock` does.

**Properties.**

- `TypeOK`: the type invariant.
- `RingCoherent`: the counters satisfy last ≤ receive ≤ flush ≤ unused, and
  the live window stays below the ring size. The REQUESTED slots are exactly
  `[receive, unused)`. The in-flight and buffered counts are right.
- `IndexCoherent`: the hash indexes exactly the live slots under their own
  tags. Each slot knows its ring index. No two live slots share a tag. Slots
  outside the window are UNUSED.
- `BufferFresh`: every resident buffer holds its block's newest version. This
  is read-your-writes across backends. A read must never return another
  block's page, or a version older than a modification that was evicted
  before the read.
- `StampSound`: for every live slot, no change to its block lies between
  the LSN its request was sent at and its stamped `effective_request_lsn`
  (`prefetch_lsn`, line 676). The hit test of `neon_read_at_lsn` (line
  1898) accepts any slot whose stamp is at least the read's LSN, so this is
  the fact that makes the test safe. The comment at lines 656-672 argues it
  for a primary.
- `NoHang`: no wait blocks on a request that was never flushed.

The constant `Recovery` selects the request kind: `FALSE` on a primary
(`latest = true`), `TRUE` when `ReplicaRedo` uses the pipeline
(`latest = false`). It changes only the request that `Read` registers.

### `ReplicaRedo`

A hot standby: the startup process replays `Recs`, where record `i` ends at
LSN `i` and changes the blocks `Recs[i]` lists. A backend reads one block at
a time. The module instantiates `NeonPrefetch` as `P`, in recovery mode,
with its buffers mapped onto the standby's buffers and its WAL onto `Recs`.
The backend's ring lives in `pst` and evolves through `P!Register` and
`P!ReadStartOutcomes`.

**State.**

- `replayed`: `lastReplayedEndRecPtr`;
- `cursor`: the block of the current record and whether the filter said to
  redo it;
- `locked`: the buffers redo holds for the record;
- `buf` and `bufPage`: for each block, `"none"`, `"io"` (allocated, read in
  progress) or `"valid"`, and the page image;
- `lwlsn`: the last-written LSN;
- `bk`: the backend's read in progress;
- `pst`: the backend's pipeline.

**Actions.**

- `Filter` is `neon_redo_read_buffer_filter`. A shared-catalog block is
  redone at once, before the last-written-LSN update (line 2710).
  Otherwise, under the partition lock, it raises the block's last-written
  LSN to the record's end and skips the block when it has no buffer.
- `Redo` is `XLogReadBufferForRedo` for a block that was not skipped. It
  waits while a read is in progress (`buf = "io"`), then applies and locks.
- `EndRecord` unlocks and advances `lastReplayedEndRecPtr`.
- The backend does `Alloc` (BufferAlloc), then `RequestLsn`
  (`neon_get_request_lsn` in recovery), then `ReadPage`
  (`XLogWaitForReplayOf`, then the pipeline). `Prefetch` is
  `neon_prefetch` of an absent block.
- `Evict` publishes nothing: `neon_wallog_page` returns at line 1220 when
  `!XLogInsertAllowed()`.

`nm_adjust_lsn` is not modelled. It only moves an LSN that points just past
a page header back to the start of the page, which covers the same records.
On record-end LSNs it is the identity.

**Properties.**

- `ReplicaFresh`: every buffer that redo is not modifying holds its block's
  page as of `lastReplayedEndRecPtr`, neither older nor newer.
- `NoRedoReadCycle`: redo never waits for a read that is itself waiting for
  this record to be replayed.
- `ReadLsnCovers`: a read waiting in `XLogWaitForReplayOf` asks for an LSN
  that includes every replayed change of its block, shared catalogs aside.
  Either the filter published the change before the read took its request
  LSN, or redo could not get past the block, because the read holds its
  buffer in I/O. Between `RequestLsn` and `ReadPage` replay goes on, so this
  needs the filter, redo, the buffer state and the reader together.

### `UnloggedBuild`

**State.** The state holds `unlogged_build_phase` and `unlogged_build_rel`,
and for each relation:

- its persistence (`smgr_relpersistence`, which the build changes);
- whether a local file exists (`local`);
- whether it is empty (`empty`);
- the subtransaction level that created it (`level`, where -1 means it does
  not exist).

It also holds the transaction depth, an `ERROR` in flight (`failed`), and
what the index-build code that called the AM callbacks believes (`caller`,
`callerRel`).

**Actions.**

- `StartBuild` translates each branch of `neon_start_unlogged_build`.
- `FinishPhase1` translates `neon_finish_unlogged_build_phase_1`.
- `EndBuild` translates `neon_end_unlogged_build`.
- `Commit` and `Abort` translate `AtEOXact_neon`.
- `Create` and `Extend` translate `neon_create` and `neon_extend`.
- The environment, taken from the spec, provides `Begin`, `Savepoint`,
  `Release`, `RollbackTo` and `Error`.

**Property.** `BuildCoherent` says that the static state describes exactly
the build the caller is running:

- the phase and the relation match;
- the relation still exists;
- a permanent relation is marked unlogged exactly while it is in phase 1 or
  phase 2 of a build.

## Runs

All runs use `MCNeonPrefetch`, `MCReplicaRedo` or `MCUnloggedBuild`. Blocks and relations are
model values. `MaxRing` = 6 caps the ring counters, which are `uint64` in C
and never wrap. `MaxLsn` caps the WAL. With three slots, these bounds give
compaction, ring-full waits, disconnects with both REQUESTED and RECEIVED
slots, and a tag reused after retirement.

| Run | Expect | Checks | What it shows |
|---|---|---|---|
| `failures` (`MCFailures.cfg`) | pass | TypeOK, RingCoherent, IndexCoherent, BufferFresh | The run has 3 blocks, a ring of 3, connection drops everywhere and no threshold flush. The ring, the index and read-your-writes survive every failure point. |
| `racy_prefetch` (`MCRacyPrefetch.cfg`) | pass | the `failures` invariants and StampSound | Other backends load, modify and evict a block between the unlocked check and `smgrprefetch`. The run also resizes to the same size. No stamp is unsound and no read is stale, which confirms the argument in the comment at lines 656-672. |
| `flush_drop` (`MCFlushDrop.cfg`) | violation | BufferFresh | Finding A below. |
| `resize_shrink` (`MCResizeShrink.cfg`) | violation | IndexCoherent | Finding B below. |
| `resize_hang` (`MCResizeHang.cfg`) | violation | NoHang | Finding C below. |
| `replica` (`MCReplica.cfg`) | pass | ReplicaFresh, ReadLsnCovers | Two blocks, three single-block records (b1, b2, b1), a ring of 2. Every read on the standby returns exactly the replayed page. |
| `replica_multiblock` (`MCReplicaMultiBlock.cfg`) | violation | ReplicaFresh | Finding E below. |
| `replica_shared` (`MCReplicaShared.cfg`) | violation | ReplicaFresh | Finding F below. |
| `redo_read_cycle` (`MCRedoReadCycle.cfg`) | violation | NoRedoReadCycle | Finding G below. |
| `unlogged_build` (`MCUnloggedBuild.cfg`) | pass | BuildCoherent | The run uses two permanent relations, one unlogged relation and savepoints of depth 2, with builds at top level. It uses symmetry over the permanent relations, which are interchangeable model values. |
| `unlogged_savepoint` (`MCUnloggedSavepoint.cfg`) | violation | BuildCoherent | Finding D below. |

The `ReplicaRedo` runs use two blocks and a ring of two slots, with the
backend's ring counter capped at `MaxRing` = 5. The record lists are chosen
so that each case happens: a block read, evicted and read again between two
of its records (`replica`); one record that changes both blocks
(`replica_multiblock`); one shared-catalog record (`replica_shared`). These
runs do not check deadlock (`CHECK_DEADLOCK FALSE`). Replay really stops at
the end of `Recs`. The one way it can stop earlier, redo and a reader waiting
on each other, is what `redo_read_cycle` shows as a property.

Each property of a passing run has a mutant: a plausible bug in a mapped
definition that TLC then finds. Examples are a hash delete that is dropped, a
receive that does not count, a hit test that ignores the LSN, a request
stamped with the insert LSN, a stamp taken before `prefetch_lsn` is raised,
a filter that also skips blocks being read in, and an end of build that
keeps the relation unlogged.

No fairness is assumed, and no liveness property is checked. The pipeline
progresses only when the backend calls it, and nothing in the code forces
that. A read retries a lost connection forever, so its completion rests on
the transport, not on this file. The one progress question a run asks,
whether a wait can block forever, is the state predicate `NoHang`. On a
standby, "replay eventually finishes" is false even under weak fairness of
every step: finding G is a reachable state in which neither redo nor the
reader can move.

## Findings

- **A.** In `prefetch_register_buffer`, the flush policy ignores a failed
  `page_server->flush()` (line 857). The disconnect hook has then retired
  every slot, yet the function still returns the ring index.
  `neon_read_at_lsn` then reads a slot whose response is NULL and
  dereferences it at line 1956. Alternatively, compaction has moved another
  block's received slot there, and that block's page is copied into the
  buffer. TLC finds both traces: Read with a flush failure, and Prefetch(b1)
  followed by a failing Read(b2) and then ReadRetry.
- **B.** `readahead_buffer_resize` copies up to `newsize` live slots. The
  ring-full test `ring_last + size - 1 == ring_unused` (line 796) then
  misses, and a register overwrites a live slot. The trace is Prefetch,
  Prefetch, Resize(2), Prefetch.
- **C.** `readahead_buffer_resize` sets `ring_flush = newsize` (line 385)
  although the copied requests may still be unflushed. A read of one of them
  waits forever. The trace is Prefetch, Resize, Read.
- **D.** `AtEOXact_neon` is registered only as a transaction callback (line
  2638). After `ROLLBACK TO SAVEPOINT` undoes an index build, the phase stays
  at PHASE_1 on a dropped relation. The next build errors with "already in
  progress", and the commit errors with "unlogged index build was not
  properly finished".
- **E.** In recovery, `prefetch_do_request` sends a request at the block's
  last-written LSN but stamps `effective_request_lsn` with `prefetch_lsn`
  (line 676). That is the highest LSN any earlier request used. On a
  standby it can be the end of a record whose other blocks the filter has
  not yet reached. The filter then raises this block's last-written LSN to
  the same end, and the hit test at line 1898 (`>=`) serves the buffered
  response, which lacks the record's change. The trace is Filter(b1),
  Prefetch(b1), Prefetch(b2), Filter(b2), EndRecord, then a read of b2 that
  returns version 0. With single-block records this cannot happen, and the
  `replica` run passes.
- **F.** For shared catalogs the filter returns before
  `SetLastWrittenLSNForBlock` (line 2710). The spec's R8 says the update is
  unconditional. Evictions in recovery publish nothing (line 1220). So a
  shared-catalog page that redo changed and that was then evicted is read
  back at its old last-written LSN. The trace is Filter, Redo, EndRecord,
  Evict, then a read that returns version 0.
- **G.** A backend allocates the buffer of a block and then reads it at the
  block's last-written LSN, which the filter has just raised to the end of
  the record being replayed. It waits in `XLogWaitForReplayOf` (line 1888).
  Redo did not skip the block (it has a buffer), so it waits for the read
  in progress. Neither moves. The comment at lines 1880-1885 assumes that
  such a read never asks for an LSN beyond what has been replayed.
- The spec says TAG_REMAINS slots are retired lazily. The code retires them
  in the disconnect hook itself (line 574). The model follows the code.

## Proofs (checked by TLAPS)

`UnloggedBuildProofs`:

- `TypeCorrect`: `Spec => []TypeOK` for all relation sets and depths. Its
  obligations are split: the Boolean-valued variables go to Zenon, and the
  rest goes to SMT.
- `Coherence`: under `BuildDepth = 1`, `Spec => []BuildCoherent`.
  `BuildCoherent` is not inductive by itself. An abort or rollback
  preserves it only if the building relation is known to be dropped along
  with it, and a create only if a dead relation is known to carry its
  initial persistence. The inductive invariant is
  `IInv == TypeOK /\ BuildCoherent /\ BuildFacts`. `BuildFacts` says:
  - a build runs at depth ≤ BuildDepth on a relation created at or above the
    current level;
  - no relation is created below the current level;
  - local relations are always unlogged;
  - relations that do not exist are in their initial state;
  - `unlogged_build_rel` is NULL whenever no build is in progress.

  TLC checked `IInv` first. The proof has one step per action, and it splits
  Abort and RollbackTo per conjunct. The violation run
  `unlogged_savepoint` shows that the assumption `BuildDepth = 1` is needed.
`ReplicaRedoProofs`:

Both theorems rest on one inductive invariant about the redo filter. It
contains `FilterCoversReplayed`: every block that a replayed record touches,
outside the shared catalogs, has a last-written LSN at least that record's
(the rule at lines 2725-2734 that lets the filter skip a block with no
buffer). It is false for shared catalogs (finding F). While a record is in
progress, the blocks the filter has already passed must already be covered,
or `EndRecord` would break it; this is `CurrentCovered`, stated over the
blocks the cursor has passed (`Filtered`), counting the block being redone.
`ReplayTypeOK` bounds the cursor by the record's length, so `EndRecord` is
reached only after every block is filtered.

- `ReplayWaitBounded`: `Spec => []ReadWaitBounded`. A backend that waits for
  a page waits for an LSN of at most the record being replayed. The comment
  at lines 1880-1885 expects such LSNs to stay below that record, and names
  the last-written-LSN cache as the exception; the theorem shows that even
  then they never go beyond it. It needs
  `LwlsnBelowCur`: the filter only ever raises a last-written LSN to the
  current record, so a request LSN read from it is never beyond it.

The inductive invariant is
`IInv == ReplayTypeOK /\ FilterCoversReplayed /\ CurrentCovered /\
LwlsnBelowCur /\ bk.lsn <= Cur`. TLC checked it first, on single-block and
multi-block WALs, with and without shared blocks. The proof has one lemma
per redo action (`FilterIInv`, `RedoIInv`, `EndRecordIInv`) and one for the
backend steps (`BackendIInv`). The backend and pipeline steps leave
`replayed`, `cursor` and `lwlsn` alone, so the proof does not depend on the
pipeline.

- `ReadsCoverReplay`: `Spec => []ReadLsnCovers`. `ReadLsnCovers` is not
  inductive, even together with `IInv`. Three more facts make it inductive
  (`ReadInv`):
  - `BufIO`: while a read is between `BufferAlloc` and the end of `smgrread`,
    its block's buffer is in I/O. So the filter does not skip the block,
    and `Redo` of the block waits.
  - `CurrentReadCovers`: in the record being replayed, every block redo has
    got past that is the read's block is covered by the read's LSN. This is
    what `EndRecord` needs.
  - `BufOK`: the buffer states are typed.

  `RequestLsn` takes the block's last-written LSN, and `FilterCoversReplayed`
  and `CurrentCovered` from `IInv` show that it covers the replayed records
  and the filtered part of the current one. The proof has one lemma per
  redo action, one for `RequestLsn` and one for the other backend steps.
  TLC checked `IInv /\ ReadInv` on the same four instances as `IInv`.

The following are only model-checked:

- all properties of `NeonPrefetch`;
- `ReplicaFresh` and `NoRedoReadCycle` of `ReplicaRedo`;
- any liveness question.

TLAPS cannot reason about liveness or `ENABLED`, and induction over data is
out of its reach. The `NeonPrefetch` invariants need the ring's typing after
`Disconnect`. `Disconnect` is a recursive function over the number of
in-flight slots. The provers cannot unfold it for a symbolic count, and the
induction theorems take a predicate parameter that they cannot instantiate.
`ReplicaRedo` instantiates the pipeline without connection failures, so
`Disconnect` is not reached there. But `ReplicaFresh` is about the pages the
pipeline returns. Its proof would need the ring and index invariants through
`Compact`, which moves slots by counting the live ones (`Cardinality`)
and picks them with `CHOOSE`. That is out of reach of this project's
proofs, so it stays with TLC.

## Not modelled, and the plan

Not modelled:

- the codec;
- the local file cache (`lfc_*`), which is switched off in the runs;
- the relation-size cache;
- the `md*` fallbacks for temp and unlogged relations;
- `neon_truncate`, `neon_unlink`, `neon_writeback` and `neon_immedsync`;
- the walsender branch of `neon_get_request_lsn`, the fallback of
  `GetLastWrittenLSN` to the cache-wide maximum, and the `XLogFlush` of a
  last-written LSN ahead of the flush pointer;
- the relation-size cache update of the redo filter, and the chaining to a
  previously installed filter.

Next steps:

1. Prove `RingCoherent` and `IndexCoherent` with TLAPS, in a module that
   reaches no RECURSIVE operator.
2. Prove `BufferFresh` with TLAPS, once it has an inductive
   strengthening.
3. Model `neon_truncate` and the relation-size cache against
   `neon_nblocks`.
