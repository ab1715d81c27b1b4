# TLA+ models of the Caliper aggregate service

This directory holds TLA+ models of the services in `src/src/services/`, the
TLC configurations that check them, and `PROJECT.json`. That file lists the
components, runs, mutants, the map from each definition to its source lines,
the findings and the hazards. The core is the on-line aggregation engine
(`aggregate/Aggregate.cpp`). The `spot`, `sos` and `nvvp` services have
one module each.

## The system

`Aggregate.cpp` holds one class, `AggregateDB`. It has a static part (the
registry of databases and the service callbacks) and a per-thread part (one
aggregation database).

| Part | Code | State | Operations |
|---|---|---|---|
| A. Kernel | `AggregateKernel` (86-104) | min, max, sum, count | constructor, `add` |
| B. Block allocator | `BlockAlloc` (112-156) | `m_blocks[MAX_BLOCKS]`, `m_num_blocks` | `get(id, alloc)`, `clear` |
| C. Trie and database | `TrieNode`, `find_entry`, `process_snapshot`, `flush`, `recursive_flush`, `write_aggregated_snapshot`, `clear` (106-530) | trie and kernel pools, `m_num_trie_entries`, `m_num_kernel_entries`, `m_num_dropped` | ingest one snapshot, flush, clear |
| D. Key encoder | `process_snapshot` 352-489; decoder in `write_aggregated_snapshot` 252-277 | none (stack buffers) | varint encoding of node ids, immediate key values and a toc |
| E. Registry | `acquire`, `retire`, `flush_cb`, `process_snapshot_cb`, `post_init_cb` (565-670) | `s_list` (doubly linked, `m_next`/`m_prev`) under `s_list_lock`, `m_stopped`, `m_retired`, the pthread key, `s_global_*` counters | lazy creation on first snapshot, retire on thread exit, flush all databases |
| F. Attribute callbacks | `create_attribute_cb`, `create_statistics_attributes`, `finish_cb`, `aggregate_register` | `s_key_attribute_ids`, `s_key_attributes`, statistics attributes | configuration, logging |
| G. Spot | `spot/Spot.cpp` | static `m_queries`, `m_jsons`, `m_annotations_and_places` | `pre_write_cb` adds queries; `flush` writes JSON series files |
| H. SOS | `sos/Sos.cpp` | `snapshot_id` (atomic), `trigger_attr` | trigger lookup; pack and publish snapshots |
| I. NVVP | `nvvp/nvvp.cpp` | map of region name to NVTX range id | begin and end of regions |

How the parts interact:

- Any application thread, or a signal handler on that thread, calls
  `process_snapshot_cb`.
- `process_snapshot_cb` finds (or, outside signal context, creates) the
  thread's database. It drops the snapshot if that database is stopped.
  Otherwise it encodes the key (D), walks the trie (C) and updates the
  kernels (A).
- The allocator (B) allocates only when `alloc = !is_signal()`.
- Some thread calls `flush_cb`. It walks `s_list` and, for each database:
  sets `m_stopped`, writes one record per key, folds the statistics into
  the globals, clears the database, unsets `m_stopped`, and unlinks and
  deletes the database if its thread has exited (`m_retired`).

The parts that are hard to get right:

- the `m_stopped` test in `process_snapshot_cb`, which is not a lock;
- unsynchronised global counters;
- a signal handler interrupting its own thread's `find_entry`;
- the off-by-one bound in `BlockAlloc::get`;
- fixed-size key buffers;
- list surgery that races lazy creation on other threads.

## Modules

### `AggregateRegistry`: part E, with C abstracted

This module models the registry and the flush loop.

Each thread `t` owns at most one database, also named `t`.

Variables:

- `head`, `next`, `prev` are `s_list`, `m_next` and `m_prev`.
- `stopped` and `retired` are the two atomics.
- `tls` is the pthread slot.
- A database's contents are abstracted to:
  - `count[d][k]`, the per-key counts;
  - `root[d]`, whether trie block 0 is allocated;
  - `dropped[d]`, its `m_num_dropped`.
- `gDropped` is `s_global_num_dropped`.

Actions:

| Action | Code |
|---|---|
| `PostInit` | `post_init_cb`; with `SetSpecificFails`, the main database may also be left unstored and unlisted |
| `ProcessSnapshotLeak` | `process_snapshot_cb` when `pthread_setspecific` fails in `acquire`: the snapshot goes into a database that is neither stored nor listed (enabled by the constant `SetSpecificFails`) |
| `ProcessSnapshotCb` | `acquire` with the splice under the lock (`Construct`), the `stopped()` test, and the load half of `++s_global_num_dropped` |
| `GlobalDropStore` | the store half of `++s_global_num_dropped` |
| `FindEntry` | `find_entry` and its null test; the signal-context outcomes come from `FindEntryOutcomes` |
| `UpdateEntry` | `++entry->count`, lost if `clear()` freed the entry's block in between |
| `Retire` | the key destructor |
| `FlushCb` | the start of `flush_cb` |
| `FlushStop`, `FlushEmit`, `FlushFold`, `FlushClear`, `FlushUnstop`, `FlushAdvance` | the statements of its loop body, in code order; `FlushAdvance` does the unlink under the lock and the delete |

Modelling choices:

- A critical section under the spinlock is one atomic step.
- The history variables `ingested`, `emitted`, `gdrops`, `folded` and
  `toReclaim` exist only for the properties.
- `PostInit` runs on the main thread, so it needs that thread alive.

### `RegistrySpec`: the database lifecycle that part E promises

This module is the abstract specification of the registry, from spec
sections 3 ("Lifecycle") and 4G. Each thread has a flag `alive` and a
database state `db`: `"none"`, `"live"`, `"retired"` or `"deleted"`.

| Action | What it allows |
|---|---|
| `Create(t)` | a running thread without a database gets one |
| `Exit(t)` | a thread exits; a live database becomes retired and is kept |
| `FlushBegin` | a flush starts when none is under way, and owes every retired database (`owed`) |
| `Reclaim(t)` | during a flush, a retired database is deleted |
| `FlushEnd` | the flush ends once every owed database is deleted |
| `ReclaimAndEnd(t)` | the two in one step: `flush_cb` deletes the last database of its walk in the step that ends the loop |

`AggregateRegistry` maps onto it with `Reg == INSTANCE RegistrySpec WITH ...`:

- `db[d]` is `Lifecycle(d)`: deleted, not constructed, `m_retired`, or live;
- `flushing` is `fpc # "idle"`;
- `owed` is the history variable `toReclaim`.

The refinement is checked as the property `RegistryRefinement == Reg!Spec`.

### `AggregateDB`: parts A, B and C, and `AggregateSpec`

This module models one database at the level of its ids and blocks.

Variables:

- `tblocks` and `kblocks` are the allocated block indices.
- `nodes[id]` are the `TrieNode`s (`next`, `k_id`, `count`).
- `kernels[id]` are the kernels.
- `numTrie`, `numKern` and `numDropped` are the three counters.

Two contexts run `process_snapshot` on the owning thread:

- `"normal"`, with `alloc = TRUE`;
- `"signal"`, a handler with `alloc = FALSE`. Once it starts it runs to
  completion (`active`).

A handler may start only when the normal context is idle, unless the
constant `Reentrant` is TRUE.

`find_entry` is split at every statement that reads or writes a member, so
that a handler can interrupt between them:

- `FindEntryRoot` is `get(0, alloc)`.
- `FindEntryRead` is the loop test and `id = entry->next[key[i]]`.
- `FindEntryLoad` and `FindEntryStore` are the two halves of
  `++m_num_trie_entries`.
- `FindEntryLink` is `next[key[i]] = id`.
- `FindEntryGet` is `get(id, alloc)`.
- `FindEntryKCheck`, `FindEntryKStore`, `FindEntryKAlloc` and
  `FindEntryKSet` are the kernel-id allocation.

`Update` is `++entry->count` followed by `k->add(v)` for each aggregated
attribute present.

`FlushAndClear` is `flush` followed by `clear()`:

- `Walk` is `recursive_flush`.
- `Record` and `KernelOf` are `write_aggregated_snapshot`'s statistics. The
  loop over attributes breaks at the first missing kernel.
- `ClearDB` is `AggregateDB::clear` with `BlockAlloc::clear`.

`BlockAlloc::get` is `GetOk` and `GetBlocks`. Block index `MaxBlocks` is
accepted, exactly as the code's `block > MAX_BLOCKS` test accepts it.

Doubles are integers. `DblMax` and `DblMinPos` stand for
`numeric_limits<double>::max()` and `::min()`. The snapshot's key is abstracted
to its encoded byte string (a member of `Keys`). Part D has its own
module, `KeyCodec`.

`AggregateSpec` is the abstract database:

- per key, a count and per attribute the min, max and sum of the values
  absorbed;
- per caller (the thread, a signal handler), `taken`: the one snapshot it
  has handed in and that is neither absorbed nor dropped yet;
- `Take(c, s)` hands a snapshot in; `Absorb(c)` counts it under its own key
  and folds its own values in; `Drop(c)` discards it and increments
  `dropped`;
- `Flush` writes one record per key with a non-zero count, empties the
  database and resets `dropped`.

`AggregateDB` maps onto it with `AbsAgg`, `Taken` and `numDropped`:

- each key's statistics are those of the node reached along the key
  through allocated blocks;
- a context that is not idle has handed in `snap[c]`, so `ProcessSnapshot`
  is `Take`;
- `Update` is `Absorb` and every `Drop` of `find_entry` is the abstract
  `Drop`; all other `find_entry` steps are stuttering steps;
- `dropped` is `m_num_dropped`.

Because `Absorb` uses the snapshot the context handed in, counting it under
another key or folding other values in is not a step of `AggregateSpec`.
The refinement is checked as the property `AggregateRefinement == Abs!Spec`.

### `KeyCodec`: part D, with the key part of F

This module models how `process_snapshot` builds the aggregation key
(lines 352-492) and how `write_aggregated_snapshot` decodes it (252-277).
It also models how `create_attribute_cb` and `post_init_cb` fill in the key
attribute ids that both read (657-683).

Data abstraction:

- A 64-bit word is the set of its set bit positions (`Word`).
  - `Width(w)` is the number of bytes `vlenc_u64` takes for it.
  - `Num` and `Bits` convert between a small number and a word.
- A key is a sequence of words (one per varint), so byte offsets are sums
  of `Width`s.
- `1 << k` is `Shift(k)`, the int shift as the x86-64 build executes it:
  - k < 31 gives bit k;
  - k = 31 sign-extends to bits 31..63;
  - from k = 32 on, the shift is by k mod 32.

Helpers:

| Helper | Code |
|---|---|
| `NodeIds` | the node-id selection: the synthesized key node when a key attribute is valid, otherwise all nodes, sorted |
| `NodeKey` | the node loop with its `+ 10` guard |
| `ImmScan`/`ImmKey` | the two nested immediate loops, with the write at 469 before the fit test at 472 and the inner `break`; the inner loop runs over the values of the matching immediates (`ValuesOfAttr`), since a non-matching entry changes nothing |
| `Assemble` | the toc, node ids, bitfield and values |
| `Decode` | the decoder, including its `SNAP_MAX` bound |

Actions:

| Action | Code |
|---|---|
| `CreateAttribute` | `create_attribute_cb` |
| `PostInit` | the key part of `post_init_cb` |
| `ProcessSnapshot` | the early return, then the key |
| `Flush` | the decoder |

The trie between them is `AggregateDB`'s and is left out here.

`SpecImm` is the spec's key builder (4E step 2). It is the reference
definition that `ImmediatesAsSpecified` compares the code against.

### `Spot`: part G

This module models one Caliper flush as three steps:

- `PreWrite` is `pre_write_cb`, which appends one list, one query and one
  (annotation, file) pair per config entry to the static vectors;
- `WriteSnapshot` is `write_snapshot_cb` plus `process_snapshot`;
- `PostWrite` is `post_write_cb` plus `Spot::flush`.

In `PostWrite`, the per-file loop is the RECURSIVE `WriteFiles`, which
reads each file as the previous list left it. It keeps three outcomes:

- an empty or missing file is written back as `null`, which is what
  `StartObject` on a fresh `Document` produces;
- a `null` file aborts on `doc["series"]`;
- a document gets each datum appended to the series of that name.

The Aggregator is Caliper's reader library, outside the repository. Its
model is the meaning of its query: durations summed per annotation value
and emitted in ascending order. It is emptied at each flush, the choice
most favourable to Spot.

### `Sos`: part H

This module models the trigger lookup and the publication:

- `CreateAttr` is `create_attr_cb`.
- `PostInit` is `post_init_cb`.
- `Begin` is `post_begin_cb`.
- `PreEnd` is `pre_end_cb`. For the trigger attribute, it packs a pulled
  snapshot under `++snapshot_id` and publishes it.

`Packs` is `pack_snapshot`:

- a string attribute becomes the string built by its `append` loop
  (`JoinStep`). Before C++17 the two orders of evaluation give two possible
  results, and both are kept;
- any other attribute (int, uint, bool, address, double) becomes its first
  value. The double case packs and then falls through to an empty
  `default`.

Strings are token sequences. The SOS client library is abstracted to the
sequence `published`.

### `Nvvp`: part I

This module models `on_begin` and `on_end`. The map `nvtx_ranges` is keyed
by name, as the code indexes it. NVTX is reduced to:

- a counter of range ids;
- a count of `nvtxRangeEnd` calls per id.

Begins and ends nest per thread.

### MC modules

| Module | Defines |
|---|---|
| `MCAggregateRegistry` | the thread sets as model values |
| `MCAggregateDB` | the bytes, keys and samples |
| `MCKeyCodec` | attribute names, key attribute lists and input snapshots for each KeyCodec cfg |
| `MCSpot` | the config entries and initial files |
| `MCSos` | the attributes, their types and the snapshots a pull returns |
| `MCNvvp` | the region names |

## Runs

`PROJECT.json` lists twelve runs, one per question:

| Run | Checks | Result |
|---|---|---|
| `registry_safety` (3 threads, 2 ingests, 2 flushes, `pthread_setspecific` may fail; 204,534 states) | `TypeOK`, `ListIntegrity`, `NoUseOfDeleted`, `RegistryRefinement`, `FlushCompletes` | Pass. `s_list` stays acyclic, holds exactly the databases created and not deleted, and keeps `m_prev` consistent. No live thread's slot and no flush loop points to a deleted database. Every step is a step of `RegistrySpec`. A database is constructed once, for a live thread. It is deleted only after its thread exited, and only by `flush_cb`. A `flush_cb` does not return before it has deleted every database that was retired and listed when it read `s_list`. Every started `flush_cb` returns. This holds also when `pthread_setspecific` fails and databases are leaked. |
| `registry_serial` (1 thread, 4 ingests, 3 flushes, `pthread_setspecific` succeeds) | `Conservation` | Pass. Every finished ingest is written exactly once or dropped exactly once. It is counted in a trie, in a record, in `m_num_dropped` or in `s_global_num_dropped`. |
| `registry_stop_race` | `OwnerQuiescentDuringFlush` | **Violated.** The owner passes `!db->stopped()`. Then `flush_cb` sets stopped on the same database while the owner is still in `process_snapshot`. The trace ends there; the flush and `clear()` of that database are `flush_cb`'s next steps. |
| `db_core` (keys `<<0>>` and `<<0,1>>`, 1 attribute, samples {2,3}, 2 entries per block, 4 blocks, 3 ingests, 2 flushes, handlers only between ingests; 91,194 states) | `TypeOK`, `TrieIsTree`, `AggregateRefinement` | Pass. The trie is a tree. The database implements `AggregateSpec` across flushes and clears: each snapshot handed to `process_snapshot` is absorbed under its own key with its own values, or dropped and counted once in `m_num_dropped`, including the signal-context drops after `clear()` freed block 0. |
| `db_kernel_max` (sample −2) | `AggregateRefinement` | **Violated.** The record's max is `numeric_limits<double>::min()`, not −2. |
| `keycodec_core` (`MaxKeyLen` 16 as in the spec's test case 6; two key attributes and one other; values of 2 and 10 bytes; no node, one node, an unsorted pair of nodes, or one node with a 10-byte id; 18,728 states) | `TypeOK`, `KeyInBounds`, `RoundTrip` | Pass. Every assembled key fits `MAX_KEYLEN`, and the decoder returns exactly the nodes and immediates encoded. This holds whatever the order of attribute creation, `post_init` and ingests, including a key attribute created between encoding and flush. |
| `keycodec_imm_overflow` (`MaxKeyLen` 128, 13 key attributes of 10-byte values) | `ImmWriteInBounds` | **Violated.** The 13th value is written at `imm_key[120..129]` before the fit test rejects it. |
| `spot_core` (two annotations writing to one file, two groups, 2 flushes of up to 2 snapshots; 82,321 states) | `TypeOK`, `NoRecordLost` | Pass. Although two config entries read, extend and write the same file in turn, no flush loses a duration. |
| `spot_repeat` (two annotations, two files) | `ExactlyOnce` | **Violated.** The second flush appends the first flush's records again, because `m_jsons` and `m_queries` keep every earlier entry. |
| `nvvp_recursion` (1 thread, nesting depth 2) | `RangesBalanced` | **Violated.** A nested begin of the same region overwrites the outer range id: the inner range is ended twice and the outer one never. |
| `sos_core` (2 threads; trigger `iteration`; nesting depth 2; 3 publications; 11,116 states) | `TypeOK`, `TriggerResolved` | Pass. The trigger attribute is resolved whether it is created before or after `post_init`, and no later attribute replaces it. |
| `sos_path` | `PathPublished` | **Violated.** The path `main`, `solve` is published as `main/solve/` (C++17 order) or `mainsolve/`, never as `main/solve`. |

Further configurations check the same properties outside the run list and
give the hazard notes in `PROJECT.json`:

| Cfg | Checks | Result |
|---|---|---|
| `MCAggregateRegistryDropRace.cfg` | `GlobalDropsCounted` | Violated. A thread dropping in signal context loads `s_global_num_dropped`, `flush_cb` adds `m_num_dropped`, and the thread stores its stale value plus one. |
| `MCAggregateDBReentrant.cfg` | `AggregateRefinement` | Violated. A handler interrupts `++m_num_trie_entries` and both contexts take node id 1. |
| `MCAggregateDBBlockBound.cfg` | `BlockIndexInRange` | Violated. `MaxBlocks = 1` lets `get` allocate into `m_blocks[MAX_BLOCKS]`. |
| `MCKeyCodecBreak.cfg` | `ImmediatesAsSpecified` | Violated. A 2-byte value is still encoded after a 10-byte one did not fit, against spec 4E step 2. |
| `MCKeyCodecManyNodes.cfg` | `RoundTrip` | Violated. With 60 nodes the node loop stops early, but the toc still counts 60. |
| `MCKeyCodecShift.cfg` | `RoundTrip` | Violated. The 33rd key attribute's bit is `1 << 32`, which is bit 0, the first attribute's. |
| `MCAggregateRegistrySetSpecific.cfg` | `Conservation` | Violated. `pthread_setspecific` fails in `post_init_cb`, and the main thread's next snapshot goes into a database no flush ever sees. |
| `MCSpotEmptyFile.cfg` | `NoAbort` | Violated. An empty file is written back as `null`, and the next flush fails on `doc["series"]`. |
| `MCNvvpShared.cfg` | `RangesBalanced` | Violated. Two threads open a region of the same name without nesting; the second `on_begin` overwrites the first thread's range id, and both `on_end` calls end the second range. |

Every property of a passing run has a mutant in `PROJECT.json`: a plausible
bug in a mapped definition that TLC then reports. For example:

- the head not being moved on unlink;
- the `m_retired` test being dropped;
- the reclaim branch of the flush loop missing;
- `clear()` keeping `m_num_dropped`;
- `max` being updated with `std::min`;
- the fit test leaving the value's length out;
- the toc losing its bitfield flag;
- the file loop reading every file as it was before the loop;
- `create_attr_cb` taking any attribute as the trigger;
- `snapshot_id++` instead of `++snapshot_id`.

## Bounds

- **Registry.** Three threads is the least number for a splice by one
  thread, an unlink by the flusher and a third database in the middle of
  the list. Two ingests and two flushes let a database be created, retired
  and reclaimed while another is spliced.
- **Database.** Keys that share a prefix exercise shared inner nodes. Two
  entries per block make the second and third node ids need new blocks, so
  both the allocation path and the signal-context drop on a missing block
  occur. Three ingests and two flushes reach ingest, flush, ingest again
  after `clear()` has freed block 0.
- **KeyCodec.** At `MaxKeyLen` 16, one 10-byte immediate fits and a second
  does not, and a 10-byte node id leaves no room for a 10-byte immediate. So
  the fit test takes both branches, with and without node bytes before it.
  The node guard at line 454 never stops in `keycodec_core`: any early stop
  leaves out a node that the toc still counts, which is the defect
  `MCKeyCodecManyNodes.cfg` shows with 60 nodes. The overflow and shift
  cases need the code's own 128 and 33 attributes; they use single-input
  configurations to stay small.
- **Spot.** Two flushes are the least that show state carried between
  flushes. Two config entries on one file give the read-modify-write of a
  shared file.
- **Sos.** Two threads and nesting depth 2 give a trigger region inside
  another region on one thread while the other thread creates attributes.

## Fairness

Only the flush loop of the registry has weak fairness (`WF_vars(FlushStep)`):

- its only wait is the spinlock, which every holder releases in the same
  step;
- ingesting threads may stop at any time, since the application owns them.

The other modules check safety only.

All cfgs say `CHECK_DEADLOCK FALSE`, except the KeyCodec ones. The models
stop when their bounds are used up and every thread is idle or has exited,
and that is a normal end of the program. KeyCodec can always step
(`PostInit` is always enabled).

## Not modelled

- **Part F, beyond the key attributes:** `create_statistics_attributes`,
  `finish_cb` and `aggregate_register` are configuration and logging. When
  `pthread_key_create` fails, `aggregate_register` connects no callback, so
  the service does nothing; the models start from a registered service.
- **Snapshots after `retire`:** a later thread-exit destructor that takes a
  snapshot would construct and list a new database for the exiting thread.
  Whether Caliper does that is decided outside the repository, so a thread
  of the model does nothing after its `Retire` step.
- **The canonical-encoding law of spec 8** (equal node sets give equal
  keys) is not stated as a property. For snapshots without key attributes it
  is the `std::sort` at line 436 itself. For keyed snapshots the key node
  comes from `make_tree_entry` over a path built in snapshot order (lines
  413-417), which `KeyCodec` abstracts to a chosen node id.
- **Spot's time divisor:** a data point is kept as its integer duration. A
  `time_divisor` of 0 would make it non-finite, which rapidjson's writer
  refuses.
- **SOS:** the SOS client calls (`SOS_init`, `SOS_pack`, `SOS_publish`) are
  I/O. The model reduces them to the sequence `published`, and `pre_end` is
  one atomic step. Whether two threads may pack into and publish the one
  handle at once is a question for the SOS library. The unsynchronised
  `iter++` only feeds a log line.
- **Spot's config parsing:** a config entry without `:` reads past the
  vector.
- **Spot's query:** the CalQL parse of its query.
- **Spot's time value:** the 32-bit `TimeType` wrap.
- **Edge cases left out of the Aggregate modules:**
  - two concurrent `flush_cb`s. Spec section 5 makes a single flusher
    thread part of the contract, and `FlushCb` requires it;
  - the uint32 wrap of `TrieNode::count`;
  - duplicate immediates of one key attribute.
- **Data races:** the races on `nvtx_ranges` and on `trigger_attr`. TLC
  cannot express a torn `std::map` or `Attribute` copy. The models make
  each update atomic.

## Plan

Done:

1. Registry and flush loop (`AggregateRegistry`).
2. Database with its abstract specification and refinement (`AggregateDB`,
   `AggregateSpec`).
3. Key encoder and decoder with the key attribute callbacks (`KeyCodec`).
4. `Spot`, `Sos` and `Nvvp`.
5. The `pthread_setspecific` failure branch of the registry.
6. The abstract lifecycle of the registry (`RegistrySpec`) and its
   refinement.
7. Nvvp with two threads sharing `nvtx_ranges` (`MCNvvpShared.cfg`).

Next:

8. A composition of `KeyCodec` with `AggregateDB`, in which a database
   holds several encoded keys across flushes.
