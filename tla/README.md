# dm-zns-base: TLA+ models, checks and proofs

dm-zns-base is a device-mapper target that presents a zoned (sequential-write)
block device as an ordinary one.  Host writes are appended to the data zones, a
log-structured (LSM) index maps 4 KiB logical blocks to physical sectors, and
garbage collection gives zones back.  This directory models the LSM engine
(`src/src/engines/zns-engine-lsm.c`), the components under it and the two
earlier append4k engines, checks the models with TLC on small instances, and
proves the safety properties of all five with TLAPS for every instance.

| module | models |
| --- | --- |
| `MappingStore` | what the LSM index promises: a total map with Put and Get |
| `LsmMapping` | memtables, freeze and compaction, background flush, SSTable list |
| `LsmMappingProofs` | theorems about `LsmMapping`, refinement of `MappingStore` included |
| `BlockDevice` | what the target promises: an array of sectors |
| `ZnsDataPath` | the I/O worker: read, read-modify-write, append, failures, zone table, allocator, GC, recreation |
| `LsmRecovery` | superblock and metadata log, block by block, over removal, crash and creation |
| `SstSearch` | how an SSTable is packed into blocks, and the two binary searches in it |
| `Append4k` | the append4k and append4k-alloc engines under concurrent bios |
| `ZnsDataPathProofs`, `LsmRecoveryProofs`, `SstSearchProofs`, `Append4kProofs` | theorems about these four, the refinement of `BlockDevice` included |
| `LeastNumber` | a lemma three of them share: a set of naturals has a least element |
| `MCLsmMapping`, `MCZnsDataPath`, `MCLsmRecovery`, `MCSstSearch`, `MCAppend4k` | instances for TLC |

`PROJECT.json` lists components, runs, mutants, the map from definitions to
source lines, findings, hazards and theorems.

## 1. Inventory

**Target glue** (`dm-zns-base-main.c`).  Constructor, destructor, `map`.  State:
the engine handle.  The constructor refuses a target larger than
`zns_engine_capacity()` and sets the split size to one block.

**I/O worker** (`zns-engine-lsm.c`).  `zns_engine_map()` queues every bio to an
ordered workqueue; one worker executes them one after another and waits for all
lower I/O.  State: `writes_stopped` and the request in hand.  Operations: read,
partial read, write, partial write (read-modify-write), garbage collection in
front of a write that finds no room.  Hard: any lower operation may fail half
way; a failed write may or may not have moved the zone's write pointer.
Correct when: the target is an array of sectors, a write happens as a whole or
not at all per block, and every request ends.

**Allocator and zone table** (`zns-allocator.c`, `zns-zone.c/h`).  State: a copy
of each zone's write pointer and condition, the active zone and the reserve
zone, all in sectors.  Operations: `init_zoned`, `alloc`, `alloc_gc`,
`has_space`, `set_reserve`, `set_reserve_after_reset`, `resync`, `exit`.  Hard: a
failed write may leave the device's pointer anywhere inside the block, a
capacity need be no multiple of a block, and a zone that takes no write reports
a pointer past its capacity.  Correct when: the copies equal the device while
writes are allowed, and the reserve is empty between collections.

**GC indexes and collection** (`zns-engine-lsm.c`, `gc-policy/`).  State:
`latest` (block to sector), `gc_zones[]` (slot to block, and counts).
Operations: update with a publication, choose a victim, relocate its live
blocks into the reserve, reset it, make it the reserve.  Hard: failure between
two moves; the index and the read mapping are two structures.  Correct when:
the indexes are the inverse of the mapping, a reset zone holds no live block,
and a victim exists whenever the target is not full.

**Memtables** (`lsm-memtable.c`).  State: a red-black tree per table, three
slots in `struct zns_lsm` (active, immutable, flushing), all under `table_lock`.
Operations: put (store, freeze, compact), lookup.  **Flush worker** (second
ordered workqueue): claim, write an SSTable, publish, release; `flush_in_flight`
says that somebody will.  **SSTable log** (`lsm-sstable.c`): list, `meta_wp` and
`next_sst_seq` under `sst_lock`.  Hard: the two threads never hold both locks at
once, tables are freed outside them, values read under one are used after it.
Inside a table a lookup is two nested binary searches over blocks and entries.
Correct when: lookups always return the newest mapping, no table is used after
free or leaked, no frozen table is forgotten, and the log stays replayable.

**Lifecycle** (`zns_engine_init()`, `zns_engine_exit()`, `lsm-super.c`).  State:
the superblock and the log on the device.  Operations: format or open, scan,
rebuild the GC index, and on removal flush what is resident.  Hard: a table cut
short by an error or a crash stays in an append-only log; old tables point into
zones that have been reset.  Correct when: a clean restart keeps every mapping,
and whatever is lost otherwise is a suffix of the writes.

**append4k engines** (`zns-engine-append4k.c`, `zns-engine-append4k-alloc.c`):
two earlier engines chosen at build time.  State: an array of sectors and a
counter under spinlocks.  They have no worker: every submitting thread runs
`zns_engine_map()`, changes the mapping and only then passes the bio on.
Correct when: no sector is used twice, and a read returns the last write that
ended or one that overlapped.

**Status output**: counters only.

## 2. Models

### LsmMapping

Variables carry the names of the fields of `struct zns_lsm`; `io_*` and `fl_*`
are the program counters and locals of the two workers.  Every critical section
is one action, and so is every step a thread takes between two of them:

| code | actions |
| --- | --- |
| `memtable_put_active()` | `PutInPlace`, `Freeze`, `CompactAndFreeze`, then `FreeDetached` after the unlock |
| `zns_lsm_publish_write()`, from the index update on | `IndexRefuses`, or `IoMaybeQueueFlush` |
| `zns_lsm_maybe_queue_flush()` | `IoMaybeQueueFlush`, `IoQueueWork`, `FlMaybeQueueFlush`, `FlQueueWork` |
| `zns_lsm_read()` | `LookupMemtables`, `LookupSstables`, `LookupSstablesFails` |
| `zns_lsm_flush_worker()` | `StartFlush`, `ClaimFlushVictim`, `SnapshotLog`, `AdvanceMetaWp`, `PublishSstable`, `ReleaseFlushVictim`, `FreeVictim`, `ClearInFlight` |
| `zns_sst_write()` | `SstWriteRefused`, `WriteHeader`, `WriteHeaderFails`, `WritePayload`, `WritePayloadFails` |

Memtables are functions that are `NoData` where the tree has no entry, at
addresses in `heap`, so that use after free is expressible.  SSTables keep both
the table whose CRC pass 1 put in the header and the entries pass 2 wrote.  A
write that fails to allocate a new table stores in place, as the code does;
`PutInPlace` is therefore allowed at any size.  `TornWrites` says whether a
failed one-block write may move the device's write pointer.

The GC indexes belong to `ZnsDataPath`; here the update that follows a put
succeeds or, after a torn data write, is refused.  Then the mapping stays,
`writes_stopped` is set and `zns_lsm_publish_write()` returns before it looks
whether a flush is needed: a table this put has frozen stays in its slot until
`zns_engine_exit()` flushes it.  `NoLostFlush` and `FrozenIsFlushed` name this as the
one case in which nobody flushes a frozen table; a flush already under way is not
disturbed by it.

### ZnsDataPath

A location is a zone and a sector offset.  The lookup structure is the single
variable `map`: that is what `LsmMapping` is proved to implement, and what a
clean removal keeps (`LsmRecovery`).  `dev_wp`, `dev_data` and `dev_worn` are the
device; `alloc_wp`, `alloc_cond`, `active_zone` and `reserve_zone` the allocator;
`latest`, `rev`, `nr_valid` and `valid_blocks` the GC indexes.

| code | actions |
| --- | --- |
| `zns_lsm_read()`, `zns_lsm_read_partial()` | `Read` |
| `zns_lsm_write_partial()`, up to the filled buffer | `BeginWrite` |
| `zns_lsm_run_gc_if_needed()` | `NoGcNeeded`, `SelectVictim`, `OutOfSpace` |
| `zns_lsm_gc_clean()` | `NoGcBuffer`, `GcMove`, `GcMoveFails`, `GcReset`, `GcResetFails` |
| `zns_lsm_append_write()` | `Append`, `AppendFails` (with `zns_allocator_resync()`), `AppendFailsStopped`, `Publish`, `PublishFails` |
| `zns_engine_exit()`, `zns_engine_init()` | `Remove`, `Create`, `CreateRefused` |
| the device | `WearOut`: a zone becomes read-only |

A failed write moves the device's pointer by nothing, by the block or, with
`TornWrites`, by any number of sectors between; a failed reset may have been
done.  `Condition` and `ReportedWp` are the zone report.  `policy` is the policy
the module was built with.  A lower read that fails ends the request without
any change and has no action.

### LsmRecovery

The metadata zone is a sequence of blocks: superblock, headers, payload blocks.
A flush appends them one at a time, so an error or a crash can fall between any
two.  The interleaving of the two workers is reduced (claim, and publication
with release, are atomic): that is `LsmMapping`'s subject.  One physical sector
stands for one data zone: `ResetZone` returns a zone without live blocks.
`PublishWrite` and `PublishRefused` are the two ends of `zns_lsm_publish_write()`; a
refused location counts as one of `MaxErrors`, happens only with `TornData`, and is
not one the rebuild accepts (`written`).
`OpenMetadata`, `OpenMetadataFails`, `LoadSstable`, `EndScan`, `RebuildTable`,
`RebuildRefused`, `Attached` and `AttachFails` are `zns_engine_init()` for a target
whose size is one of `Targets`: the superblock keeps the size, and another one
is refused (`Matches`).  `Detach`, `FlushAllSync`, `NextGeneration`, `Exited` and
`LastFlushStops` are `zns_engine_exit()`.  `acked`, `past`, `kept` and `refused` are
history variables: the mapping as the requests made it, all mappings there ever
were, whether the last removal wrote everything, and whether the rebuild of the
last creation refused the log.  A header that sits where a payload block is
expected is refused by `zns_lsm_gc_restore_entry()` (its magic number is no
logical block), and a payload that is not the one checksummed by the CRC;
both are `~Intact`.

### SstSearch

`WriteHeader`, `EmitEntry` and `EmitTail` are `zns_sst_write()`; `nodes` is the set of
blocks the walk over the tree has still to yield, least first.  The media is a
sequence of headers and payload blocks whose tail is zeroes, which read as entries
of block 0.  `Lookup`, `OutOfRange`, `EndOfList` are
`zns_lsm_lookup_sstables()`; `EnterTable`, `NarrowBlocks`, `EnterBlock`,
`NarrowEntries`, `Found`, `NotFound` and `ReadFails` are `zns_sst_lookup()` with its
one-block buffer, the refusal of a block without entries included.  The reference
is `newest`, the mapping the tables make.

### Append4k

`Map` is `zns_engine_map()` of either engine, one action per critical section:
`AllocAndMap` in append4k, `Alloc` and `StoreMapping` in append4k-alloc.  The lower
bio is in flight until `DeviceReads`, `DeviceWrites` or `DeviceFails`, in any
order.  The lower device is one sequential zone with one write pointer; a real one
has a pointer per zone, so `NoHole` speaks of a device of one zone.  `Ctr` and `Dtr`
are the target's constructor and destructor; both engines forget everything with
the target.  The history variables record which writes a read may return
(regularity: the last that ended, or one that overlapped).

## 3. Runs

| run | bounds | checks |
| --- | --- | --- |
| `mapping_blocks` | 2 blocks, 2 sectors, 5 tables, log of 4 blocks | `TypeOK`, `HeapSafety`, `ImplementsMappingStore` |
| `mapping_log` | 1 block, 2 sectors, 5 tables, log of 6 blocks, fairness | `NoLostFlush`, `LogOrdered`, `WorkerState`, `MetaWpTracksDevice`, `ImplementsMappingStore`, `FrozenIsFlushed` |
| `mapping_torn` | as above, `TornWrites` | violation of `MetaWpTracksDevice` |
| `data_sectors` | 2 blocks of 2 sectors, 2 contents, zones of 4 and 5 sectors, torn writes, 1 worn zone, fairness | `TypeOK`, `MappedIsWritten`, `ImplementsBlockDevice`, `RequestsComplete` |
| `data_gc` | 3 blocks, 3 zones of 2, greedy and simple | `IndexesAgree`, `WritableIsConsistent`, `IndexNeverRefuses`, `NeverOutOfSpace`, `RefusedAfterStopOnly`, `CollectionAdvances` |
| `data_recreate` | as `data_gc` | violation of `RecreationBringsWritesBack` |
| `recovery_clean` | 2 blocks, 3 sectors, log of 7 blocks, resets, targets of 3 sizes | `TypeOK`, `MappingSurvives`, `RebuiltAgrees`, `CleanlyRemovedOpens`, `SequencesGrow` |
| `recovery_faults` | 2 blocks, 3 sectors, log of 7, 1 crash, 2 errors, torn data, fairness | `RecoversThePast`, `LostOnlyBehindTorn`, `RefusedOnlyIfTorn`, `AdoptedIsWhole`, `DetachCompletes` |
| `recovery_torn_table` | 3 blocks, 4 sectors, log of 9, 1 error | violation of `MappingSurvives` |
| `recovery_full` | 1 block, log of 4, resets | violation of `FilledZoneOpens` |
| `sstable_search` | all pairs of tables over 6 blocks, 2 entries to a payload block, fairness | `TypeOK`, `FindsNewest`, `TablesTile`, `NeverNarrowedAway`, `TurnsShrink`, `LookupEnds` |
| `append4k` | 3 threads, 3 blocks, 4 writes, both engines | `TypeOK`, `SectorsExclusive`, `ReadsAreRegular`, `NoHole` |

Why the bounds are enough.  Five addresses are all the tables the engine can
hold at once: active, immutable, flushing, and the two new ones of a
compaction; with fewer, failing allocations are explored as well.  A threshold
of one makes every write a freeze or a compaction; storing in place is always
possible, so larger tables occur too.  Two blocks are the least that lets one
table shadow another partly.  One entry per payload block makes a table of two
entries span three blocks, so a flush can fail between payload blocks.  The log
sizes let a retry succeed behind a torn table and let the log run full.  In
`data_gc` the target is one block smaller than `zns_engine_capacity()`, the
fullest at which an overwrite always finds a victim; `data_sectors` is as large
as the capacity, so that `-ENOSPC` occurs; its second zone has an odd sector at
its end and a length above its capacity, and of its two zones one is the
reserve, so every second write collects.  Six blocks at two entries to a payload
block give tables of one, two and three blocks, full and padded.  Three threads
are two writes of a block and a read of it; four writes on three blocks meet the
end of the counter.  Permutation symmetry of blocks,
sectors and threads is used only in runs without a liveness property; `recovery_clean` and
the recovery violations use a view that leaves out the history variable `past`,
which none of their properties reads.

No run disables deadlock checking: reads, and creation or removal of a target,
are always possible.

**Fairness.**  `WF` of the workers' steps only: a workqueue runs what is queued
and a running worker is scheduled again; all waits are for lower I/O, which
completes or fails.  That another request arrives, or that a target is created
or removed, is never assumed; a failing flush is therefore only retried if some
write happens to come, which is what `FrozenIsFlushed` allows with `fl_failed`; and
after `writes_stopped` none does.

Every property of a passing run has a mutant: a defect of a kind the code could
have (`... Defect:` definitions in the modules), under which TLC reports it
violated.

## 4. What the violations show

* **`mapping_torn`**: `zns_sst_write()` counts only blocks whose write succeeded.
  A write that fails after the device moved the pointer leaves `meta_wp` behind
  the zone for the rest of the instance, and all flushes fail.  The data path
  handles the same event with `zns_allocator_resync()`.
* **`data_recreate`**: a collection that fails after it moved a block has put it
  into the reserve and leaves the victim unreset.  No data zone is empty, so the
  recreation its message asks for finds no reserve and is refused.
  `RefusedAfterStopOnly` shows that this is the only way to get there.
* **`recovery_torn_table`**: a payload write of a last flush fails.  The next
  instance stops its scan at the torn table but appends behind it; it is removed
  without any failure, and the instance after it stops at the same place and
  finds nothing of what was written.  That happens as long as the tables behind
  are shorter than what the torn one lacks, so it takes a table of three payload
  blocks.  `LostOnlyBehindTorn` says that there is no other way to lose what a
  completed removal wrote.
  If the tables behind are longer, or the flush that failed is simply retried, the
  write pointer moves past the torn table and the scan adopts it.  The rebuild then
  finds a header in place of its payload and refuses the target, now and on every
  later creation, because the log is never rewritten.  `CleanlyRemovedOpens` is
  therefore claimed without faults only; `RefusedOnlyIfTorn` is what holds with them.
  `tests/README.md:305` expects a wrong answer of a lookup instead;
  `AdoptedIsWhole` shows that no lookup gets there.
* **`recovery_full`**: nothing fails but the metadata zone is full.  Newer
  mappings exist only in memory while collection resets the zones the logged
  ones point to; after removal the rebuild meets a mapping into an unwritten
  location and refuses.

Limits met while modelling that contradict no statement of the repository:

* Unequal zones.  Both policies want a victim whose live blocks fit into the
  reserve; if a small zone became the reserve there may be none well below the
  capacity.  `zns-gc-greedy.c:12` assumes equal capacities, and so does
  `NeverOutOfSpace`.
* A data write torn inside a block stops writes; the zone's pointer stays off the
  block grid.  After a recreation the allocator appends there, the index refuses
  the location and writes stop again; the mapping already stored makes the next
  rebuild refuse the target, as `PublishRefused` does in `LsmRecovery`.  Hence
  `IndexNeverRefuses` and `RefusedAfterStopOnly` are checked for devices that write
  whole blocks, and the second case of `RefusedOnlyIfTorn` is this one.
* A crash inside a flush leaves a header that claims more than was written; the
  scan of every later creation stops there and drops what was appended behind
  it.  `docs/2026-08-report.md:164` rules crash recovery out; `RecoversThePast`
  shows that what is lost is a suffix.
* append4k on a zoned device: a bio that overtakes another is refused, and the
  counter stays ahead of the device for good; a failed overwrite has already
  replaced the old mapping.  `NoHole` and `ReadsAreRegular` say so.

## 5. Proofs

All theorems hold for every value of the constants that satisfies the `ASSUME`
of the model (the special values differ from the others, the numbers are
positive, the sets are finite); further assumptions are named below and are
`ASSUME`s of the theorem.  Each proof has one inductive invariant `Inv`, one
lemma per action, and a theorem per property.  The properties were
checked with TLC before they were proved.

### LsmMappingProofs

| theorem | statement |
| --- | --- |
| `TypeCorrect`, `HeapSafe`, `NoFlushLost`, `LogStaysOrdered`, `WorkersConsistent` | `Spec => []` of `TypeOK`, `HeapSafety`, `NoLostFlush`, `LogOrdered`, `WorkerState` |
| `MetaWpFollowsDevice` | `~TornWrites` implies `Spec => []MetaWpTracksDevice` |
| `Refinement` | `Spec => ImplementsMappingStore` |

`Inv` is the conjunction of the five invariants.  None is inductive alone.
`NoLostFlush` covers the put that is refused: it may leave a table behind but never
a flag that nobody will clear.
`HeapSafety` needs the flush protocol: two running workers would free a victim
twice.  `LogOrdered` needs `WorkerState`: that `start` and `seq`, read under
`sst_lock` and used after it, are still current when the table is published, and
that the victim did not change between the two passes, which again is
`HeapSafety` (no compaction reaches the victim).  `Refinement` needs that a
lookup that missed the memtables still misses them when it reaches the SSTables
(`IoState`), and that a victim is only released when the list answers for every
block it holds (`FlushState`).  `MetaWpFollowsDevice` is a second induction on
top of `Inv`.

### ZnsDataPathProofs

| theorem | statement | assumes |
| --- | --- | --- |
| `TypeCorrect`, `MappedStaysWritten`, `WritableStaysConsistent` | `Spec => []` of `TypeOK`, `MappedIsWritten`, `WritableIsConsistent` | |
| `DataPathImplementsBlockDevice` | `Spec => ImplementsBlockDevice` | |
| `IndexesStayInStep`, `IndexesAccept` | `Spec => []` of `IndexesAgree`, `IndexNeverRefuses` | `~TornWrites` |
| `CreatableUnlessStopped` | `Spec => []RefusedAfterStopOnly` | `~TornWrites`, no worn zone |
| `WritesFindRoom` | `Spec => []NeverOutOfSpace` | no worn zone, a collecting policy, zones of equal capacity, a target smaller than `EngineCapacity` |
| `OnePassCollects` | `Spec => CollectionAdvances` | |

To the invariants of the runs, `Inv` adds what a request relies on between its
steps (`WorkerOK`: the buffer is the block as it is plus the sectors written, and
the block written last holds the buffer and no other block is mapped to it),
what the allocator guarantees while writes are allowed (`AllocatorOK`: no zone is
behind the device, the reserve is writable), that the indexes agree until a
publication is refused (`AgreeUntilStopped`), and, on a device that writes whole
blocks, that write pointers and mappings lie on the block grid
(`WholeBlocks`).  A torn
write breaks the indexes for good, which is why two theorems exclude it; that is
the limit named in section 4, not one of the proof.  `WritesFindRoom` is the
pigeonhole argument: if every zone but the reserve were full of live blocks
there would be more blocks than the target has.  The bound is the code's own,
`zns_engine_capacity()`; that its sum over equal zones is a product
(`CapacitySum`) follows from the recursive function behind the fold, by a least
number of zones for which it would fail.  `OnePassCollects` is what makes a
collection end: a turn that goes on has moved the first live block, the slot
that became live is in the reserve, and so none is left at or before the slot it
emptied; the reserve pays one block for each, which is why comparing the two
counts before the first move is enough.

### LsmRecoveryProofs

| theorem | statement | assumes |
| --- | --- | --- |
| `TypeCorrect`, `RebuildAgrees`, `PastRecovered`, `LossOnlyBehindTorn`, `RefusalsExplained`, `NoTornTableAdopted` | `Spec => []` of `TypeOK`, `RebuiltAgrees`, `RecoversThePast`, `LostOnlyBehindTorn`, `RefusedOnlyIfTorn`, `AdoptedIsWhole` | |
| `RunningSequencesGrow` | `Spec => [](Running => SequencesGrow)` | |
| `MappingsSurvive`, `CleanRemovalOpens`, `SequencesAlwaysGrow` | `Spec => []` of `MappingSurvives`, `CleanlyRemovedOpens`, `SequencesGrow` | no crash, no error |

`Inv` says that there is a list of tables, the log, for which `LogInv` holds: they
stand back to back from block 2 on with growing numbers (`Chained`), all of
their payload is on the media (`Stored`), and the list ends at the write pointer
(`Whole`) or at a torn table (`Broken`).  The list is not a variable: while the
target is down nothing in memory knows it, and a crash in the middle of a flush
decides afterwards whether the last table belongs to it.  In a running instance
whose log is whole, the mapping of the list is `Stage(fl_gen)`: the SSTables with
the generations the last flush has already written over them; so a removal that
writes all of them leaves `Stage(4)`, the newest mapping, and one that is cut
short leaves an earlier stage, which is in `past`.  A torn table stays torn
whatever is appended (`TornKeeps`), because the next block behind it is a
header.  The scan has found the oldest tables of the list, or a torn one is among
those it adopted (`Scanned`); the rebuild refuses the torn one, so a creation
that succeeds has found exactly the list (`RebuiltIsLog`).  From there a second
induction, `ListStored`, shows that the list of a running target stays on the media
with all of its payload.  Without crash or error the log is always whole.  For `RefusalsExplained` and
`CleanRemovalOpens`, an entry that no newer table has is what the requests left,
and the rebuild accepts it unless the log is torn or the indexes could not hold it
(`AcceptedUnlessTorn`).  The latter takes a location that was refused once, which
stops the writes of its instance: `Placed` and the clause on `writes_stopped` say
that every other mapping is of written sectors, no two blocks at one, and garbage
collection resets none of them.

The first attempt at this proof failed on a property that TLC had confirmed for
two blocks, that errors without a crash lose nothing; with three blocks it does
not hold.  `recovery_torn_table` is the counterexample and `LostOnlyBehindTorn`
what is true.

### SstSearchProofs

| theorem | statement |
| --- | --- |
| `TypeCorrect`, `TablesAlwaysTile`, `SearchKeepsEntry`, `LookupFindsNewest` | `Spec => []` of `TypeOK`, `TablesTile`, `NeverNarrowedAway`, `FindsNewest` |
| `LoopsShrink` | `Spec => TurnsShrink` |

They hold for any number of blocks, entries to a payload block and tables.
`Inv` follows the table from the tree to the answer.  While it is written
(`WriterOK`), what is packed is sorted, what the walk has still to yield lies
behind it, and the two together are as many as the header counted; so the tail
fills exactly the blocks the header claims, and no induction over the entries is
needed.  In the list (`TablesOK`), each table keeps its place on the media, and
its entries are within its bounds and sorted by payload block and slot, the
padding left out.  History and list agree (`NewestOK`): the first table that
holds a block has its newest location, or the table being written will.  A
search (`SearchOK`) has passed only tables without the block, and its buffer is
the payload block it takes it for.  From there the first entry of a block
decides which blocks to discard (`KeysGrow`), which is sound only because no
payload block is empty (`BlocksNotEmpty`), the one place where the two
divisions, `NrBlocks` and `EntriesInBlock`, have to agree.

### Append4kProofs

| theorem | statement |
| --- | --- |
| `TypeCorrect`, `SectorsStayExclusive`, `RegularReads`, `NoHoleIsLeft` | `Spec => []` of `TypeOK`, `SectorsExclusive`, `ReadsAreRegular`, `NoHole` |

`Inv` adds that a mapped sector was handed out by the target (`Lifetime`), that
write numbers grow and no write under way is superseded by another one under way
(`Numbers`), that a sector not yet handed out or still being written holds nothing
of this target (`Fresh`), that what a mapped block shows is explained by a write
which no write under way has superseded (`Explained`), that a read expects what its
sector holds and what the write that owns the sector will put there (`Expected`),
and that the counter is not behind the device (`NotBehind`).

### Only model-checked

Liveness (`FrozenIsFlushed`, `RequestsComplete`, `DetachCompletes`, `LookupEnds`):
fairness and `ENABLED` are outside the prover's fragment.  For two of them the
safety half is proved: `LoopsShrink` bounds the turns of a lookup and
`OnePassCollects` those of a collection; that the next turn is taken is what
fairness adds.

## 6. Not modelled

The status output and the module parameters that inject failures (any failure
may happen anyway); byte encodings of entry, header and superblock, and CRC
collisions; zone reports with a malformed geometry, which are refused on
creation; requests longer than a block (they are their fragments in turn, and no
transaction); functions of `lsm-memtable.c` that the engine never calls
(`memtable_insert()`, `memtable_update()`, `memtable_freeze()`,
`memtable_lookup_active_immutable()`).

A crash together with zone resets: a zone may be reset while the only persistent
mapping of a block points into it, so after a crash that block may read as
another.  `recovery_faults` therefore has no resets.

## 7. Plan

Every safety property a passing run checks is also a theorem, those of the
`violation` runs excepted, which do not hold.  What is left is the crash together
with zone resets of section 6, which needs `LsmRecovery` to know what a reset
zone holds afterwards, and the liveness properties should the prover come to
handle fairness.
