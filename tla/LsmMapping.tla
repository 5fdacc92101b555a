----------------------------- MODULE LsmMapping -----------------------------
(***************************************************************************)
(* The in-memory and on-disk halves of the LSM mapping, and the two        *)
(* threads that share them:                                                *)
(*                                                                         *)
(*  - the ordered I/O worker (io_wq) stores a mapping with                 *)
(*    memtable_put_active(), which freezes or compacts a full memtable,    *)
(*    then kicks the background flush; and looks mappings up, memtables    *)
(*    first, SSTables second;                                              *)
(*  - the flush worker (flush_wq) claims the frozen memtable, writes it    *)
(*    to the metadata zone as an SSTable, publishes it and frees it.       *)
(*                                                                         *)
(* They synchronise with two mutexes, table_lock (the three memtable slots *)
(* and flush_in_flight) and sst_lock (the SSTable list, meta_wp and        *)
(* next_sst_seq), and never hold both.  Every critical section is one      *)
(* action; what a thread does outside the locks are further actions, so    *)
(* every interleaving the mutexes allow is a behaviour.                    *)
(*                                                                         *)
(* A memtable is its contents, a total function that is NoData where the   *)
(* red-black tree has no entry.  Addresses are kept: heap maps an address  *)
(* to the table it holds, NULL once memtable_free() returned.              *)
(* Metadata positions are counted in 4 KiB SSTable blocks; block 0 of the  *)
(* metadata zone holds the superblock.                                     *)
(***************************************************************************)
EXTENDS Integers, Sequences, FiniteSets

CONSTANTS LogicalBlocks,
          PhysicalSectors,
          NoData,
          Tables,             \* memtable addresses
          NULL,
          MemtableThreshold,  \* lsm->memtable_threshold
          EntriesPerBlock,    \* ZNS_SST_ENTRIES_PER_BLOCK
          MetaEnd,            \* lsm->meta_end, in SSTable blocks
          TornWrites          \* may a failed metadata write move the write pointer?

ASSUME ConstantsAssumption ==
    /\ NoData \notin PhysicalSectors
    /\ NULL \notin Tables \cup LogicalBlocks
    /\ NULL \notin [LogicalBlocks -> PhysicalSectors \cup {NoData}]
    /\ MemtableThreshold \in Nat \ {0}
    /\ EntriesPerBlock \in Nat \ {0}
    /\ MetaEnd \in Nat \ {0}
    /\ TornWrites \in BOOLEAN
    /\ IsFiniteSet(LogicalBlocks)
    /\ Tables # {}

VARIABLES
    heap,               \* memtable address -> contents, NULL when not allocated
    active_memtable,
    immutable_memtable,
    flushing_memtable,
    flush_in_flight,
    flush_queued,       \* flush_work is pending on flush_wq
    sstables,           \* lsm->sstables, list head first, so newest first
    meta_wp,            \* where the engine writes next in the metadata zone
    next_sst_seq,
    zone_wp,            \* the device's write pointer of the metadata zone
    writes_stopped,     \* no write is taken until the target is created again
    io_pc,              \* what the I/O worker does next
    io_block,           \* the block it looks up
    io_detached,        \* old_active, old_immutable after the swap
    got,                \* what the last request returned
    fl_pc,              \* what the flush worker does next
    fl_victim,          \* its local variables
    fl_start,
    fl_seq,
    fl_crc,             \* the payload checksummed into the header by pass 1
    fl_entries,         \* the payload written by pass 2
    fl_consumed,
    fl_ok,
    fl_failed           \* failed, kept after the worker returned

tableVars == <<heap, active_memtable, immutable_memtable, flushing_memtable>>
queueVars == <<flush_in_flight, flush_queued>>
logVars   == <<sstables, meta_wp, next_sst_seq, zone_wp>>
ioVars    == <<writes_stopped, io_pc, io_block, io_detached, got>>
writeVars == <<fl_start, fl_seq, fl_crc, fl_entries, fl_consumed, fl_ok>>
flVars    == <<fl_pc, fl_victim, writeVars, fl_failed>>
vars      == <<tableVars, queueVars, logVars, ioVars, flVars>>

Values   == PhysicalSectors \cup {NoData}
Contents == [LogicalBlocks -> Values]
Empty    == [b \in LogicalBlocks |-> NoData]

(***************************************************************************)
(* Memtables                                                               *)
(***************************************************************************)
Free == {t \in Tables : heap[t] = NULL}

\* memtable_create(): which free address it returns makes no difference.
Alloc(S) == CHOOSE t \in S : TRUE

\* memtable_size(): nr_entries.
Size(m) == Cardinality({b \in LogicalBlocks : m[b] # NoData})

\* Defect: the newer table is copied first, so the older generation wins.
CompactOlderWins(older, newer) ==
    [b \in LogicalBlocks |-> IF older[b] # NoData THEN older[b] ELSE newer[b]]

\* memtable_compact(): copy the older table, then the newer one over it.
Compact(older, newer) ==
    [b \in LogicalBlocks |-> IF newer[b] # NoData THEN newer[b] ELSE older[b]]

\* memtable_lookup() of a slot; an empty slot has no entry.
InSlot(t, b) == IF t = NULL THEN NoData ELSE heap[t][b]

\* zns_lsm_lookup_memtables(): the newest generation wins.
MemLookup(b) ==
    LET a == InSlot(active_memtable, b)
        i == InSlot(immutable_memtable, b)
        f == InSlot(flushing_memtable, b)
    IN  IF a # NoData THEN a ELSE IF i # NoData THEN i ELSE f

(***************************************************************************)
(* SSTables                                                                *)
(***************************************************************************)
Sstable == [start : Nat, nr_blocks : Nat, seq : Nat,
            crc : Contents, entries : Contents]

\* zns_sst_nr_blocks(): a header and the payload blocks, rounded up.
NrBlocks(n) == 1 + (n + EntriesPerBlock - 1) \div EntriesPerBlock

\* zns_lsm_lookup_sstables(): the first table of the list that has the block.
Hits(ssts, b) == {i \in 1..Len(ssts) : ssts[i].entries[b] # NoData}

SstLookup(ssts, b) ==
    IF Hits(ssts, b) = {} THEN NoData
    ELSE LET first == CHOOSE i \in Hits(ssts, b) :
                        \A j \in Hits(ssts, b) : i <= j
         IN  ssts[first].entries[b]

\* The mapping a lookup of block b computes when nobody interferes.
Newest ==
    [b \in LogicalBlocks |->
        IF MemLookup(b) # NoData THEN MemLookup(b) ELSE SstLookup(sstables, b)]

(***************************************************************************)
(* Initial state: zns_engine_init() on a formatted, empty metadata zone.   *)
(***************************************************************************)
NoWrite ==
    /\ fl_start = 0 /\ fl_seq = 0 /\ fl_crc = Empty /\ fl_entries = Empty
    /\ fl_consumed = 0 /\ fl_ok = FALSE

Init ==
    /\ active_memtable = Alloc(Tables)
    /\ heap = [t \in Tables |-> IF t = active_memtable THEN Empty ELSE NULL]
    /\ immutable_memtable = NULL
    /\ flushing_memtable = NULL
    /\ flush_in_flight = FALSE
    /\ flush_queued = FALSE
    /\ sstables = <<>>
    /\ meta_wp = 1
    /\ next_sst_seq = 1
    /\ zone_wp = 1
    /\ writes_stopped = FALSE
    /\ io_pc = "idle"
    /\ io_block = NULL
    /\ io_detached = {}
    /\ got = <<>>
    /\ fl_pc = "idle"
    /\ fl_victim = NULL
    /\ NoWrite
    /\ fl_failed = FALSE

(***************************************************************************)
(* The I/O worker: zns_lsm_publish_write() of a completed data write.      *)
(*                                                                         *)
(* memtable_put_active() is one table_lock section with three outcomes.    *)
(* A failed xa_reserve() or memtable_put() changes nothing and has no      *)
(* action.  The indexes of garbage collection come next; when they refuse  *)
(* the location, ZnsDataPath says.                                         *)
(***************************************************************************)
Stored(b, p) == [heap EXCEPT ![active_memtable][b] = p]

\* The active table stays below the threshold, or the tables that freezing or
\* compacting it needs could not be allocated and the write is preserved.
PutInPlace(b, p) ==
    /\ io_pc = "idle"
    /\ ~writes_stopped
    /\ heap' = Stored(b, p)
    /\ got' = <<>>
    /\ io_pc' = "index"
    /\ UNCHANGED <<active_memtable, immutable_memtable, flushing_memtable,
                   queueVars, logVars, writes_stopped, io_block, io_detached,
                   flVars>>

\* Defect: the new_active check of memtable_freeze_prepared_locked() is missing.
FreezeUnchecked(b, p) ==
    /\ io_pc = "idle"
    /\ ~writes_stopped
    /\ Size(Stored(b, p)[active_memtable]) >= MemtableThreshold
    /\ immutable_memtable = NULL
    /\ heap' = Stored(b, p)
    /\ active_memtable' = NULL
    /\ immutable_memtable' = active_memtable
    /\ got' = <<>>
    /\ io_pc' = "index"
    /\ UNCHANGED <<flushing_memtable, queueVars, logVars, writes_stopped,
                   io_block, io_detached, flVars>>

\* memtable_freeze_prepared_locked(): the immutable slot is empty.
Freeze(b, p) ==
    /\ io_pc = "idle"
    /\ ~writes_stopped
    /\ Size(Stored(b, p)[active_memtable]) >= MemtableThreshold
    /\ immutable_memtable = NULL
    /\ Free # {}
    /\ LET new_active == Alloc(Free)
       IN  /\ heap' = [Stored(b, p) EXCEPT ![new_active] = Empty]
           /\ active_memtable' = new_active
    /\ immutable_memtable' = active_memtable
    /\ got' = <<>>
    /\ io_pc' = "index"
    /\ UNCHANGED <<flushing_memtable, queueVars, logVars, writes_stopped,
                   io_block, io_detached, flVars>>

\* The immutable slot is taken: merge both generations into a third table.
CompactAndFreeze(b, p) ==
    /\ io_pc = "idle"
    /\ ~writes_stopped
    /\ Size(Stored(b, p)[active_memtable]) >= MemtableThreshold
    /\ immutable_memtable # NULL
    /\ Free # {}
    /\ LET merged     == Alloc(Free)
           new_active == Alloc(Free \ {merged})
       IN  /\ Free \ {merged} # {}
           /\ heap' = [Stored(b, p) EXCEPT
                          ![merged] = Compact(heap[immutable_memtable],
                                              Stored(b, p)[active_memtable]),
                          ![new_active] = Empty]
           /\ active_memtable' = new_active
           /\ immutable_memtable' = merged
    /\ io_detached' = {active_memtable, immutable_memtable}
    /\ got' = <<>>
    /\ io_pc' = "reclaim"
    /\ UNCHANGED <<flushing_memtable, queueVars, logVars, writes_stopped,
                   io_block, flVars>>

\* memtable_free(old_active), memtable_free(old_immutable), after the unlock.
FreeDetached ==
    /\ io_pc = "reclaim"
    /\ heap' = [t \in Tables |-> IF t \in io_detached THEN NULL ELSE heap[t]]
    /\ io_detached' = {}
    /\ io_pc' = "index"
    /\ UNCHANGED <<active_memtable, immutable_memtable, flushing_memtable,
                   queueVars, logVars, writes_stopped, io_block, got, flVars>>

(***************************************************************************)
(* zns_lsm_maybe_queue_flush(), called by both threads: the flag is set    *)
(* under table_lock, queue_work() runs after the unlock.                   *)
(***************************************************************************)
Pending == immutable_memtable # NULL \/ flushing_memtable # NULL

ShouldQueue == ~flush_in_flight /\ Pending

\* zns_lsm_update_gc_block_location() fails after the put: the mapping stays,
\* writes stop, and zns_lsm_maybe_queue_flush() is not reached.
IndexRefuses ==
    /\ io_pc = "index"
    /\ writes_stopped' = TRUE
    /\ io_pc' = "idle"
    /\ UNCHANGED <<tableVars, queueVars, logVars, io_block, io_detached, got,
                   flVars>>

\* It succeeds, on indexes only this worker uses.
IoMaybeQueueFlush ==
    /\ io_pc = "index"
    /\ flush_in_flight' = (flush_in_flight \/ ShouldQueue)
    /\ io_pc' = IF ShouldQueue THEN "kick" ELSE "idle"
    /\ UNCHANGED <<tableVars, flush_queued, logVars, writes_stopped,
                   io_block, io_detached, got, flVars>>

IoQueueWork ==
    /\ io_pc = "kick"
    /\ flush_queued' = TRUE
    /\ io_pc' = "idle"
    /\ UNCHANGED <<tableVars, flush_in_flight, logVars, writes_stopped,
                   io_block, io_detached, got, flVars>>

(***************************************************************************)
(* The I/O worker: zns_lsm_read().  The two lookups take different locks,  *)
(* so the flush worker may publish or release a table between them.        *)
(***************************************************************************)
LookupMemtables(b) ==
    /\ io_pc = "idle"
    /\ IF MemLookup(b) # NoData
         THEN /\ got' = <<b, MemLookup(b)>>
              /\ UNCHANGED <<io_pc, io_block>>
         ELSE /\ io_pc' = "sstables"
              /\ io_block' = b
              /\ UNCHANGED got
    /\ UNCHANGED <<tableVars, queueVars, logVars, writes_stopped, io_detached,
                   flVars>>

LookupSstables ==
    /\ io_pc = "sstables"
    /\ got' = <<io_block, SstLookup(sstables, io_block)>>
    /\ io_pc' = "idle"
    /\ io_block' = NULL
    /\ UNCHANGED <<tableVars, queueVars, logVars, writes_stopped, io_detached,
                   flVars>>

\* zns_sst_lookup() could not read a block: the read fails, nothing is returned.
LookupSstablesFails ==
    /\ io_pc = "sstables"
    /\ sstables # <<>>
    /\ io_pc' = "idle"
    /\ io_block' = NULL
    /\ UNCHANGED <<tableVars, queueVars, logVars, writes_stopped, io_detached,
                   got, flVars>>

(***************************************************************************)
(* The flush worker: zns_lsm_flush_worker().  The workqueue runs one       *)
(* instance of flush_work at a time.                                       *)
(***************************************************************************)
StartFlush ==
    /\ fl_pc = "idle"
    /\ flush_queued
    /\ flush_queued' = FALSE
    /\ fl_failed' = FALSE
    /\ fl_pc' = "claim"
    /\ UNCHANGED <<tableVars, flush_in_flight, logVars, ioVars,
                   fl_victim, writeVars>>

\* Defect: the claimed table stays in the immutable slot as well.
ClaimLeavesImmutable ==
    /\ fl_pc = "claim"
    /\ flushing_memtable' = IF flushing_memtable = NULL
                              THEN immutable_memtable ELSE flushing_memtable
    /\ fl_victim' = flushing_memtable'
    /\ fl_pc' = IF flushing_memtable' = NULL THEN "clear" ELSE "snapshot"
    /\ UNCHANGED <<heap, active_memtable, immutable_memtable, queueVars, logVars,
                   ioVars, writeVars, fl_failed>>

ClaimFlushVictim ==
    /\ fl_pc = "claim"
    /\ IF flushing_memtable = NULL
         THEN /\ flushing_memtable' = immutable_memtable
              /\ immutable_memtable' = NULL
         ELSE UNCHANGED <<flushing_memtable, immutable_memtable>>
    /\ fl_victim' = flushing_memtable'
    /\ fl_pc' = IF flushing_memtable' = NULL THEN "clear" ELSE "snapshot"
    /\ UNCHANGED <<heap, active_memtable, queueVars, logVars, ioVars,
                   writeVars, fl_failed>>

\* start and seq are read under sst_lock and used after it is dropped.
SnapshotLog ==
    /\ fl_pc = "snapshot"
    /\ fl_start' = meta_wp
    /\ fl_seq' = next_sst_seq
    /\ fl_pc' = "header"
    /\ UNCHANGED <<tableVars, queueVars, logVars, ioVars, fl_victim,
                   fl_crc, fl_entries, fl_consumed, fl_ok, fl_failed>>

\* zns_sst_write() gives up before it writes: -ENOMEM at any time, -ENOSPC when
\* the table does not fit, -ENODATA (release at once) when it is empty.
SstWriteRefused ==
    /\ fl_pc = "header"
    /\ fl_pc' = IF Size(heap[fl_victim]) = 0 THEN "release" ELSE "advance"
    /\ UNCHANGED <<tableVars, queueVars, logVars, ioVars, fl_victim,
                   writeVars, fl_failed>>

Fits == /\ fl_start < MetaEnd
        /\ Size(heap[fl_victim]) > 0
        /\ NrBlocks(Size(heap[fl_victim])) <= MetaEnd - fl_start

\* Pass 1 and the header write.  The zone takes a write at its pointer only.
WriteHeader ==
    /\ fl_pc = "header"
    /\ Fits
    /\ fl_start = zone_wp
    /\ zone_wp' = zone_wp + 1
    /\ fl_crc' = heap[fl_victim]
    /\ fl_consumed' = 1
    /\ fl_pc' = "payload"
    /\ UNCHANGED <<tableVars, queueVars, sstables, meta_wp, next_sst_seq,
                   ioVars, fl_victim, fl_start, fl_seq, fl_entries,
                   fl_ok, fl_failed>>

\* Where a failed one-block write leaves the write pointer.
AfterFailure(wp) == IF TornWrites /\ wp < MetaEnd THEN {wp, wp + 1} ELSE {wp}

WriteHeaderFails ==
    /\ fl_pc = "header"
    /\ Fits
    /\ zone_wp' \in AfterFailure(zone_wp)
    /\ fl_pc' = "advance"
    /\ UNCHANGED <<tableVars, queueVars, sstables, meta_wp, next_sst_seq,
                   ioVars, fl_victim, writeVars, fl_failed>>

\* Pass 2 walks the table again, without any lock.
WritePayload ==
    /\ fl_pc = "payload"
    /\ fl_entries' = heap[fl_victim]
    /\ fl_consumed' = NrBlocks(Size(heap[fl_victim]))
    /\ zone_wp' = zone_wp + NrBlocks(Size(heap[fl_victim])) - 1
    /\ fl_ok' = TRUE
    /\ fl_pc' = "advance"
    /\ UNCHANGED <<tableVars, queueVars, sstables, meta_wp, next_sst_seq,
                   ioVars, fl_victim, fl_start, fl_seq, fl_crc, fl_failed>>

\* n payload blocks reach the zone and the next one fails.
WritePayloadFails ==
    /\ fl_pc = "payload"
    /\ \E n \in 0 .. NrBlocks(Size(heap[fl_victim])) - 2 :
          /\ fl_consumed' = 1 + n
          /\ zone_wp' \in AfterFailure(zone_wp + n)
    /\ fl_pc' = "advance"
    /\ UNCHANGED <<tableVars, queueVars, sstables, meta_wp, next_sst_seq,
                   ioVars, fl_victim, fl_start, fl_seq, fl_crc, fl_entries,
                   fl_ok, fl_failed>>

\* Defect: the blocks a failed attempt burned are not given up.
AdvanceOnSuccessOnly ==
    /\ fl_pc = "advance"
    /\ meta_wp' = IF fl_ok THEN fl_start + fl_consumed ELSE meta_wp
    /\ fl_failed' = ~fl_ok
    /\ fl_pc' = IF fl_ok THEN "publish" ELSE "clear"
    /\ UNCHANGED <<tableVars, queueVars, sstables, next_sst_seq, zone_wp,
                   ioVars, fl_victim, writeVars>>

\* zns_lsm_advance_meta_wp(), then the branch on ret.
AdvanceMetaWp ==
    /\ fl_pc = "advance"
    /\ meta_wp' = IF fl_start + fl_consumed > meta_wp
                    THEN fl_start + fl_consumed ELSE meta_wp
    /\ fl_failed' = ~fl_ok
    /\ fl_pc' = IF fl_ok THEN "publish" ELSE "clear"
    /\ UNCHANGED <<tableVars, queueVars, sstables, next_sst_seq, zone_wp,
                   ioVars, fl_victim, writeVars>>

\* What zns_sst_write() returned.
WrittenSstable == [start |-> fl_start, nr_blocks |-> fl_consumed, seq |-> fl_seq,
                   crc |-> fl_crc, entries |-> fl_entries]

\* Defect: list_add_tail(), so the oldest table is found first.
PublishAtTail ==
    /\ fl_pc = "publish"
    /\ sstables' = Append(sstables, WrittenSstable)
    /\ next_sst_seq' = next_sst_seq + 1
    /\ fl_pc' = "release"
    /\ UNCHANGED <<tableVars, queueVars, meta_wp, zone_wp, ioVars, fl_victim,
                   writeVars, fl_failed>>

\* Defect: next_sst_seq is not advanced.
PublishSameSeq ==
    /\ fl_pc = "publish"
    /\ sstables' = <<WrittenSstable>> \o sstables
    /\ fl_pc' = "release"
    /\ UNCHANGED <<tableVars, queueVars, next_sst_seq, meta_wp, zone_wp, ioVars,
                   fl_victim, writeVars, fl_failed>>

\* zns_lsm_publish_sstable(): list_add() puts the newest table at the head.
PublishSstable ==
    /\ fl_pc = "publish"
    /\ sstables' = <<WrittenSstable>> \o sstables
    /\ next_sst_seq' = next_sst_seq + 1
    /\ fl_pc' = "release"
    /\ UNCHANGED <<tableVars, queueVars, meta_wp, zone_wp, ioVars, fl_victim,
                   writeVars, fl_failed>>

ReleaseFlushVictim ==
    /\ fl_pc = "release"
    /\ flushing_memtable' = NULL
    /\ fl_pc' = "free"
    /\ UNCHANGED <<heap, active_memtable, immutable_memtable, queueVars,
                   logVars, ioVars, fl_victim, writeVars, fl_failed>>

\* The locals of the iteration go out of scope.
ForgetWrite ==
    /\ fl_victim' = NULL
    /\ fl_start' = 0 /\ fl_seq' = 0 /\ fl_crc' = Empty /\ fl_entries' = Empty
    /\ fl_consumed' = 0 /\ fl_ok' = FALSE

\* memtable_free(victim), after the unlock.
FreeVictim ==
    /\ fl_pc = "free"
    /\ heap' = [heap EXCEPT ![fl_victim] = NULL]
    /\ ForgetWrite
    /\ fl_pc' = "claim"
    /\ UNCHANGED <<active_memtable, immutable_memtable, flushing_memtable,
                   queueVars, logVars, ioVars, fl_failed>>

\* Defect: the worker returns without looking at the slots again.
ClearWithoutRecheck ==
    /\ fl_pc = "clear"
    /\ flush_in_flight' = FALSE
    /\ ForgetWrite
    /\ fl_pc' = "idle"
    /\ UNCHANGED <<tableVars, flush_queued, logVars, ioVars, fl_failed>>

ClearInFlight ==
    /\ fl_pc = "clear"
    /\ flush_in_flight' = FALSE
    /\ ForgetWrite
    /\ fl_pc' = IF fl_failed THEN "idle" ELSE "requeue"
    /\ UNCHANGED <<tableVars, flush_queued, logVars, ioVars, fl_failed>>

FlMaybeQueueFlush ==
    /\ fl_pc = "requeue"
    /\ flush_in_flight' = (flush_in_flight \/ ShouldQueue)
    /\ fl_pc' = IF ShouldQueue THEN "kick" ELSE "idle"
    /\ UNCHANGED <<tableVars, flush_queued, logVars, ioVars,
                   fl_victim, writeVars, fl_failed>>

FlQueueWork ==
    /\ fl_pc = "kick"
    /\ flush_queued' = TRUE
    /\ fl_pc' = "idle"
    /\ UNCHANGED <<tableVars, flush_in_flight, logVars, ioVars,
                   fl_victim, writeVars, fl_failed>>

(***************************************************************************)
(* Specification                                                           *)
(***************************************************************************)
Write(b, p) == PutInPlace(b, p) \/ Freeze(b, p) \/ CompactAndFreeze(b, p)

IoContinues ==
    \/ FreeDetached
    \/ IndexRefuses
    \/ IoMaybeQueueFlush
    \/ IoQueueWork
    \/ LookupSstables
    \/ LookupSstablesFails

FlushWorker ==
    \/ StartFlush
    \/ ClaimFlushVictim
    \/ SnapshotLog
    \/ SstWriteRefused
    \/ WriteHeader
    \/ WriteHeaderFails
    \/ WritePayload
    \/ WritePayloadFails
    \/ AdvanceMetaWp
    \/ PublishSstable
    \/ ReleaseFlushVictim
    \/ FreeVictim
    \/ ClearInFlight
    \/ FlMaybeQueueFlush
    \/ FlQueueWork

Next ==
    \/ \E b \in LogicalBlocks :
          \/ LookupMemtables(b)
          \/ \E p \in PhysicalSectors : Write(b, p)
    \/ IoContinues
    \/ FlushWorker

Spec == Init /\ [][Next]_vars

\* The workqueues run what is queued and a running worker keeps running; that
\* another request arrives is never assumed.
FairSpec == Spec /\ WF_vars(IoContinues) /\ WF_vars(FlushWorker)

(***************************************************************************)
(* Properties                                                              *)
(***************************************************************************)
IoPcs == {"idle", "reclaim", "index", "kick", "sstables"}
FlPcs == {"idle", "claim", "snapshot", "header", "payload", "advance",
          "publish", "release", "free", "clear", "requeue", "kick"}

\* Every variable of struct zns_lsm and of the two workers has its type.
TypeOK ==
    /\ heap \in [Tables -> Contents \cup {NULL}]
    /\ active_memtable \in Tables
    /\ immutable_memtable \in Tables \cup {NULL}
    /\ flushing_memtable \in Tables \cup {NULL}
    /\ flush_in_flight \in BOOLEAN
    /\ flush_queued \in BOOLEAN
    /\ sstables \in Seq(Sstable)
    /\ meta_wp \in Nat
    /\ next_sst_seq \in Nat
    /\ zone_wp \in Nat
    /\ writes_stopped \in BOOLEAN
    /\ io_pc \in IoPcs
    /\ io_block \in LogicalBlocks \cup {NULL}
    /\ io_detached \in SUBSET Tables
    /\ got \in {<<>>} \cup (LogicalBlocks \X Values)
    /\ fl_pc \in FlPcs
    /\ fl_victim \in Tables \cup {NULL}
    /\ fl_start \in Nat
    /\ fl_seq \in Nat
    /\ fl_crc \in Contents
    /\ fl_entries \in Contents
    /\ fl_consumed \in Nat
    /\ fl_ok \in BOOLEAN
    /\ fl_failed \in BOOLEAN

\* The tables somebody still points to: the three slots, the ones detached by a
\* compaction and not yet freed, and the flush victim until it is freed.
Referenced ==
    ({active_memtable, immutable_memtable, flushing_memtable, fl_victim}
        \cup io_detached) \ {NULL}

\* No use after free, no double free and no leak: a table is allocated exactly
\* when one thread still holds it; the slots and the detached tables are all
\* different, and the table being flushed is only reachable as the victim, so
\* neither a compaction nor a write touches it while pass 1 and pass 2 walk it
\* without memtable->lock.
HeapSafety ==
    /\ \A t \in Tables : heap[t] # NULL <=> t \in Referenced
    /\ active_memtable \notin {immutable_memtable, flushing_memtable, fl_victim}
    /\ immutable_memtable = NULL \/ immutable_memtable \notin {flushing_memtable, fl_victim}
    /\ io_detached \cap {active_memtable, immutable_memtable,
                         flushing_memtable, fl_victim} = {}
    /\ fl_pc \in {"snapshot", "header", "payload", "advance", "publish", "release"}
          => fl_victim # NULL /\ fl_victim = flushing_memtable

\* The worker that will clear flush_in_flight, or the one about to queue it.
FlushOwned ==
    \/ io_pc = "kick"
    \/ fl_pc \notin {"idle", "requeue"}
    \/ flush_queued

\* A frozen table is never forgotten while writes are taken: when one waits, a
\* flush is under way, or a thread is about to look at the slots again, or the
\* last flush failed and the next write retries it (the comments in
\* zns_lsm_flush_worker()).  Only a put whose location the indexes refuse leaves
\* its table to the last flush of zns_engine_exit().  And the flag is set exactly
\* when one thread, and only one, will have it cleared, stopped or not.
NoLostFlush ==
    /\ flush_in_flight <=> FlushOwned
    /\ io_pc = "kick" => ~flush_queued
    /\ fl_pc \notin {"idle", "requeue"} => io_pc # "kick" /\ ~flush_queued
    /\ Pending => \/ flush_in_flight
                  \/ io_pc \in {"reclaim", "index"}
                  \/ fl_pc = "requeue"
                  \/ fl_failed
                  \/ writes_stopped

End(sst) == sst.start + sst.nr_blocks

\* The metadata log is what recovery replays from the first SSTable on: newer
\* tables lie behind older ones, without overlap, with growing sequence
\* numbers, all below meta_wp and inside the metadata zone; and every header's
\* CRC is the CRC of the payload that follows it.
LogOrdered ==
    /\ \A i \in 1..Len(sstables) :
          /\ sstables[i].start >= 1
          /\ sstables[i].seq < next_sst_seq
          /\ End(sstables[i]) <= meta_wp
          /\ sstables[i].crc = sstables[i].entries
    /\ \A i, j \in 1..Len(sstables) :
          i < j => /\ sstables[j].seq < sstables[i].seq
                   /\ End(sstables[j]) <= sstables[i].start
    /\ meta_wp \in 1..MetaEnd

\* What each worker may rely on where it dropped a lock: a lookup that missed the
\* memtables still misses them when it walks the SSTables, although tables moved
\* meanwhile; start and seq read under sst_lock are still meta_wp and
\* next_sst_seq when the SSTable is published; both passes over the victim see
\* the same entries; and the victim is released only once the SSTables answer
\* for every block it maps.
IoState ==
    /\ io_pc # "reclaim" => io_detached = {}
    /\ io_pc = "sstables" => io_block \in LogicalBlocks /\ MemLookup(io_block) = NoData

FlushState ==
    /\ fl_pc \in {"idle", "claim", "requeue", "kick"} => fl_victim = NULL
    /\ fl_pc = "free" => fl_victim # NULL /\ flushing_memtable = NULL
    /\ fl_pc = "clear" => fl_victim = flushing_memtable
    /\ fl_pc \in {"idle", "claim", "snapshot", "header", "requeue", "kick"}
          => fl_consumed = 0 /\ ~fl_ok
    /\ fl_pc \in {"header", "payload", "advance"}
          => fl_start = meta_wp /\ fl_seq = next_sst_seq
    /\ fl_pc = "payload" =>
          /\ fl_crc = heap[fl_victim]
          /\ fl_consumed = 1
          /\ ~fl_ok
          /\ fl_start + NrBlocks(Size(heap[fl_victim])) <= MetaEnd
    /\ fl_pc = "advance" => fl_start + fl_consumed <= MetaEnd
    /\ fl_pc = "publish" =>
          /\ fl_ok
          /\ fl_seq = next_sst_seq
          /\ fl_start + fl_consumed = meta_wp
          /\ fl_start >= 1
          /\ \A i \in 1..Len(sstables) : End(sstables[i]) <= fl_start
    /\ fl_pc \in {"advance", "publish"} /\ fl_ok =>
          fl_crc = heap[fl_victim] /\ fl_entries = heap[fl_victim]
    /\ fl_pc = "release" =>
          \A b \in LogicalBlocks : heap[fl_victim][b] # NoData =>
              SstLookup(sstables, b) = heap[fl_victim][b]

WorkerState == IoState /\ FlushState

\* "*consumed reports the sectors that reached the zone" (lsm-sstable.h:90): the
\* engine's write pointer follows the device's, so the next flush is not a
\* sequential-write violation.
MetaWpTracksDevice ==
    zone_wp = IF fl_pc \in {"payload", "advance"}
                THEN fl_start + fl_consumed ELSE meta_wp

\* Under the fairness of the workqueues, a frozen memtable leaves the immutable
\* slot unless the flush fails: the worker loops, or is queued again.  A put that
\* stops the writes may leave one behind, but takes none from a flush that is
\* under way, even one that has looked at the slots for the last time.
FrozenIsFlushed ==
    /\ immutable_memtable # NULL
          ~> (immutable_memtable = NULL \/ fl_failed \/ writes_stopped)
    /\ immutable_memtable # NULL /\ flush_in_flight
          ~> (immutable_memtable = NULL \/ fl_failed)

\* The mapping the lookups see is the abstract one: a write takes effect at once
\* and only where it was aimed, and freezing, compacting, flushing, publishing
\* and releasing a table change no answer.
Abstract == INSTANCE MappingStore WITH map <- Newest, got <- got

ImplementsMappingStore == Abstract!Spec
=============================================================================
