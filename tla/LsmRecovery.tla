---------------------------- MODULE LsmRecovery ----------------------------
(***************************************************************************)
(* The life of the mapping across instances of the target: the metadata    *)
(* zone as a log of 4 KiB blocks, the background flush that appends to it, *)
(* zns_engine_exit() with its last synchronous flush, a crash at any       *)
(* point, and zns_engine_init() with its recovery scan and the rebuild of  *)
(* the GC index.                                                           *)
(*                                                                         *)
(* The log is kept block by block, because it is between two blocks that a *)
(* flush is cut short.  Block 1 is the superblock.  The interleaving of    *)
(* the two workers is the subject of LsmMapping; here a claim, and a       *)
(* publication with the release of its table, are single steps, and a      *)
(* memtable slot that is NULL is an Empty table.                           *)
(*                                                                         *)
(* Each physical sector stands for a data zone of its own: a write takes   *)
(* one the device has not written, garbage collection resets one that      *)
(* holds no live block.                                                    *)
(***************************************************************************)
EXTENDS Integers, Sequences, FiniteSets

CONSTANTS LogicalBlocks,
          PhysicalSectors,
          Targets,            \* the sizes of target that are created, each by
                              \* the blocks it has
          NoData,
          MemtableThreshold,  \* lsm->memtable_threshold
          EntriesPerBlock,    \* ZNS_SST_ENTRIES_PER_BLOCK
          MetaEnd,            \* blocks of the metadata zone
          MaxCrashes,         \* how often the machine may stop
          MaxErrors,          \* how many writes or allocations may fail
          Resets,             \* does garbage collection reset data zones?
          TornData            \* is a torn data write one of the errors?

ASSUME RecoveryAssumption ==
    /\ NoData \notin PhysicalSectors
    /\ Targets \subseteq (SUBSET LogicalBlocks) \ {{}}
    /\ IsFiniteSet(LogicalBlocks) /\ IsFiniteSet(PhysicalSectors)
    /\ MemtableThreshold \in Nat \ {0}
    /\ EntriesPerBlock \in Nat \ {0}
    /\ MetaEnd \in Nat \ {0}
    /\ MaxCrashes \in Nat
    /\ MaxErrors \in Nat
    /\ Resets \in BOOLEAN
    /\ TornData \in BOOLEAN

VARIABLES
    zone,           \* device: the blocks of the metadata zone
    written,        \* device: the physical sectors that hold data
    target,         \* the blocks of the instance, none without one
    writes_stopped, \* it takes no write any more
    engine,         \* what the instance is doing, "down" when there is none
    tables,         \* generation -> memtable
    sstables,       \* newest first
    meta_wp,
    next_sst_seq,
    fl_pc,          \* what the thread that serializes a table does next
    fl_gen,         \* the generation it serializes
    fl_page,        \* payload blocks written
    cursor,         \* recovery: the block to load next
    latest,         \* recovery: the mapping rebuilt so far
    restored,       \* recovery: SSTables rebuilt so far
    acked,          \* history: the mapping as the requests left it
    past,           \* history: every mapping there ever was
    kept,           \* history: the last instance left everything in the log
    refused,        \* history: an instance could not be created from the log
    crashes,
    errors

deviceVars   == <<zone, written>>
logVars      == <<sstables, meta_wp, next_sst_seq>>
flushVars    == <<fl_pc, fl_gen, fl_page>>
recoveryVars == <<cursor, latest, restored>>
history      == <<acked, past, kept, refused>>
faults       == <<crashes, errors>>
vars == <<deviceVars, target, writes_stopped, engine, tables, logVars, flushVars,
          recoveryVars, history, faults>>

Contents == [LogicalBlocks -> PhysicalSectors \cup {NoData}]
Empty    == [b \in LogicalBlocks |-> NoData]
Size(m)  == Cardinality({b \in LogicalBlocks : m[b] # NoData})
Entries(m) == {b \in LogicalBlocks : m[b] # NoData}

\* Oldest first, the order of zns_lsm_flush_all_sync().
Generations == <<"flushing", "immutable", "active">>
NoTables    == [g \in {"flushing", "immutable", "active"} |-> Empty]

\* The newer table wins, memtable_compact() and every lookup.
Over(older, newer) ==
    [b \in LogicalBlocks |-> IF newer[b] # NoData THEN newer[b] ELSE older[b]]

(***************************************************************************)
(* Blocks of the metadata zone.  A header carries what its payload's CRC   *)
(* tells apart, the whole table; payload block k is the k-th block of it.  *)
(***************************************************************************)
Super(T)      == [kind |-> "super", blocks |-> T]
Header(m, s)  == [kind |-> "header", table |-> m, seq |-> s]
Payload(m, k) == [kind |-> "payload", table |-> m, page |-> k]

NrBlocks(m) == 1 + (Size(m) + EntriesPerBlock - 1) \div EntriesPerBlock

DeviceWp == Len(zone) + 1

Sstable(at, header) == [start |-> at, table |-> header.table, seq |-> header.seq]

\* Lookups walk the list from its head.
Hits(b) == {i \in 1..Len(sstables) : sstables[i].table[b] # NoData}

OnDisk ==
    [b \in LogicalBlocks |->
        IF Hits(b) = {} THEN NoData
        ELSE LET first == CHOOSE i \in Hits(b) : \A j \in Hits(b) : i <= j
             IN  sstables[first].table[b]]

\* The mapping a lookup finds: the three generations over the SSTables.
Newest ==
    Over(OnDisk, Over(tables["flushing"], Over(tables["immutable"], tables["active"])))

Init ==
    /\ zone = <<>>
    /\ written = {}
    /\ target = {} /\ writes_stopped = FALSE
    /\ engine = "down"
    /\ tables = NoTables
    /\ sstables = <<>> /\ meta_wp = 1 /\ next_sst_seq = 1
    /\ fl_pc = "idle" /\ fl_gen = 1 /\ fl_page = 0
    /\ cursor = 2 /\ latest = Empty /\ restored = 0
    /\ acked = Empty /\ past = {Empty} /\ kept = TRUE /\ refused = FALSE
    /\ crashes = 0 /\ errors = 0

(***************************************************************************)
(* A running instance                                                      *)
(***************************************************************************)
\* memtable_put_active(): the table stays, is frozen, or is merged with the
\* generation that waits; below the threshold, or without memory, it stays.
AfterPut(m) ==
    {[tables EXCEPT !["active"] = m]} \cup
    (IF Size(m) < MemtableThreshold THEN {}
     ELSE {[tables EXCEPT !["active"] = Empty,
                          !["immutable"] = Over(tables["immutable"], m)]})

\* The mapping of a host write or a GC relocation is stored.
Put(b, p) ==
    /\ engine = "up"
    /\ ~writes_stopped
    /\ b \in target
    /\ p \notin written
    /\ tables' \in AfterPut([tables["active"] EXCEPT ![b] = p])
    /\ acked' = [acked EXCEPT ![b] = p]
    /\ past' = past \cup {[Newest EXCEPT ![b] = p]}
    /\ UNCHANGED <<target, zone, engine, logVars, fl_gen, fl_page, recoveryVars,
                   kept, refused>>

\* zns_lsm_publish_write(): memtable_put_active(), the indexes of garbage
\* collection, and zns_lsm_maybe_queue_flush().
PublishWrite(b, p) ==
    /\ Put(b, p)
    /\ written' = written \cup {p}
    /\ fl_pc' = IF fl_pc = "idle" /\ (\/ tables'["immutable"] # Empty
                                      \/ tables'["flushing"] # Empty)
                  THEN "claim" ELSE fl_pc
    /\ UNCHANGED <<writes_stopped, faults>>

\* The block begins off the grid, after a write that was torn inside a block, and
\* the indexes refuse it: the mapping stays, writes stop and no flush is queued.
\* Such a location is never one of written, the ones the indexes can hold.
PublishRefused(b, p) ==
    /\ TornData
    /\ errors < MaxErrors
    /\ errors' = errors + 1
    /\ Put(b, p)
    /\ writes_stopped' = TRUE
    /\ UNCHANGED <<written, fl_pc, crashes>>

\* zns_lsm_gc_clean(): the victim holds no block a lookup finds there.
ResetZone(p) ==
    /\ Resets
    /\ engine = "up"
    /\ ~writes_stopped
    /\ p \in written
    /\ \A b \in LogicalBlocks : Newest[b] # p
    /\ written' = written \ {p}
    /\ UNCHANGED <<target, writes_stopped, zone, engine, tables, logVars,
                   flushVars, recoveryVars, history, faults>>

(***************************************************************************)
(* zns_lsm_flush_worker(): claim, serialize, publish, until nothing waits. *)
(***************************************************************************)
ClaimFlushVictim ==
    /\ fl_pc = "claim"
    /\ tables' = IF tables["flushing"] # Empty THEN tables
                 ELSE [tables EXCEPT !["flushing"] = tables["immutable"],
                                     !["immutable"] = Empty]
    /\ fl_pc' = IF tables'["flushing"] = Empty THEN "idle" ELSE "header"
    /\ fl_gen' = 1
    /\ UNCHANGED <<target, writes_stopped, deviceVars, engine, logVars, fl_page,
                   recoveryVars, history, faults>>

Victim == tables[Generations[fl_gen]]

\* Defect: the header block is not counted.
FitsPastEnd == meta_wp < MetaEnd + 1 /\ NrBlocks(Victim) - 1 <= MetaEnd + 1 - meta_wp

Fits == meta_wp < MetaEnd + 1 /\ NrBlocks(Victim) <= MetaEnd + 1 - meta_wp

\* zns_sst_write(), by the flush worker and by the last flush.
WriteHeader ==
    /\ fl_pc = "header"
    /\ Fits
    /\ meta_wp = DeviceWp
    /\ zone' = Append(zone, Header(Victim, next_sst_seq))
    /\ fl_page' = 0
    /\ fl_pc' = "payload"
    /\ UNCHANGED <<target, writes_stopped, written, engine, tables, logVars,
                   fl_gen, recoveryVars, history, faults>>

WritePage ==
    /\ fl_pc = "payload"
    /\ fl_page + 1 < NrBlocks(Victim)
    /\ zone' = Append(zone, Payload(Victim, fl_page + 1))
    /\ fl_page' = fl_page + 1
    /\ UNCHANGED <<target, writes_stopped, written, engine, tables, logVars, fl_pc,
                   fl_gen, recoveryVars, history, faults>>

\* The worker publishes the SSTable and releases the memtable; the last flush
\* frees the index it has no use for and goes on to the next generation.
TableWritten ==
    /\ fl_pc = "payload"
    /\ fl_page + 1 = NrBlocks(Victim)
    /\ meta_wp' = meta_wp + NrBlocks(Victim)
    /\ next_sst_seq' = next_sst_seq + 1
    /\ IF engine = "exit"
         THEN /\ fl_gen' = fl_gen + 1
              /\ fl_pc' = "next"
              /\ UNCHANGED <<tables, sstables>>
         ELSE /\ sstables' = <<Sstable(meta_wp, Header(Victim, next_sst_seq))>> \o sstables
              /\ tables' = [tables EXCEPT !["flushing"] = Empty]
              /\ fl_pc' = "claim"
              /\ UNCHANGED fl_gen
    /\ UNCHANGED <<target, writes_stopped, deviceVars, engine, fl_page,
                   recoveryVars, history, faults>>

\* The sectors zns_sst_write() reports as consumed.
Consumed == IF fl_pc = "payload" THEN 1 + fl_page ELSE 0

\* -ENOSPC before the header, or an allocation or a block write fails.
WriteFails ==
    \/ fl_pc = "header" /\ ~Fits /\ UNCHANGED errors
    \/ /\ \/ fl_pc = "header"
          \/ fl_pc = "payload" /\ fl_page + 1 < NrBlocks(Victim)
       /\ errors < MaxErrors
       /\ errors' = errors + 1

\* Defect: the worker tries again at once instead of leaving it to a write.
FlushFailsRetries ==
    /\ engine # "exit"
    /\ WriteFails
    /\ meta_wp' = meta_wp + Consumed
    /\ fl_pc' = "claim"
    /\ UNCHANGED <<target, writes_stopped, deviceVars, engine, tables, sstables,
                   next_sst_seq, fl_gen, fl_page, recoveryVars, history, crashes>>

\* The worker keeps the table in its slot and returns; a later write retries.
FlushFails ==
    /\ engine # "exit"
    /\ WriteFails
    /\ meta_wp' = meta_wp + Consumed
    /\ fl_pc' = "idle"
    /\ UNCHANGED <<target, writes_stopped, deviceVars, engine, tables, sstables,
                   next_sst_seq, fl_gen, fl_page, recoveryVars, history, crashes>>

(***************************************************************************)
(* zns_engine_exit()                                                       *)
(***************************************************************************)
\* The target is removed; destroy_workqueue() waits for a flush under way.
Detach ==
    /\ engine = "up"
    /\ engine' = "drain"
    /\ UNCHANGED <<target, writes_stopped, deviceVars, tables, logVars, flushVars,
                   recoveryVars, history, faults>>

\* Defect: youngest generation first.
FlushAllSyncYoungestFirst ==
    /\ engine = "drain"
    /\ fl_pc = "idle"
    /\ engine' = "exit"
    /\ tables' = [tables EXCEPT !["flushing"] = tables["active"],
                                !["active"] = tables["flushing"]]
    /\ fl_gen' = 1
    /\ fl_pc' = "next"
    /\ UNCHANGED <<target, writes_stopped, deviceVars, logVars, fl_page,
                   recoveryVars, history, faults>>

FlushAllSync ==
    /\ engine = "drain"
    /\ fl_pc = "idle"
    /\ engine' = "exit"
    /\ fl_gen' = 1
    /\ fl_pc' = "next"
    /\ UNCHANGED <<target, writes_stopped, deviceVars, tables, logVars, fl_page,
                   recoveryVars, history, faults>>

\* An empty generation is skipped.
NextGeneration ==
    /\ fl_pc = "next"
    /\ fl_gen <= 3
    /\ IF Victim = Empty
         THEN fl_gen' = fl_gen + 1 /\ UNCHANGED fl_pc
         ELSE fl_pc' = "header" /\ UNCHANGED fl_gen
    /\ UNCHANGED <<target, writes_stopped, deviceVars, engine, tables, logVars,
                   fl_page, recoveryVars, history, faults>>

\* Nothing of the instance is left in memory.
Forget ==
    /\ engine' = "down"
    /\ target' = {} /\ writes_stopped' = FALSE
    /\ tables' = NoTables
    /\ sstables' = <<>> /\ meta_wp' = 1 /\ next_sst_seq' = 1
    /\ fl_pc' = "idle" /\ fl_gen' = 1 /\ fl_page' = 0
    /\ cursor' = 2 /\ latest' = Empty /\ restored' = 0

Exited ==
    /\ fl_pc = "next"
    /\ fl_gen = 4
    /\ Forget
    /\ kept' = TRUE
    /\ UNCHANGED <<deviceVars, acked, past, refused, faults>>

\* Defect: skip the generation that failed and write the younger ones.
LastFlushSkips ==
    /\ engine = "exit"
    /\ WriteFails
    /\ meta_wp' = meta_wp + Consumed
    /\ fl_pc' = "next"
    /\ fl_gen' = fl_gen + 1
    /\ UNCHANGED <<target, writes_stopped, deviceVars, engine, tables, sstables,
                   next_sst_seq, fl_page, recoveryVars, history, crashes>>

\* "Stop instead of skipping ahead": the younger generations are given up too.
LastFlushStops ==
    /\ engine = "exit"
    /\ WriteFails
    /\ Forget
    /\ kept' = FALSE
    /\ UNCHANGED <<deviceVars, acked, past, refused, crashes>>

\* Power loss or a panic: the device keeps what was written.
Crash ==
    /\ engine # "down"
    /\ crashes < MaxCrashes
    /\ crashes' = crashes + 1
    /\ Forget
    /\ kept' = (kept /\ engine \in {"scan", "rebuild"})
    /\ UNCHANGED <<deviceVars, acked, past, refused, errors>>

(***************************************************************************)
(* zns_engine_init()                                                       *)
(***************************************************************************)
\* Defect: any superblock will do.
MatchesAnySize(T) == zone[1].kind = "super"

\* zns_super_matches(): of what the superblock records only the size of the target
\* can change, the rest is the device's.
Matches(T) == zone[1] = Super(T)

\* zns_lsm_open_metadata() formats an empty zone, or resumes at the device's
\* write pointer.  A target of another size is refused, and nothing changes.
OpenMetadata(T) ==
    /\ engine = "down"
    /\ zone # <<>> => Matches(T)
    /\ zone' = IF zone = <<>> THEN <<Super(T)>> ELSE zone
    /\ meta_wp' = Len(zone') + 1
    /\ target' = T
    /\ engine' = "scan"
    /\ UNCHANGED <<written, writes_stopped, tables, sstables, next_sst_seq,
                   flushVars, recoveryVars, history, faults>>

\* The superblock cannot be written, or not be read.
OpenMetadataFails ==
    /\ engine = "down"
    /\ errors < MaxErrors
    /\ errors' = errors + 1
    /\ UNCHANGED <<deviceVars, target, writes_stopped, engine, tables, logVars,
                   flushVars, recoveryVars, history, crashes>>

\* zns_sst_load(): a header, and room for its payload below the write pointer.
Loadable ==
    /\ cursor < meta_wp
    /\ zone[cursor].kind = "header"
    /\ NrBlocks(zone[cursor].table) <= meta_wp - cursor

\* Defect: an adopted table does not raise next_sst_seq.
LoadSstableKeepsSeq ==
    /\ engine = "scan"
    /\ Loadable
    /\ sstables' = <<Sstable(cursor, zone[cursor])>> \o sstables
    /\ cursor' = cursor + NrBlocks(zone[cursor].table)
    /\ UNCHANGED <<target, writes_stopped, deviceVars, engine, tables, meta_wp,
                   next_sst_seq, flushVars, latest, restored, history, faults>>

\* Defect: list_add_tail(), so the oldest table is found first.
LoadSstableAtTail ==
    /\ engine = "scan"
    /\ Loadable
    /\ sstables' = Append(sstables, Sstable(cursor, zone[cursor]))
    /\ next_sst_seq' = IF zone[cursor].seq >= next_sst_seq
                         THEN zone[cursor].seq + 1 ELSE next_sst_seq
    /\ cursor' = cursor + NrBlocks(zone[cursor].table)
    /\ UNCHANGED <<target, writes_stopped, deviceVars, engine, tables, meta_wp,
                   flushVars, latest, restored, history, faults>>

\* zns_lsm_recover_sstables(): one turn of the loop.
LoadSstable ==
    /\ engine = "scan"
    /\ Loadable
    /\ sstables' = <<Sstable(cursor, zone[cursor])>> \o sstables
    /\ next_sst_seq' = IF zone[cursor].seq >= next_sst_seq
                         THEN zone[cursor].seq + 1 ELSE next_sst_seq
    /\ cursor' = cursor + NrBlocks(zone[cursor].table)
    /\ UNCHANGED <<target, writes_stopped, deviceVars, engine, tables, meta_wp,
                   flushVars, latest, restored, history, faults>>

\* The log ends, or what follows is no complete SSTable and is dropped.
EndScan ==
    /\ engine = "scan"
    /\ ~Loadable
    /\ engine' = "rebuild"
    /\ UNCHANGED <<target, writes_stopped, deviceVars, tables, logVars, flushVars,
                   recoveryVars, history, faults>>

\* The payload of a table of the list, as the CRC over it checks.  A header of
\* a later table in its place is refused as an entry already.
Intact(sst) ==
    \A k \in 1 .. NrBlocks(sst.table) - 1 :
        zone[sst.start + k] = Payload(sst.table, k)

\* Defect: the location is checked before the older copy is skipped.
RestorableCheckedFirst(m) ==
    /\ Entries(m) \subseteq target
    /\ \A b \in Entries(m) :
          /\ m[b] \in written
          /\ latest[b] = NoData => \A c \in LogicalBlocks \ {b} : Over(m, latest)[c] # m[b]

\* zns_lsm_gc_restore_entry(): a block must be the target's; one seen in a newer
\* table is skipped, a new one must be written and be nobody else's, of this table
\* or of a newer one.
Restorable(m) ==
    /\ Entries(m) \subseteq target
    /\ \A b \in Entries(m) : latest[b] = NoData =>
          /\ m[b] \in written
          /\ \A c \in LogicalBlocks \ {b} : Over(m, latest)[c] # m[b]

\* Defect: an older copy replaces the newer one.
RebuildOlderWins ==
    /\ engine = "rebuild"
    /\ restored < Len(sstables)
    /\ LET sst == sstables[restored + 1]
       IN  /\ Intact(sst)
           /\ Restorable(sst.table)
           /\ latest' = Over(latest, sst.table)
    /\ restored' = restored + 1
    /\ UNCHANGED <<target, writes_stopped, deviceVars, engine, tables, logVars,
                   flushVars, cursor, history, faults>>

\* Defect: the CRC of the payload is not compared.
RebuildUnchecked ==
    /\ engine = "rebuild"
    /\ restored < Len(sstables)
    /\ LET sst == sstables[restored + 1]
       IN  /\ Restorable(sst.table)
           /\ latest' = Over(sst.table, latest)
    /\ restored' = restored + 1
    /\ UNCHANGED <<target, writes_stopped, deviceVars, engine, tables, logVars,
                   flushVars, cursor, history, faults>>

\* zns_lsm_gc_rebuild(): one table of the list, newest first.
RebuildTable ==
    /\ engine = "rebuild"
    /\ restored < Len(sstables)
    /\ LET sst == sstables[restored + 1]
       IN  /\ Intact(sst)
           /\ Restorable(sst.table)
           /\ latest' = Over(sst.table, latest)
    /\ restored' = restored + 1
    /\ UNCHANGED <<target, writes_stopped, deviceVars, engine, tables, logVars,
                   flushVars, cursor, history, faults>>

\* -EINVAL: the target is not created.
RebuildRefused ==
    /\ engine = "rebuild"
    /\ restored < Len(sstables)
    /\ LET sst == sstables[restored + 1]
       IN  ~Intact(sst) \/ ~Restorable(sst.table)
    /\ Forget
    /\ refused' = TRUE
    /\ UNCHANGED <<deviceVars, acked, past, kept, faults>>

\* The target is created.  After a crash, or a last flush that failed, what it
\* finds is what it owes from now on.
Attached ==
    /\ engine = "rebuild"
    /\ restored = Len(sstables)
    /\ engine' = "up"
    /\ acked' = IF kept THEN acked ELSE OnDisk
    /\ kept' = FALSE
    /\ refused' = FALSE
    /\ UNCHANGED <<target, writes_stopped, deviceVars, tables, logVars, flushVars,
                   recoveryVars, past, faults>>

\* A read or an allocation fails: everything is freed, nothing has changed.
AttachFails ==
    /\ engine \in {"scan", "rebuild"}
    /\ errors < MaxErrors
    /\ errors' = errors + 1
    /\ Forget
    /\ UNCHANGED <<deviceVars, history, crashes>>

(***************************************************************************)
(* Specification                                                           *)
(***************************************************************************)
Serialize == WriteHeader \/ WritePage \/ TableWritten

Exit == FlushAllSync \/ NextGeneration \/ Exited \/ LastFlushStops

Attach ==
    \/ LoadSstable
    \/ EndScan
    \/ RebuildTable
    \/ RebuildRefused
    \/ Attached
    \/ AttachFails

Continue == ClaimFlushVictim \/ Serialize \/ FlushFails \/ Exit \/ Attach

Next ==
    \/ \E b \in LogicalBlocks, p \in PhysicalSectors :
          PublishWrite(b, p) \/ PublishRefused(b, p)
    \/ \E p \in PhysicalSectors : ResetZone(p)
    \/ Continue
    \/ Detach
    \/ Crash
    \/ \E T \in Targets : OpenMetadata(T)
    \/ OpenMetadataFails

Spec == Init /\ [][Next]_vars

\* What the kernel runs once it is started; requests, removals and creations
\* of targets are never assumed.
FairSpec == Spec /\ WF_vars(Continue)

(***************************************************************************)
(* Properties                                                              *)
(***************************************************************************)
Block == {Super(T) : T \in Targets}
    \cup {Header(m, s) : m \in Contents, s \in 1..MetaEnd}
    \cup {Payload(m, k) : m \in Contents, k \in 1..MetaEnd}

\* Every variable has its type; the metadata zone is never overrun.
TypeOK ==
    /\ zone \in Seq(Block) /\ Len(zone) <= MetaEnd
    /\ written \subseteq PhysicalSectors
    /\ target \in Targets \cup {{}}
    /\ writes_stopped \in BOOLEAN
    /\ engine \in {"down", "scan", "rebuild", "up", "drain", "exit"}
    /\ tables \in [{"flushing", "immutable", "active"} -> Contents]
    /\ sstables \in Seq([start : 2..MetaEnd, table : Contents, seq : 1..MetaEnd])
    /\ meta_wp \in 1 .. MetaEnd + 1
    /\ next_sst_seq \in 1 .. MetaEnd + 1
    /\ fl_pc \in {"idle", "claim", "header", "payload", "next"}
    /\ fl_gen \in 1..4
    /\ fl_page \in 0..MetaEnd
    /\ cursor \in 2 .. MetaEnd + 1
    /\ latest \in Contents
    /\ restored \in 0 .. Len(sstables)
    /\ acked \in Contents
    /\ past \subseteq Contents
    /\ kept \in BOOLEAN
    /\ refused \in BOOLEAN
    /\ crashes \in 0..MaxCrashes
    /\ errors \in 0..MaxErrors

\* "Mappings must survive a restart" (tests/integration/recovery.sh:2): a target
\* created after a removal that could write everything finds every mapping the
\* requests made, whichever generation held it; and so does every lookup while
\* the target runs.
MappingSurvives == engine = "up" => Newest = acked

\* A header at block c of the zone without all of the payload it announces.
Torn(c) ==
    /\ c \in 1..Len(zone)
    /\ zone[c].kind = "header"
    /\ \E k \in 1 .. NrBlocks(zone[c].table) - 1 :
          c + k > Len(zone) \/ zone[c + k] # Payload(zone[c].table, k)

\* Crashes and failed flushes, retried or left to the last flush, lose a mapping
\* that a completed removal had written in one way only: the scan stopped at a
\* torn table, and the mapping was appended behind it.
LostOnlyBehindTorn ==
    engine = "up" /\ Newest # acked => cursor < meta_wp /\ Torn(cursor)

\* A target whose removal wrote everything is refused for two reasons only: there
\* is a torn table in the log, which the scan adopts once a retry has written behind
\* it, or a torn data write left a mapping that the indexes cannot hold.
RefusedOnlyIfTorn ==
    kept /\ refused =>
        \/ \E c \in 1..Len(zone) : Torn(c)
        \/ \E b \in LogicalBlocks : acked[b] # NoData /\ acked[b] \notin written

\* The index garbage collection trusts is the mapping the reads find.
RebuiltAgrees ==
    engine = "rebuild" /\ restored = Len(sstables) => latest = OnDisk

\* A flush that failed half way leaves a header whose payload is missing; once a
\* retry has pushed the write pointer past it, the length check of zns_sst_load()
\* adopts it.  No target runs on such a table: zns_lsm_gc_rebuild() compares the
\* payload of every table with its CRC before the first lookup.
AdoptedIsWhole ==
    engine \in {"up", "drain", "exit"} =>
        \A i \in 1..Len(sstables) : Intact(sstables[i])

\* "Mappings must survive a restart. The engine has to persist whatever is still
\* resident when the target goes away, and find it again when a new target opens
\* the same media" (tests/integration/recovery.sh:2): without a fault, a target
\* whose removal wrote everything can be created again, although the log holds
\* tables into zones that were reset and the target was tried in other sizes.
\* With faults it may be refused for ever, in the cases of RefusedOnlyIfTorn.
CleanlyRemovedOpens == kept => ~refused

\* "refusing here would mean a metadata zone can be filled once and then never
\* opened again" (zns_lsm_open_metadata()): not even after a last flush that
\* found the metadata zone full.
FilledZoneOpens == ~refused

\* Whatever is lost to a crash or to a failed last flush is a suffix of the
\* writes: the mapping a new target finds is one there was, never a younger
\* generation without the older one below it.
RecoversThePast == engine = "up" => Newest \in past

\* Sequence numbers order the log, across instances too.
SequencesGrow ==
    \A i, j \in 1..Len(sstables) : i < j => sstables[j].seq < sstables[i].seq

\* Removing the target ends: the workqueue is drained although a full metadata
\* zone makes every flush fail.
DetachCompletes == engine = "drain" ~> engine = "down"
=============================================================================
