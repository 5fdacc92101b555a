\* One block, two sectors: up to two generations of SSTables in the log, with
\* failed attempts between them, below the generations still in memory.  No
\* symmetry: one property is a liveness property.
CONSTANTS
    LogicalBlocks = {b1}
    PhysicalSectors = {p1, p2}
    NoData = NoData
    Tables = {t1, t2, t3, t4, t5}
    NULL = NULL
    MemtableThreshold = 1
    EntriesPerBlock = 1
    MetaEnd = 6
    TornWrites = FALSE
SPECIFICATION FairSpec
INVARIANTS
    NoLostFlush
    LogOrdered
    WorkerState
    MetaWpTracksDevice
PROPERTIES
    ImplementsMappingStore
    FrozenIsFlushed
