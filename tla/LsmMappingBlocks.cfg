\* Two blocks, two sectors: tables that cover different blocks shadow each
\* other, and compaction merges them.  Five addresses are all the engine can
\* hold at once: active, immutable, flushing, and the two of a compaction.
\* The metadata zone takes one SSTable of two entries.
CONSTANTS
    LogicalBlocks = {b1, b2}
    PhysicalSectors = {p1, p2}
    NoData = NoData
    Tables = {t1, t2, t3, t4, t5}
    NULL = NULL
    MemtableThreshold = 1
    EntriesPerBlock = 1
    MetaEnd = 4
    TornWrites = FALSE
SPECIFICATION Spec
SYMMETRY BlockSymmetry
INVARIANTS
    TypeOK
    HeapSafety
PROPERTIES
    ImplementsMappingStore
