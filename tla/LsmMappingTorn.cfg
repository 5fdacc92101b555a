\* A metadata write may fail and still move the device's write pointer.
CONSTANTS
    LogicalBlocks = {b1}
    PhysicalSectors = {p1}
    NoData = NoData
    Tables = {t1, t2, t3, t4, t5}
    NULL = NULL
    MemtableThreshold = 1
    EntriesPerBlock = 1
    MetaEnd = 6
    TornWrites = TRUE
SPECIFICATION Spec
INVARIANTS
    MetaWpTracksDevice
