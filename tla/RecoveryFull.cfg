\* No fault at all: the metadata zone fills up.
CONSTANTS
    LogicalBlocks = {b1}
    PhysicalSectors = {p1, p2, p3}
    Targets = {{b1}}
    NoData = NoData
    MemtableThreshold = 1
    EntriesPerBlock = 1
    MetaEnd = 4
    MaxCrashes = 0
    MaxErrors = 0
    Resets = TRUE
    TornData = FALSE
SPECIFICATION Spec
SYMMETRY BlockSymmetry
VIEW WithoutPast
INVARIANTS
    FilledZoneOpens
