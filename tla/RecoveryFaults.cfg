\* A crash, failed writes or allocations and a refused location at any point, no
\* zone reset, and a log that may fill up.  No symmetry: one property is a
\* liveness property.
CONSTANTS
    LogicalBlocks = {b1, b2}
    PhysicalSectors = {p1, p2, p3}
    Targets = {{b1}, {b1, b2}}
    NoData = NoData
    MemtableThreshold = 1
    EntriesPerBlock = 1
    MetaEnd = 7
    MaxCrashes = 1
    MaxErrors = 2
    Resets = FALSE
    TornData = TRUE
SPECIFICATION FairSpec
INVARIANTS
    RecoversThePast
    LostOnlyBehindTorn
    RefusedOnlyIfTorn
    AdoptedIsWhole
PROPERTIES
    DetachCompletes
