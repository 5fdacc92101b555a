\* Removal and creation over and over, garbage collection resetting zones, no
\* fault: two blocks, three sectors, a log that holds three tables and fills up.
CONSTANTS
    LogicalBlocks = {b1, b2}
    PhysicalSectors = {p1, p2, p3}
    Targets = {{b1}, {b2}, {b1, b2}}
    NoData = NoData
    MemtableThreshold = 1
    EntriesPerBlock = 1
    MetaEnd = 7
    MaxCrashes = 0
    MaxErrors = 0
    Resets = TRUE
    TornData = FALSE
SPECIFICATION Spec
SYMMETRY BlockSymmetry
VIEW WithoutPast
INVARIANTS
    TypeOK
    MappingSurvives
    RebuiltAgrees
    CleanlyRemovedOpens
    SequencesGrow
