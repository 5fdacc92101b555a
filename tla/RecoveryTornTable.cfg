\* One failed metadata write, no crash.  A table of three payload blocks is torn;
\* what a later instance appends behind it is shorter than what is missing.
CONSTANTS
    LogicalBlocks = {b1, b2, b3}
    PhysicalSectors = {p1, p2, p3, p4}
    Targets = {{b1, b2, b3}}
    NoData = NoData
    MemtableThreshold = 3
    EntriesPerBlock = 1
    MetaEnd = 9
    MaxCrashes = 0
    MaxErrors = 1
    Resets = FALSE
    TornData = FALSE
SPECIFICATION Spec
SYMMETRY BlockSymmetry
VIEW WithoutPast
INVARIANTS
    MappingSurvives
