\* Three blocks on three zones of two: one block less than
\* zns_engine_capacity(), the fullest target that is never out of space.
CONSTANTS
    LogicalBlocks = {b1, b2, b3}
    SectorsPerBlock = 1
    Data = {d1}
    Zero = Zero
    None = None
    NrZones = 3
    Cap <- ThreeByTwo
    Length = 3
    Policies = {"greedy", "simple"}
    TornWrites = FALSE
    MaxWorn = 0
SPECIFICATION Spec
SYMMETRY BlockSymmetry
INVARIANTS
    IndexesAgree
    WritableIsConsistent
    IndexNeverRefuses
    NeverOutOfSpace
    RefusedAfterStopOnly
PROPERTIES
    CollectionAdvances
