\* A lower write or a zone reset may fail inside a collection.
CONSTANTS
    LogicalBlocks = {b1, b2, b3}
    SectorsPerBlock = 1
    Data = {d1}
    Zero = Zero
    None = None
    NrZones = 3
    Cap <- ThreeByTwo
    Length = 3
    Policies = {"greedy", "simple"}
    TornWrites = FALSE
    MaxWorn = 0
SPECIFICATION Spec
SYMMETRY BlockSymmetry
INVARIANTS
    RecreationBringsWritesBack
