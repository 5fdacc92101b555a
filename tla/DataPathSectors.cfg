\* Two blocks of two sectors with two contents on zones of four and five
\* sectors, as large a target as zns_engine_capacity() allows: partial writes,
\* overwrites, collections, torn writes, a zone that wears out, removals and
\* creations, and writes without room, in every order.
CONSTANTS
    LogicalBlocks = {b1, b2}
    SectorsPerBlock = 2
    Data = {d1, d2}
    Zero = Zero
    None = None
    NrZones = 2
    Cap <- FourAndFive
    Length = 6
    Policies = {"greedy", "none"}
    TornWrites = TRUE
    MaxWorn = 1
SPECIFICATION FairSpec
INVARIANTS
    TypeOK
    MappedIsWritten
PROPERTIES
    ImplementsBlockDevice
    RequestsComplete
