\* Three threads on three blocks, four writes: two writes of one block and a
\* read of it side by side, the counter at the end of the target, a failed write
\* with others behind it, and a second target on the same device.
CONSTANTS
    Threads = {t1, t2, t3}
    DevBlocks = 3
    MaxWrites = 4
SPECIFICATION Spec
SYMMETRY ThreadSymmetry
INVARIANTS
    TypeOK
    SectorsExclusive
    ReadsAreRegular
    NoHole
