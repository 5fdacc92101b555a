\* All pairs of tables over six blocks, two entries to a payload block: tables of
\* one to three payload blocks, full and padded, overlapping in every way.
CONSTANTS
    MaxKey = 5
    EntriesPerBlock = 2
    MaxTables = 2
    None = None
SPECIFICATION FairSpec
INVARIANTS
    TypeOK
    FindsNewest
    TablesTile
    NeverNarrowedAway
PROPERTIES
    TurnsShrink
    LookupEnds
