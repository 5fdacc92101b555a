---------------------------- MODULE MappingStore ----------------------------
(***************************************************************************)
(* What the LSM mapping of the engine promises to the ordered I/O worker:  *)
(* one total map from logical blocks to physical sectors.  A write that    *)
(* completed is what every later lookup returns, whatever the memtables,   *)
(* the background flush and the SSTable log are doing underneath.          *)
(***************************************************************************)

CONSTANTS LogicalBlocks,    \* keys of the mapping
          PhysicalSectors,  \* values of the mapping
          NoData            \* the -ENODATA answer: never written

VARIABLES map,  \* the mapping
          got   \* what the last operation returned: <<block, sector>>, or <<>>

vars == <<map, got>>

Values == PhysicalSectors \cup {NoData}

TypeOK ==
    /\ map \in [LogicalBlocks -> Values]
    /\ got \in {<<>>} \cup (LogicalBlocks \X Values)

Init ==
    /\ map = [b \in LogicalBlocks |-> NoData]
    /\ got = <<>>

Put(b, p) ==
    /\ map' = [map EXCEPT ![b] = p]
    /\ got' = <<>>

Get(b) ==
    /\ got' = <<b, map[b]>>
    /\ UNCHANGED map

Next ==
    \E b \in LogicalBlocks :
        \/ Get(b)
        \/ \E p \in PhysicalSectors : Put(b, p)

Spec == Init /\ [][Next]_vars
=============================================================================
