---------------------------- MODULE BlockDevice ----------------------------
(***************************************************************************)
(* What the target promises to the block layer: an array of blocks of      *)
(* sectors.  A write of some sectors of a block takes effect as a whole or *)
(* not at all and touches no other sector; a read returns what the block   *)
(* holds.  Appending, garbage collection and zone resets are invisible.    *)
(***************************************************************************)

CONSTANTS LogicalBlocks,  \* block numbers
          Sectors,        \* sectors of a block
          Data,           \* sector contents
          Zero            \* what a never written sector reads as

VARIABLES disk,  \* block -> sector -> contents
          got    \* what the last completed request returned, or <<>>

vars == <<disk, got>>

Init ==
    /\ disk = [b \in LogicalBlocks |-> [s \in Sectors |-> Zero]]
    /\ got = <<>>

WriteSectors(b, S, d) ==
    /\ disk' = [disk EXCEPT ![b] = [s \in Sectors |-> IF s \in S THEN d ELSE @[s]]]
    /\ got' = <<>>

ReadBlock(b) ==
    /\ got' = <<b, disk[b]>>
    /\ UNCHANGED disk

\* A request that fails returns nothing and changes nothing.
Fail ==
    /\ got' = <<>>
    /\ UNCHANGED disk

Next ==
    \/ Fail
    \/ \E b \in LogicalBlocks :
          \/ ReadBlock(b)
          \/ \E S \in SUBSET Sectors, d \in Data : WriteSectors(b, S, d)

Spec == Init /\ [][Next]_vars
=============================================================================
