--------------------------- MODULE MCLsmRecovery ---------------------------
(* Model-checking instances of LsmRecovery. *)
EXTENDS LsmRecovery, TLC

\* Everything but past, for the runs whose properties do not read it.
WithoutPast == <<zone, written, target, writes_stopped, engine, tables,
                 sstables, meta_wp, next_sst_seq, fl_pc, fl_gen, fl_page,
                 cursor, latest, restored, acked, kept, refused, crashes, errors>>

BlockSymmetry == Permutations(LogicalBlocks) \cup Permutations(PhysicalSectors)
=============================================================================
