------------------------------ MODULE Append4k ------------------------------
(***************************************************************************)
(* The append4k and append4k-alloc engines below the device-mapper target: *)
(* one mapping entry per block, a sector for every write from a counter,   *)
(* and the bio sent on to the lower device.  Unlike the LSM engine they    *)
(* have no worker: zns_engine_map() runs in the threads that submit I/O,   *)
(* side by side, and the mapping is changed before the lower write is even *)
(* submitted.                                                              *)
(*                                                                         *)
(* Sectors are counted in blocks.  The lower device is one sequential zone *)
(* with one write pointer: the counter of either engine runs over it from  *)
(* front to back and knows of no zone.  A write puts its own number on the *)
(* media, so no two writes look alike.  REQ_OP_FLUSH is passed on and a    *)
(* target that cannot be created leaves nothing behind: neither changes    *)
(* any state.                                                              *)
(***************************************************************************)
EXTENDS Integers, FiniteSets

CONSTANTS Threads,    \* submit bios to the target
          DevBlocks,  \* bdev_nr_sectors(lower_bdev) in blocks
          MaxWrites   \* write bios submitted

ASSUME Append4kAssumption ==
    /\ DevBlocks \in Nat \ {0}
    /\ MaxWrites \in Nat

Slots     == 0 .. DevBlocks - 1
Zero      == 0     \* what a block reads as before its first write
Unwritten == -1    \* what the device returns for a sector this target never
                   \* wrote: nothing, or what an earlier target left there
Unmapped  == -1    \* ZNS_APPEND4K_UNMAPPED

\* A bio: its block, and whether it is exactly that block.  Device-mapper
\* splits at the block size, so a bio is never longer.
Bios == [block : 0..DevBlocks, whole : BOOLEAN]

VARIABLES
    engine,        \* the build, never changes
    len,           \* ti->len in blocks, 0 without a target
    addr_mapping,
    next_sector,   \* next_append_sector, allocator.next_sector
    pc,            \* thread -> what happens to its bio next
    block,         \* thread -> the block of its bio
    sector,        \* thread -> the physical sector of its bio
    wp,            \* device: the write pointer of its one zone
    data,          \* device: sector -> the write it holds
    writes,        \* history: write bios so far
    id,            \* history: thread -> the number of its write
    may,           \* history: block -> the writes it may show
    old,           \* history: thread -> the writes its own supersedes
    failed,        \* history: the writes that failed below
    legal,         \* history: thread -> what its read may return
    wp0,           \* history: the write pointer at creation
    born           \* history: the last write before creation

devVars  == <<wp, data>>
histVars == <<writes, id, may, old, failed, legal, wp0, born>>
vars     == <<engine, len, addr_mapping, next_sector, pc, block, sector,
              devVars, histVars>>

Idle(t)    == pc[t] \in {"idle", "killed"}
Writing(b) == {t \in Threads : pc[t] \in {"store", "write"} /\ block[t] = b}

Init ==
    /\ engine \in {"append4k", "append4k-alloc"}
    /\ len = 0
    /\ addr_mapping = [b \in Slots |-> Unmapped]
    /\ next_sector = 0
    /\ pc = [t \in Threads |-> "idle"]
    /\ block = [t \in Threads |-> 0]
    /\ sector = [t \in Threads |-> 0]
    /\ wp = 0
    /\ data = [s \in Slots |-> Unwritten]
    /\ writes = 0
    /\ id = [t \in Threads |-> 0]
    /\ may = [b \in Slots |-> {Zero}]
    /\ old = [t \in Threads |-> {}]
    /\ failed = {}
    /\ legal = [t \in Threads |-> {}]
    /\ wp0 = 0
    /\ born = 0

(***************************************************************************)
(* The target                                                              *)
(***************************************************************************)
\* zns_engine_init() and zns_engine_exit(): the mapping lives in memory only.
EngineInit ==
    /\ addr_mapping' = [b \in Slots |-> Unmapped]
    /\ next_sector' = 0

EngineExit ==
    /\ addr_mapping' = [b \in Slots |-> Unmapped]
    /\ next_sector' = 0

\* zns_base_ctr(): the target may be smaller than the device, and its length is
\* the number of logical and of physical blocks of the engine.
Ctr(n) ==
    /\ len = 0
    /\ n # 0 /\ n <= DevBlocks
    /\ len' = n
    /\ EngineInit
    /\ may' = [b \in Slots |-> {Zero}]
    /\ failed' = {}
    /\ wp0' = wp
    /\ born' = writes
    /\ UNCHANGED <<engine, pc, block, sector, devVars, writes, id, old, legal>>

\* zns_base_dtr(), once device-mapper has seen every bio end.
Dtr ==
    /\ len # 0
    /\ \A t \in Threads : Idle(t)
    /\ len' = 0
    /\ EngineExit
    /\ UNCHANGED <<engine, pc, block, sector, devVars, histVars>>

(***************************************************************************)
(* zns_engine_map()                                                        *)
(***************************************************************************)
\* zns_append4k_is_aligned_io() and the bound check behind it.
IsAlignedIo(bio) == bio.whole /\ bio.block < len

\* Defect: one block too many.
HasRoomPastEnd == next_sector <= len

\* The space checks of zns_append4k_write() and zns_allocator_alloc().
HasRoom == next_sector < len

\* Defect: the allocator starts over at the end.
AfterNextWraps == (next_sector + 1) % len

AfterNext == next_sector + 1

Kill(t) ==
    /\ pc' = [pc EXCEPT ![t] = "killed"]
    /\ UNCHANGED <<engine, len, addr_mapping, next_sector, block, sector, devVars,
                   histVars>>

\* -EINVAL and -ENOSPC; any operation but a read, a write and a flush.
KillRead(t, bio)  == Idle(t) /\ ~IsAlignedIo(bio) /\ Kill(t)
KillWrite(t, bio) == Idle(t) /\ (~IsAlignedIo(bio) \/ ~HasRoom) /\ Kill(t)

Legal(b) ==
    may[b] \cup (IF may[b] \cap (failed \cup {id[t] : t \in Writing(b)}) # {}
                 THEN {Unwritten} ELSE {})

\* A write of block b starts: what it supersedes once it has succeeded is what
\* had ended before.
NoteWrite(t, b) ==
    /\ writes < MaxWrites
    /\ writes' = writes + 1
    /\ id' = [id EXCEPT ![t] = writes']
    /\ may' = [may EXCEPT ![b] = @ \cup {writes'}]
    /\ old' = [old EXCEPT ![t] = may[b] \ {id[u] : u \in Writing(b)}]
    /\ legal' = [u \in Threads |-> IF pc[u] = "read" /\ block[u] = b
                                   THEN legal[u] \cup {writes', Unwritten}
                                   ELSE legal[u]]
    /\ UNCHANGED <<failed, wp0, born>>

\* The first critical section takes a sector ...
Allocate(t, bio) ==
    /\ Idle(t)
    /\ IsAlignedIo(bio)
    /\ HasRoom
    /\ sector' = [sector EXCEPT ![t] = next_sector]
    /\ next_sector' = AfterNext
    /\ block' = [block EXCEPT ![t] = bio.block]
    /\ NoteWrite(t, bio.block)

\* ... and in append4k maps it,
AllocAndMap(t, bio) ==
    /\ engine = "append4k"
    /\ Allocate(t, bio)
    /\ addr_mapping' = [addr_mapping EXCEPT ![bio.block] = sector'[t]]
    /\ pc' = [pc EXCEPT ![t] = "write"]
    /\ UNCHANGED <<engine, len, devVars>>

\* while append4k-alloc leaves that lock of zns_allocator_alloc()
Alloc(t, bio) ==
    /\ engine = "append4k-alloc"
    /\ Allocate(t, bio)
    /\ pc' = [pc EXCEPT ![t] = "store"]
    /\ UNCHANGED <<engine, len, addr_mapping, devVars>>

\* Defect: a block that is mapped keeps its sector.
StoreMappingOnce(t) ==
    /\ pc[t] = "store"
    /\ addr_mapping' = [addr_mapping EXCEPT ![block[t]] =
                           IF @ = Unmapped THEN sector[t] ELSE @]
    /\ pc' = [pc EXCEPT ![t] = "write"]
    /\ UNCHANGED <<engine, len, next_sector, block, sector, devVars, histVars>>

\* before it takes mapping_lock.
StoreMapping(t) ==
    /\ pc[t] = "store"
    /\ addr_mapping' = [addr_mapping EXCEPT ![block[t]] = sector[t]]
    /\ pc' = [pc EXCEPT ![t] = "write"]
    /\ UNCHANGED <<engine, len, next_sector, block, sector, devVars, histVars>>

\* zns_append4k_read(): a mapped block is read from its sector, an unmapped one
\* is filled with zeroes and done.
ReadMapped(t, bio) ==
    /\ Idle(t)
    /\ IsAlignedIo(bio)
    /\ addr_mapping[bio.block] # Unmapped
    /\ sector' = [sector EXCEPT ![t] = addr_mapping[bio.block]]
    /\ block' = [block EXCEPT ![t] = bio.block]
    /\ pc' = [pc EXCEPT ![t] = "read"]
    /\ legal' = [legal EXCEPT ![t] = Legal(bio.block)]
    /\ UNCHANGED <<engine, len, addr_mapping, next_sector, devVars, writes, id,
                   may, old, failed, wp0, born>>

(***************************************************************************)
(* The lower device                                                        *)
(***************************************************************************)
End(t) ==
    /\ pc' = [pc EXCEPT ![t] = "idle"]
    /\ block' = [block EXCEPT ![t] = 0]
    /\ sector' = [sector EXCEPT ![t] = 0]
    /\ id' = [id EXCEPT ![t] = 0]
    /\ old' = [old EXCEPT ![t] = {}]
    /\ legal' = [legal EXCEPT ![t] = {}]
    /\ UNCHANGED <<engine, len, addr_mapping, next_sector, writes, wp0, born>>

DeviceReads(t) ==
    /\ pc[t] = "read"
    /\ End(t)
    /\ UNCHANGED <<devVars, may, failed>>

\* A write is taken at the write pointer only, whichever bio arrives first.
DeviceWrites(t) ==
    /\ pc[t] = "write"
    /\ sector[t] = wp
    /\ wp' = wp + 1
    /\ data' = [data EXCEPT ![wp] = id[t]]
    /\ may' = [may EXCEPT ![block[t]] = @ \ old[t]]
    /\ End(t)
    /\ UNCHANGED failed

\* The device refuses a bio that overtook another one, and it may fail any bio,
\* after it wrote the block or before.  The engine never learns of it.
DeviceFails(t) ==
    /\ pc[t] = "write"
    /\ \/ UNCHANGED devVars
       \/ /\ sector[t] = wp
          /\ wp' = wp + 1
          /\ data' = [data EXCEPT ![wp] = id[t]]
    /\ failed' = failed \cup {id[t]}
    /\ End(t)
    /\ UNCHANGED may

\* blkzone reset of scripts/build-run.sh, between two targets.
ResetZones ==
    /\ len = 0
    /\ wp' = 0
    /\ data' = [s \in Slots |-> Unwritten]
    /\ UNCHANGED <<engine, len, addr_mapping, next_sector, pc, block, sector, histVars>>

Map(t, bio) ==
    \/ KillRead(t, bio)
    \/ KillWrite(t, bio)
    \/ AllocAndMap(t, bio)
    \/ Alloc(t, bio)
    \/ ReadMapped(t, bio)

Next ==
    \/ \E n \in 0..DevBlocks : Ctr(n)
    \/ Dtr
    \/ ResetZones
    \/ \E t \in Threads :
          \/ len # 0 /\ \E bio \in Bios : Map(t, bio)
          \/ StoreMapping(t)
          \/ DeviceReads(t)
          \/ DeviceWrites(t)
          \/ DeviceFails(t)

Spec == Init /\ [][Next]_vars

(***************************************************************************)
(* Properties                                                              *)
(***************************************************************************)
\* Every variable has its type: no sector past the end of the target is handed
\* out or mapped.
TypeOK ==
    /\ engine \in {"append4k", "append4k-alloc"}
    /\ len \in 0..DevBlocks
    /\ addr_mapping \in [Slots -> Slots \cup {Unmapped}]
    /\ next_sector \in 0..len
    /\ pc \in [Threads -> {"idle", "killed", "store", "write", "read"}]
    /\ block \in [Threads -> Slots]
    /\ sector \in [Threads -> Slots]
    /\ wp \in 0..DevBlocks
    /\ data \in [Slots -> 1..MaxWrites \cup {Unwritten}]
    /\ writes \in 0..MaxWrites
    /\ id \in [Threads -> 0..MaxWrites]
    /\ may \in [Slots -> SUBSET (0..MaxWrites)]
    /\ old \in [Threads -> SUBSET (0..MaxWrites)]
    /\ failed \subseteq 1..MaxWrites
    /\ legal \in [Threads -> SUBSET (-1..MaxWrites)]
    /\ wp0 \in 0..DevBlocks
    /\ born \in 0..MaxWrites

Owned(t) == pc[t] \in {"store", "write"}

\* No two blocks share a sector, and the sector of a write under way belongs to
\* that write alone until it ends, the time between the two critical sections of
\* append4k-alloc included.
SectorsExclusive ==
    /\ \A b, c \in Slots : b # c /\ addr_mapping[b] # Unmapped
                             => addr_mapping[b] # addr_mapping[c]
    /\ \A t \in Threads : Owned(t) =>
          /\ sector[t] < next_sector
          /\ \A u \in Threads \ {t} : Owned(u) => sector[u] # sector[t]
          /\ \A b \in Slots : addr_mapping[b] = sector[t] => b = block[t]

Contents(s) == IF data[s] > born THEN data[s] ELSE Unwritten

\* A read returns the last write of its block that had ended, or one that
\* overlapped the read or that write, however the threads interleave and the
\* lower bios overtake each other.  Only a failed or an overlapping write may
\* show a sector that this target has not written.
ReadsAreRegular ==
    /\ len # 0 => \A b \in Slots :
          (IF addr_mapping[b] = Unmapped THEN Zero ELSE Contents(addr_mapping[b]))
              \in Legal(b)
    /\ \A t \in Threads : pc[t] = "read" => Contents(sector[t]) \in legal[t]

\* As long as no lower write failed, a target on a device that was reset leaves no
\* hole: with one zone over the whole device, the sectors between its write pointer
\* and the engine's counter are those of the writes under way.
NoHole ==
    len # 0 /\ wp0 = 0 /\ failed = {} =>
        wp .. next_sector - 1 = {sector[t] : t \in {u \in Threads : Owned(u)}}
=============================================================================
