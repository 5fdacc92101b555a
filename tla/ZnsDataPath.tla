---------------------------- MODULE ZnsDataPath ----------------------------
(***************************************************************************)
(* The data path of the LSM engine: the ordered I/O worker that reads,     *)
(* read-modify-writes and appends blocks, the zoned allocator with its GC  *)
(* reserve and its resync after a failed write, the two GC indexes (latest *)
(* and gc_zones), foreground garbage collection, and the removal and       *)
(* creation of the target on the zones as the device reports them.         *)
(*                                                                         *)
(* One worker runs all of it and waits for every lower I/O, so its steps   *)
(* are the lower operations and the state changes between them; what makes *)
(* it hard is that any of them can fail half way.  The lookup structure is *)
(* the mapping of MappingStore (LsmMapping implements it), and it survives *)
(* a removal (LsmRecovery).                                                *)
(*                                                                         *)
(* A location is a pair of a data zone and the sector offset of a block in *)
(* it, write pointers are sector offsets.  A request is one fragment,      *)
(* sectors of one block: device-mapper splits at the block size            *)
(* (dm_set_target_max_io_len()), and a longer request is its fragments in  *)
(* turn up to the first that fails.                                        *)
(***************************************************************************)
EXTENDS Integers, FiniteSets, FiniteSetsExt

CONSTANTS LogicalBlocks,
          SectorsPerBlock,  \* lsm->sectors_per_block
          Data, Zero,       \* sector contents
          None,             \* an absent entry
          NrZones,          \* data zones, the reserve included
          Cap,              \* zone -> capacity in sectors
          Length,           \* sectors from one zone start to the next
          Policies,         \* the builds checked, by zns_gc_policy.name
          TornWrites,       \* may a failed write move a write pointer by less
                            \* than a block?
          MaxWorn           \* how many zones may become read-only

Zones   == 0 .. NrZones - 1
Sectors == 0 .. SectorsPerBlock - 1
Blocks  == [Sectors -> Data \cup {Zero}]
Locs    == UNION {{z} \X (0 .. Cap[z] - SectorsPerBlock) : z \in Zones}
Blank   == [s \in Sectors |-> Zero]

\* zns_engine_capacity(): what a target may be large, in sectors.
CapacityBlocks(z) == Cap[z] \div SectorsPerBlock

EngineCapacity ==
    SectorsPerBlock * (MapThenSumSet(CapacityBlocks, Zones)
                       - Max({CapacityBlocks(z) : z \in Zones}))

ASSUME DataPathAssumption ==
    /\ IsFiniteSet(LogicalBlocks)
    /\ SectorsPerBlock \in Nat \ {0}
    /\ NrZones \in Nat \ {0, 1}
    /\ Length \in Nat
    /\ Cap \in [Zones -> 1..Length]
    /\ None \notin LogicalBlocks
    /\ None \notin Locs
    /\ Policies \subseteq {"greedy", "simple", "none"}
    /\ TornWrites \in BOOLEAN
    /\ MaxWorn \in Nat
    /\ Cardinality(LogicalBlocks) * SectorsPerBlock <= EngineCapacity

VARIABLES
    policy,         \* chosen when the module is built, never changes
    dev_wp,         \* device: zone -> write pointer
    dev_data,       \* device: location -> block
    dev_worn,       \* device: the zones that became read-only
    alloc_wp,       \* allocator->zones[].write_pointer
    alloc_cond,     \* allocator->zones[].condition
    active_zone,
    reserve_zone,
    map,            \* the LSM mapping: block -> location
    latest,         \* lsm->latest
    rev,            \* gc_zones[].logical_blocks: location -> block
    nr_valid,       \* gc_zones[].nr_valid_blocks
    valid_blocks,
    writes_stopped,
    pc,             \* what the I/O worker does next
    req,            \* the block it writes
    buffer,         \* the contents it writes
    dest,           \* the location it wrote
    victim,         \* the zone it collects
    got             \* what the last request returned

devVars   == <<dev_wp, dev_data, dev_worn>>
allocVars == <<alloc_wp, alloc_cond, active_zone, reserve_zone>>
indexVars == <<latest, rev, nr_valid, valid_blocks>>
reqVars   == <<req, buffer, dest, victim>>
vars      == <<policy, devVars, allocVars, map, indexVars, writes_stopped,
               pc, reqVars, got>>

Init ==
    /\ policy \in Policies
    /\ dev_wp = [z \in Zones |-> 0]
    /\ dev_data = [l \in Locs |-> Blank]
    /\ dev_worn = {}
    /\ map = [b \in LogicalBlocks |-> None]
    /\ alloc_wp = [z \in Zones |-> 0]
    /\ alloc_cond = [z \in Zones |-> "writable"]
    /\ active_zone = 0
    /\ reserve_zone = None
    /\ latest = [b \in LogicalBlocks |-> None]
    /\ rev = [l \in Locs |-> None]
    /\ nr_valid = [z \in Zones |-> 0]
    /\ valid_blocks = 0
    /\ writes_stopped = FALSE
    /\ pc = "down"
    /\ req = None /\ buffer = Blank /\ dest = None /\ victim = None
    /\ got = <<>>

(***************************************************************************)
(* The zones of the device, as blkdev_report_zones() reports them.  EMPTY, *)
(* open and closed zones are "writable": what the code tells apart beyond  *)
(* that follows from the write pointer.                                    *)
(***************************************************************************)
Condition(z, wp) ==
    CASE z \in dev_worn -> "readonly"
      [] z \notin dev_worn /\ wp = Cap[z] -> "full"
      [] OTHER -> "writable"

\* A zone that takes no write has no valid write pointer; devices report it at
\* the end of the zone, past its capacity, or where it was.
ReportedWp(z, wp, at_end) ==
    IF at_end /\ Condition(z, wp) # "writable" THEN Length ELSE wp

\* The device takes a write at its write pointer only.
Takes(z) == z \notin dev_worn /\ dev_wp[z] = alloc_wp[z]

\* How far a failed write of one block may have moved the write pointer.
Moves == IF TornWrites THEN 0..SectorsPerBlock ELSE {0, SectorsPerBlock}

WearOut(z) ==
    /\ Cardinality(dev_worn) < MaxWorn
    /\ dev_worn' = dev_worn \cup {z}
    /\ UNCHANGED <<policy, dev_wp, dev_data, allocVars, map, indexVars,
                   writes_stopped, pc, reqVars, got>>

(***************************************************************************)
(* Allocator                                                               *)
(***************************************************************************)
\* Defect: off by one at the end of a zone.
CanAppendPastEnd(z) ==
    alloc_cond[z] = "writable" /\ alloc_wp[z] <= Cap[z]

\* zns_zone_can_append()
CanAppend(z) ==
    /\ alloc_cond[z] = "writable"
    /\ alloc_wp[z] <= Cap[z]
    /\ SectorsPerBlock <= Cap[z] - alloc_wp[z]

\* zns_allocator_has_space()
HasSpace == \E z \in Zones \ {reserve_zone} : CanAppend(z)

\* zns_allocator_alloc_zoned(): the first zone that can append, from the active
\* one round, the reserve excepted.  active_zone may stand one past the end.
Distance(z) ==
    LET a == IF active_zone = NrZones THEN 0 ELSE active_zone
    IN  IF z >= a THEN z - a ELSE z - a + NrZones

AllocZone ==
    CHOOSE z \in Zones \ {reserve_zone} :
        /\ CanAppend(z)
        /\ \A y \in Zones \ {reserve_zone} :
              CanAppend(y) => Distance(z) <= Distance(y)

\* The zone the allocator tries next once zone z was handed out up to wp.
NextActive(z, wp) == IF SectorsPerBlock > Cap[z] - wp THEN z + 1 ELSE z

\* zns_allocator_resync(): the report of zone z after the write at alloc_wp[z]
\* failed, the allocator standing one block further.
ResyncAccepts(z, wp, cond) ==
    /\ (z * Length + alloc_wp[z]) % SectorsPerBlock = 0
    /\ wp \in {alloc_wp[z], alloc_wp[z] + SectorsPerBlock}
    /\ cond # "readonly"
    /\ cond = "full" => wp = Cap[z]

(***************************************************************************)
(* GC policies: zns_gc_policy.select_victim()                              *)
(***************************************************************************)
\* zns_lsm_zone_free_blocks()
FreeBlocks(z) ==
    IF alloc_wp[z] > Cap[z] THEN 0 ELSE (Cap[z] - alloc_wp[z]) \div SectorsPerBlock

\* Defect: a victim must free more than one block.
CandidatesTooFew ==
    {z \in Zones \ {reserve_zone} :
        /\ alloc_cond[z] # "readonly"
        /\ ~CanAppend(z)
        /\ nr_valid[z] + 1 < CapacityBlocks(z)
        /\ nr_valid[z] <= FreeBlocks(reserve_zone)}

\* zns_lsm_gc_get_zone_info() as the policies test it.
Candidates ==
    {z \in Zones \ {reserve_zone} :
        /\ alloc_cond[z] # "readonly"
        /\ ~CanAppend(z)
        /\ nr_valid[z] < CapacityBlocks(z)
        /\ nr_valid[z] <= FreeBlocks(reserve_zone)}

\* greedy takes the first of the zones with the fewest live blocks, simple the
\* first zone, none nothing.
GreedyVictims ==
    {z \in Candidates :
        \A y \in Candidates : \/ nr_valid[z] < nr_valid[y]
                              \/ nr_valid[z] = nr_valid[y] /\ z <= y}

SimpleVictims == {z \in Candidates : \A y \in Candidates : z <= y}

Victims ==
    CASE policy = "greedy" -> GreedyVictims
      [] policy = "simple" -> SimpleVictims
      [] policy = "none"   -> {}

(***************************************************************************)
(* zns_lsm_publish_write(): the mapping, then the GC indexes.              *)
(***************************************************************************)
Zone(l)   == l[1]
Offset(l) == l[2]

\* zns_lsm_physical_to_gc_slot(): a whole block on the block grid of its zone,
\* below the write pointer, which a full zone does not have.
HasSlot(l, wp, cond) ==
    /\ Offset(l) % SectorsPerBlock = 0
    /\ Offset(l) < wp \/ cond = "full"

Written(l) == HasSlot(l, alloc_wp[Zone(l)], alloc_cond[Zone(l)])

\* The checks of zns_lsm_update_gc_block_location().
IndexAccepts(b, l, wp) ==
    /\ HasSlot(l, wp, alloc_cond[Zone(l)])
    /\ rev[l] = None
    /\ latest[b] # None => Written(latest[b]) /\ rev[latest[b]] = b

MoveCount(b, l) ==
    [z \in Zones |->
        nr_valid[z] + (IF z = Zone(l) THEN 1 ELSE 0)
                    - (IF latest[b] # None /\ z = Zone(latest[b]) THEN 1 ELSE 0)]

\* Defect: the previous copy stays valid.
UpdateKeepsOldCopy(b, l) ==
    /\ latest' = [latest EXCEPT ![b] = l]
    /\ rev' = [rev EXCEPT ![l] = b]
    /\ nr_valid' = MoveCount(b, l)
    /\ valid_blocks' = IF latest[b] = None THEN valid_blocks + 1 ELSE valid_blocks

\* Defect: the new slot does not get its reverse entry.
UpdateForgetsNewCopy(b, l) ==
    /\ latest' = [latest EXCEPT ![b] = l]
    /\ rev' = [m \in Locs |-> IF m = latest[b] THEN None ELSE rev[m]]
    /\ nr_valid' = MoveCount(b, l)
    /\ valid_blocks' = IF latest[b] = None THEN valid_blocks + 1 ELSE valid_blocks

UpdateIndexes(b, l) ==
    /\ latest' = [latest EXCEPT ![b] = l]
    /\ rev' = [m \in Locs |-> IF m = l THEN b
                              ELSE IF m = latest[b] THEN None ELSE rev[m]]
    /\ nr_valid' = MoveCount(b, l)
    /\ valid_blocks' = IF latest[b] = None THEN valid_blocks + 1 ELSE valid_blocks

\* wp is the allocator's write pointer of l's zone at that time.
PublishWrite(b, l, wp) ==
    /\ map' = [map EXCEPT ![b] = l]
    /\ IF IndexAccepts(b, l, wp)
         THEN UpdateIndexes(b, l) /\ UNCHANGED writes_stopped
         ELSE writes_stopped' = TRUE /\ UNCHANGED indexVars

(***************************************************************************)
(* Requests: zns_lsm_io_worker()                                           *)
(***************************************************************************)
Visible(b) == IF map[b] = None THEN Blank ELSE dev_data[map[b]]

\* zns_lsm_read() / zns_lsm_read_partial(), once the lower read succeeded.
Read(b) ==
    /\ pc = "idle"
    /\ got' = <<b, Visible(b)>>
    /\ UNCHANGED <<policy, devVars, allocVars, map, indexVars, writes_stopped,
                   pc, reqVars>>

Fragments == {S \in SUBSET Sectors :
                 \E first \in Sectors, last \in Sectors : S = first..last} \ {{}}

\* Defect: a partial write does not read the block first.
BeginWriteWithoutRead(b, S, d) ==
    /\ pc = "idle"
    /\ ~writes_stopped
    /\ req' = b
    /\ buffer' = [s \in Sectors |-> IF s \in S THEN d ELSE Zero]
    /\ got' = <<>>
    /\ pc' = "write"
    /\ UNCHANGED <<policy, devVars, allocVars, map, indexVars, writes_stopped,
                   dest, victim>>

\* zns_lsm_write_partial(): read the block, copy the fragment over it.  A whole
\* block needs no read.  The buffer is filled before garbage collection runs.
BeginWrite(b, S, d) ==
    /\ pc = "idle"
    /\ ~writes_stopped
    /\ req' = b
    /\ buffer' = [s \in Sectors |-> IF s \in S THEN d ELSE Visible(b)[s]]
    /\ got' = <<>>
    /\ pc' = "write"
    /\ UNCHANGED <<policy, devVars, allocVars, map, indexVars, writes_stopped,
                   dest, victim>>

EndRequest ==
    /\ pc' = "idle"
    /\ req' = None /\ buffer' = Blank /\ dest' = None /\ victim' = None
    /\ UNCHANGED got

\* zns_lsm_run_gc_if_needed(): there is room, should_gc() says no.
NoGcNeeded ==
    /\ pc = "write"
    /\ HasSpace
    /\ pc' = "append"
    /\ UNCHANGED <<policy, devVars, allocVars, map, indexVars, writes_stopped,
                   reqVars, got>>

SelectVictim ==
    /\ pc = "write"
    /\ ~HasSpace
    /\ \E z \in Victims : victim' = z
    /\ pc' = "gc"
    /\ UNCHANGED <<policy, devVars, allocVars, map, indexVars, writes_stopped,
                   req, buffer, dest, got>>

\* zns_lsm_gc_clean() gets no buffer: nothing has moved, writes go on.
NoGcBuffer ==
    /\ pc = "write"
    /\ ~HasSpace
    /\ Victims # {}
    /\ EndRequest
    /\ UNCHANGED <<policy, devVars, allocVars, map, indexVars, writes_stopped>>

\* Defect: wait for room instead of failing the request.
OutOfSpaceWaits ==
    /\ pc \in {"write", "append"}
    /\ ~HasSpace
    /\ pc = "write" => Victims = {}
    /\ UNCHANGED vars

\* -ENOSPC: nothing to collect, or still no room after a collection.
OutOfSpace ==
    /\ pc \in {"write", "append"}
    /\ ~HasSpace
    /\ pc = "write" => Victims = {}
    /\ EndRequest
    /\ UNCHANGED <<policy, devVars, allocVars, map, indexVars, writes_stopped>>

(***************************************************************************)
(* zns_lsm_gc_clean()                                                      *)
(***************************************************************************)
LiveSlots == {l \in Locs : Zone(l) = victim /\ rev[l] # None}

\* The loop over the slots of the victim, in slot order.
Source == CHOOSE l \in LiveSlots : \A m \in LiveSlots : Offset(l) <= Offset(m)

ReserveSlot == <<reserve_zone, alloc_wp[reserve_zone]>>

\* zns_lsm_gc_relocate_block(), every step of it successful.
GcMove ==
    /\ pc = "gc"
    /\ LiveSlots # {}
    /\ CanAppend(reserve_zone)
    /\ Takes(reserve_zone)
    /\ alloc_wp' = [alloc_wp EXCEPT ![reserve_zone] = @ + SectorsPerBlock]
    /\ dev_wp' = [dev_wp EXCEPT ![reserve_zone] = @ + SectorsPerBlock]
    /\ dev_data' = [dev_data EXCEPT ![ReserveSlot] = dev_data[Source]]
    /\ PublishWrite(rev[Source], ReserveSlot, alloc_wp'[reserve_zone])
    /\ IF writes_stopped' THEN EndRequest ELSE UNCHANGED <<pc, reqVars, got>>
    /\ UNCHANGED <<policy, dev_worn, alloc_cond, active_zone, reserve_zone>>

\* The lower read or the allocation fails (a = 0), or the lower write or the
\* publication (a = 1): the reserve may have lost a block on either side, and
\* writes stop.
GcMoveFails ==
    /\ pc = "gc"
    /\ LiveSlots # {}
    /\ \E a \in {0, 1}, d \in Moves :
          /\ a = 1 => CanAppend(reserve_zone)
          /\ d > 0 => a = 1 /\ Takes(reserve_zone)
          /\ alloc_wp' = [alloc_wp EXCEPT ![reserve_zone] = @ + a * SectorsPerBlock]
          /\ dev_wp' = [dev_wp EXCEPT ![reserve_zone] = @ + d]
    /\ writes_stopped' = TRUE
    /\ EndRequest
    /\ UNCHANGED <<policy, dev_data, dev_worn, alloc_cond, active_zone,
                   reserve_zone, map, indexVars>>

\* The device resets a zone that is not worn out.
ResetVictim ==
    /\ victim \notin dev_worn
    /\ dev_wp' = [dev_wp EXCEPT ![victim] = 0]
    /\ dev_data' = [l \in Locs |-> IF Zone(l) = victim THEN Blank ELSE dev_data[l]]

\* Defect: live blocks are not waited for.
GcResetEarly ==
    /\ pc = "gc"
    /\ ResetVictim
    /\ alloc_wp' = [alloc_wp EXCEPT ![victim] = 0]
    /\ alloc_cond' = [alloc_cond EXCEPT ![victim] = "writable"]
    /\ reserve_zone' = victim
    /\ victim' = None
    /\ pc' = "append"
    /\ UNCHANGED <<policy, dev_worn, active_zone, map, indexVars, writes_stopped, req,
                   buffer, dest, got>>

\* The victim is empty: reset it, and it becomes the new reserve.
GcReset ==
    /\ pc = "gc"
    /\ LiveSlots = {}
    /\ nr_valid[victim] = 0
    /\ ResetVictim
    /\ alloc_wp' = [alloc_wp EXCEPT ![victim] = 0]
    /\ alloc_cond' = [alloc_cond EXCEPT ![victim] = "writable"]
    /\ reserve_zone' = victim
    /\ victim' = None
    /\ pc' = "append"
    /\ UNCHANGED <<policy, dev_worn, active_zone, map, indexVars, writes_stopped, req,
                   buffer, dest, got>>

\* Live blocks are still counted, or the reset fails, whether or not the device
\* had done it: writes stop.
GcResetFails ==
    /\ pc = "gc"
    /\ LiveSlots = {}
    /\ \/ UNCHANGED <<dev_wp, dev_data>>
       \/ nr_valid[victim] = 0 /\ ResetVictim
    /\ writes_stopped' = TRUE
    /\ EndRequest
    /\ UNCHANGED <<policy, dev_worn, allocVars, map, indexVars>>

(***************************************************************************)
(* zns_lsm_append_write()                                                  *)
(***************************************************************************)
\* The lower write succeeds.
Append ==
    /\ pc = "append"
    /\ HasSpace
    /\ Takes(AllocZone)
    /\ LET z == AllocZone
           l == <<z, alloc_wp[z]>>
       IN  /\ dest' = l
           /\ dev_data' = [dev_data EXCEPT ![l] = buffer]
           /\ dev_wp' = [dev_wp EXCEPT ![z] = @ + SectorsPerBlock]
           /\ alloc_wp' = [alloc_wp EXCEPT ![z] = @ + SectorsPerBlock]
           /\ active_zone' = NextActive(z, alloc_wp'[z])
    /\ pc' = "publish"
    /\ UNCHANGED <<policy, dev_worn, alloc_cond, reserve_zone, map, indexVars,
                   writes_stopped, req, buffer, victim, got>>

\* Defect: a failed write is assumed not to have moved the write pointer.
AppendFailsRollsBack ==
    /\ pc = "append"
    /\ HasSpace
    /\ LET z == AllocZone
       IN  \E d \in Moves :
              /\ d > 0 => Takes(z)
              /\ dev_wp' = [dev_wp EXCEPT ![z] = @ + d]
              /\ active_zone' = z
    /\ EndRequest
    /\ UNCHANGED <<policy, dev_data, dev_worn, alloc_wp, alloc_cond,
                   reserve_zone, map, indexVars, writes_stopped>>

\* The lower write fails, but the zone report succeeds and
\* zns_allocator_resync() adopts it: writes go on.
AppendFails ==
    /\ pc = "append"
    /\ HasSpace
    /\ LET z == AllocZone
       IN  \E d \in Moves, at_end \in BOOLEAN :
              /\ d > 0 => Takes(z)
              /\ dev_wp' = [dev_wp EXCEPT ![z] = @ + d]
              /\ LET wp   == ReportedWp(z, dev_wp'[z], at_end)
                     cond == Condition(z, dev_wp'[z])
                 IN  /\ ResyncAccepts(z, wp, cond)
                     /\ alloc_wp' = [alloc_wp EXCEPT ![z] = wp]
                     /\ alloc_cond' = [alloc_cond EXCEPT ![z] = cond]
                     /\ active_zone' = NextActive(z, wp)
    /\ EndRequest
    /\ UNCHANGED <<policy, dev_data, dev_worn, reserve_zone, map, indexVars,
                   writes_stopped>>

\* ... or the report fails, or the resync refuses it: writes stay stopped.
AppendFailsStopped ==
    /\ pc = "append"
    /\ HasSpace
    /\ LET z == AllocZone
       IN  /\ \E d \in Moves :
                 /\ d > 0 => Takes(z)
                 /\ dev_wp' = [dev_wp EXCEPT ![z] = @ + d]
           /\ alloc_wp' = [alloc_wp EXCEPT ![z] = @ + SectorsPerBlock]
           /\ active_zone' = NextActive(z, alloc_wp'[z])
    /\ writes_stopped' = TRUE
    /\ EndRequest
    /\ UNCHANGED <<policy, dev_data, dev_worn, alloc_cond, reserve_zone, map,
                   indexVars>>

Publish ==
    /\ pc = "publish"
    /\ PublishWrite(req, dest, alloc_wp[Zone(dest)])
    /\ EndRequest
    /\ UNCHANGED <<policy, devVars, allocVars>>

\* xa_reserve() or memtable_put() failed: the written block is garbage.
PublishFails ==
    /\ pc = "publish"
    /\ EndRequest
    /\ UNCHANGED <<policy, devVars, allocVars, map, indexVars, writes_stopped>>

(***************************************************************************)
(* Removal and creation of the target.  The last flush of the removal has  *)
(* written every mapping: map is what the metadata zone holds (LsmRecovery *)
(* models a last flush that cannot, and a crash).                          *)
(***************************************************************************)
\* zns_allocator_exit(): the struct is zeroed, there is no reserve.
AllocatorExit ==
    /\ alloc_wp' = [z \in Zones |-> 0]
    /\ alloc_cond' = [z \in Zones |-> "writable"]
    /\ active_zone' = 0
    /\ reserve_zone' = None

\* zns_engine_exit(), the I/O workqueue drained.
Remove ==
    /\ pc = "idle"
    /\ AllocatorExit
    /\ latest' = [b \in LogicalBlocks |-> None]
    /\ rev' = [l \in Locs |-> None]
    /\ nr_valid' = [z \in Zones |-> 0]
    /\ valid_blocks' = 0
    /\ writes_stopped' = FALSE
    /\ pc' = "down"
    /\ req' = None /\ buffer' = Blank /\ dest' = None /\ victim' = None
    /\ got' = <<>>
    /\ UNCHANGED <<policy, devVars, map>>

\* What zns_engine_init() reads into the allocator.
ReportedWps(at_end) == [z \in Zones |-> ReportedWp(z, dev_wp[z], at_end)]
Conditions          == [z \in Zones |-> Condition(z, dev_wp[z])]

\* zns_allocator_init_zoned(): a copy of the zone table, the first zone active.
InitZoned(at_end) ==
    /\ alloc_wp' = ReportedWps(at_end)
    /\ alloc_cond' = Conditions
    /\ active_zone' = 0

\* zns_lsm_gc_restore_entry() of every mapping.
Restorable(wps) ==
    \A b \in LogicalBlocks : map[b] # None =>
        /\ HasSlot(map[b], wps[Zone(map[b])], Conditions[Zone(map[b])])
        /\ \A c \in LogicalBlocks \ {b} : map[c] # map[b]

\* The zones zns_allocator_set_reserve() accepts.
EmptyZones ==
    {z \in Zones : /\ Conditions[z] = "writable"
                   /\ SectorsPerBlock <= Cap[z]
                   /\ dev_wp[z] = 0}

\* Defect: the last zone becomes the reserve, empty or not.
CreateWithoutReserve ==
    /\ pc \in {"down", "refused"}
    /\ \E at_end \in BOOLEAN :
          /\ Restorable(ReportedWps(at_end))
          /\ InitZoned(at_end)
    /\ reserve_zone' = NrZones - 1
    /\ latest' = map
    /\ rev' = [l \in Locs |-> IF \E b \in LogicalBlocks : map[b] = l
                              THEN CHOOSE b \in LogicalBlocks : map[b] = l ELSE None]
    /\ nr_valid' = [z \in Zones |->
                       Cardinality({b \in LogicalBlocks : map[b] # None /\ Zone(map[b]) = z})]
    /\ valid_blocks' = Cardinality({b \in LogicalBlocks : map[b] # None})
    /\ pc' = "idle"
    /\ UNCHANGED <<policy, devVars, map, writes_stopped, reqVars, got>>

\* zns_engine_init(): the zone table, the allocator, the indexes rebuilt from
\* the log, and the highest empty zone as the reserve.
Create ==
    /\ pc \in {"down", "refused"}
    /\ EmptyZones # {}
    /\ \E at_end \in BOOLEAN :
          /\ Restorable(ReportedWps(at_end))
          /\ InitZoned(at_end)
    /\ reserve_zone' = Max(EmptyZones)
    /\ latest' = map
    /\ rev' = [l \in Locs |-> IF \E b \in LogicalBlocks : map[b] = l
                              THEN CHOOSE b \in LogicalBlocks : map[b] = l ELSE None]
    /\ nr_valid' = [z \in Zones |->
                       Cardinality({b \in LogicalBlocks : map[b] # None /\ Zone(map[b]) = z})]
    /\ valid_blocks' = Cardinality({b \in LogicalBlocks : map[b] # None})
    /\ pc' = "idle"
    /\ UNCHANGED <<policy, devVars, map, writes_stopped, reqVars, got>>

\* -EINVAL from the rebuild, or -ENOSPC without an empty zone.
CreateRefused ==
    /\ pc \in {"down", "refused"}
    /\ \/ EmptyZones = {}
       \/ \E at_end \in BOOLEAN : ~Restorable(ReportedWps(at_end))
    /\ pc' = "refused"
    /\ UNCHANGED <<policy, devVars, allocVars, map, indexVars, writes_stopped,
                   reqVars, got>>

(***************************************************************************)
(* Specification                                                           *)
(***************************************************************************)
Collect == SelectVictim \/ GcMove \/ GcMoveFails \/ GcReset \/ GcResetFails

Worker ==
    \/ NoGcNeeded
    \/ NoGcBuffer
    \/ OutOfSpace
    \/ Collect
    \/ Append
    \/ AppendFails
    \/ AppendFailsStopped
    \/ Publish
    \/ PublishFails

Request ==
    \E b \in LogicalBlocks :
        \/ Read(b)
        \/ \E S \in Fragments, d \in Data : BeginWrite(b, S, d)

Lifecycle == Remove \/ Create \/ CreateRefused

Next ==
    \/ Request
    \/ Worker
    \/ Lifecycle
    \/ \E z \in Zones : WearOut(z)

Spec == Init /\ [][Next]_vars

\* The workqueue runs a request it started; no further request is assumed.
FairSpec == Spec /\ WF_vars(Worker)

(***************************************************************************)
(* Properties                                                              *)
(***************************************************************************)
Created == pc \notin {"down", "refused"}

\* Every field of the engine, the allocator and the worker has its type.
TypeOK ==
    /\ policy \in Policies
    /\ dev_wp \in [Zones -> Nat] /\ \A z \in Zones : dev_wp[z] <= Cap[z]
    /\ dev_data \in [Locs -> Blocks]
    /\ dev_worn \subseteq Zones
    /\ alloc_wp \in [Zones -> 0..Length]
    /\ alloc_cond \in [Zones -> {"writable", "full", "readonly"}]
    /\ \A z \in Zones : alloc_cond[z] = "writable" => alloc_wp[z] <= Cap[z]
    /\ active_zone \in 0..NrZones
    /\ reserve_zone \in (IF Created THEN Zones ELSE {None})
    /\ map \in [LogicalBlocks -> Locs \cup {None}]
    /\ latest \in [LogicalBlocks -> Locs \cup {None}]
    /\ rev \in [Locs -> LogicalBlocks \cup {None}]
    /\ nr_valid \in [Zones -> Nat]
    /\ valid_blocks \in Nat
    /\ writes_stopped \in BOOLEAN
    /\ pc \in {"down", "refused", "idle", "write", "gc", "append", "publish"}
    /\ req \in LogicalBlocks \cup {None}
    /\ buffer \in Blocks
    /\ dest \in Locs \cup {None}
    /\ victim \in Zones \cup {None}
    /\ got \in {<<>>} \cup (LogicalBlocks \X Blocks)

\* "Both indexes must agree after each published write" (struct zns_lsm): latest
\* is the read mapping, gc_zones is its inverse, and both counters count it, in
\* an instance that was just created as well.
IndexesAgree == Created =>
    /\ latest = map
    /\ \A b \in LogicalBlocks : map[b] # None => rev[map[b]] = b
    /\ \A l \in Locs : rev[l] # None => map[rev[l]] = l
    /\ \A z \in Zones :
          nr_valid[z] = Cardinality({l \in Locs : Zone(l) = z /\ rev[l] # None})
    /\ valid_blocks = Cardinality({b \in LogicalBlocks : map[b] # None})

\* No mapping ever points at a block the device does not hold: not into a zone
\* that was reset, not past a write pointer, whatever failed on the way, and
\* whatever creation was tried in between.
MappedIsWritten ==
    \A b \in LogicalBlocks : map[b] # None =>
        Offset(map[b]) + SectorsPerBlock <= dev_wp[Zone(map[b])]

\* While writes are allowed, failed writes and resyncs included, the allocator's
\* write pointers are the device's and the GC reserve is empty outside a
\* collection, so the next collection can move a whole victim.
WritableIsConsistent ==
    Created /\ ~writes_stopped =>
        /\ \A z \in Zones : alloc_cond[z] = "writable" => alloc_wp[z] = dev_wp[z]
        /\ pc # "gc" => alloc_wp[reserve_zone] = 0
        /\ pc = "gc" => /\ victim # reserve_zone
                        /\ nr_valid[victim] <= FreeBlocks(reserve_zone)

\* An error in the GC bookkeeping (the -EINVAL exits of
\* zns_lsm_update_gc_block_location()) never happens on a device that writes
\* whole blocks: a published mapping is always accepted by the indexes.
IndexNeverRefuses ==
    pc = "publish" => IndexAccepts(req, dest, alloc_wp[Zone(dest)])

\* A write that finds no room is only refused when every zone but the reserve is
\* full of live blocks: on zones of equal capacity, a target smaller than
\* zns_engine_capacity() never answers -ENOSPC to an overwrite, no matter which
\* zone a creation set aside.
NeverOutOfSpace ==
    /\ pc = "write" /\ ~HasSpace => Victims # {}
    /\ pc = "append" => HasSpace

\* A target that still takes writes can be removed and created again at any
\* time; only a collection that stopped half way may leave no empty zone.
RefusedAfterStopOnly ==
    Created /\ pc # "gc" /\ (\/ EmptyZones = {}
                             \/ \E at_end \in BOOLEAN : ~Restorable(ReportedWps(at_end)))
        => writes_stopped /\ dev_wp[reserve_zone] > 0

\* "GC failed in zone %u: %d; writes stopped until recreation" (the message of
\* zns_lsm_gc_clean()): creating the target again brings writes back.
RecreationBringsWritesBack == pc # "refused"

\* A collection needs one pass over the slots of its victim, and room for its
\* live blocks only: every turn of the loop of zns_lsm_gc_clean() empties the
\* first live slot, leaves none at or before it, and costs one block of the
\* reserve.  (A zone that wears out meanwhile is a step of the device.)
GcTurnAdvances ==
    pc = "gc" /\ pc' = "gc" /\ dev_worn' = dev_worn =>
        /\ victim' = victim
        /\ nr_valid'[victim] = nr_valid[victim] - 1
        /\ FreeBlocks(reserve_zone)' = FreeBlocks(reserve_zone) - 1
        /\ \A l \in LiveSlots' : Offset(Source) < Offset(l)

CollectionAdvances == [][GcTurnAdvances]_vars

\* Every request completes: a collection ends and the write is done or refused.
RequestsComplete == pc \in {"write", "gc", "append", "publish"} ~> pc = "idle"

\* Appends, failed writes, collections and resets are invisible: a write changes
\* its sectors when it is published, or nothing at all.
Abstract == INSTANCE BlockDevice
    WITH disk <- [b \in LogicalBlocks |-> Visible(b)], got <- got

ImplementsBlockDevice == Abstract!Spec
=============================================================================
