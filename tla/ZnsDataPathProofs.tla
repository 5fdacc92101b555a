------------------------- MODULE ZnsDataPathProofs -------------------------
(***************************************************************************)
(* Theorems about ZnsDataPath, for any number of blocks, zones and sectors *)
(* and any zone capacities: no mapping points at a block the device does   *)
(* not hold, the allocator and the device agree while writes are allowed,  *)
(* the two GC indexes agree with the mapping, and the data path implements *)
(* BlockDevice.                                                            *)
(***************************************************************************)
EXTENDS ZnsDataPath, LeastNumber, FiniteSetTheorems, TLAPS

(***************************************************************************)
(* The inductive invariant                                                 *)
(***************************************************************************)
Busy == pc \in {"write", "gc", "append", "publish"}

\* The contents d of the sectors in S over those of block b.
Merged(b, S, d) == [s \in Sectors |-> IF s \in S THEN d ELSE Visible(b)[s]]

\* What the worker carries from one step of a request to the next is still true
\* when it is used: the buffer holds the block as it is plus the sectors written,
\* and the block written last holds the buffer, for nobody else.
WorkerOK ==
    /\ Busy => /\ ~writes_stopped
               /\ req \in LogicalBlocks
               /\ got = <<>>
               /\ \E S \in SUBSET Sectors, d \in Data : buffer = Merged(req, S, d)
    /\ pc = "gc" => victim \in Zones /\ SectorsPerBlock <= Cap[victim]
    /\ pc = "publish" => /\ dest \in Locs
                         /\ dev_data[dest] = buffer
                         /\ Offset(dest) + SectorsPerBlock <= dev_wp[Zone(dest)]
                         /\ \A b \in LogicalBlocks : map[b] # dest

\* While writes are allowed no zone of the allocator is behind the device, and a
\* victim's blocks can go to the reserve.
AllocatorOK ==
    /\ Created => SectorsPerBlock <= Cap[reserve_zone]
    /\ Created /\ ~writes_stopped =>
          /\ alloc_cond[reserve_zone] = "writable"
          /\ \A z \in Zones : dev_wp[z] <= alloc_wp[z]

\* The indexes agree until a publication is refused by one of them.
AgreeUntilStopped == writes_stopped \/ IndexesAgree

\* On a device that writes whole blocks, everything lies on the block grid and no
\* publication is refused.
WholeBlocks ==
    ~TornWrites =>
        /\ \A z \in Zones : dev_wp[z] % SectorsPerBlock = 0
        /\ Created => \A b \in LogicalBlocks :
                         map[b] # None => Offset(map[b]) % SectorsPerBlock = 0
        /\ pc = "publish" => Offset(dest) % SectorsPerBlock = 0
        /\ IndexesAgree

WornBound == MaxWorn = 0 => dev_worn = {}

Inv ==
    /\ TypeOK
    /\ MappedIsWritten
    /\ WritableIsConsistent
    /\ WorkerOK
    /\ AllocatorOK
    /\ AgreeUntilStopped
    /\ WholeBlocks
    /\ WornBound

(***************************************************************************)
(* Numbers, zones and locations                                            *)
(***************************************************************************)
\* A block taken from or put on a number of sectors changes the number of whole
\* blocks by one.
LEMMA DivStep ==
    ASSUME NEW k \in Nat \ {0}, NEW x \in Nat
    PROVE  /\ x \div k \in Nat
           /\ x % k = x - k * (x \div k)
           /\ (x + k) \div k = (x \div k) + 1
           /\ k <= x => (x - k) \div k = (x \div k) - 1
           /\ x \div k > 0 => k <= x
<1>1. x \div k \in Nat
  OBVIOUS
<1>2. x % k = x - k * (x \div k)
  OBVIOUS
<1>3. (x + k) \div k = (x \div k) + 1
  OBVIOUS
<1>4. k <= x => (x - k) \div k = (x \div k) - 1
  OBVIOUS
<1>5. x \div k > 0 => k <= x
  OBVIOUS
<1> QED BY <1>1, <1>2, <1>3, <1>4, <1>5

\* A write pointer on the block grid stays on it when a block is appended.
LEMMA GridStep ==
    ASSUME NEW k \in Nat \ {0}, NEW x \in Nat, x % k = 0
    PROVE  (x + k) % k = 0
<1> DEFINE q == x \div k
<1>1. q \in Nat
  OBVIOUS
<1>2. x % k = x - k * q
  OBVIOUS
<1>3. (x + k) \div k = q + 1
  OBVIOUS
<1>4. (x + k) % k = (x + k) - k * ((x + k) \div k)
  <2> DEFINE y == x + k
  <2>1. y \in Nat
    OBVIOUS
  <2> HIDE DEF y
  <2>2. y % k = y - k * (y \div k)
    BY <2>1
  <2> QED BY <2>2 DEF y
<1> HIDE DEF q
<1>5. (x + k) % k = (k * q + k) - k * (q + 1)
  BY <1>1, <1>2, <1>3, <1>4
<1> QED BY <1>1, <1>5

\* What the constants are.
LEMMA ConstantFacts ==
    /\ SectorsPerBlock \in Nat \ {0} /\ NrZones \in Nat /\ NrZones > 1 /\ Length \in Nat
    /\ \A z \in Zones : z \in Nat /\ z < NrZones /\ Cap[z] \in Nat /\ Cap[z] <= Length
    /\ \A z \in Zones : Cap[z] > 0
    /\ Blank \in Blocks
    /\ None \notin Locs /\ None \notin LogicalBlocks
BY DataPathAssumption DEF Zones, Blank, Blocks

\* A location is a zone and an offset at which a whole block fits.
LEMMA LocFacts ==
    /\ \A l \in Locs : /\ Zone(l) \in Zones /\ Offset(l) \in Nat
                       /\ Offset(l) + SectorsPerBlock <= Cap[Zone(l)]
                       /\ l = <<Zone(l), Offset(l)>>
    /\ \A z \in Zones, o \in Nat : o + SectorsPerBlock <= Cap[z] => <<z, o>> \in Locs
    /\ \A z, o : Zone(<<z, o>>) = z /\ Offset(<<z, o>>) = o
<1> USE ConstantFacts DEF Zone, Offset
<1>1. ASSUME NEW l \in Locs
      PROVE  /\ Zone(l) \in Zones /\ Offset(l) \in Nat
             /\ Offset(l) + SectorsPerBlock <= Cap[Zone(l)]
             /\ l = <<Zone(l), Offset(l)>>
  <2>1. PICK z \in Zones : l \in {z} \X (0 .. Cap[z] - SectorsPerBlock)
    BY DEF Locs
  <2>2. l[1] = z /\ l[2] \in 0 .. Cap[z] - SectorsPerBlock /\ l = <<l[1], l[2]>>
    BY <2>1
  <2> QED BY <2>2
<1>2. ASSUME NEW z \in Zones, NEW o \in Nat, o + SectorsPerBlock <= Cap[z]
      PROVE  <<z, o>> \in Locs
  <2>1. o \in 0 .. Cap[z] - SectorsPerBlock
    BY <1>2
  <2>2. <<z, o>> \in {z} \X (0 .. Cap[z] - SectorsPerBlock)
    BY <2>1
  <2> QED BY <2>2 DEF Locs
<1>3. \A z, o : Zone(<<z, o>>) = z /\ Offset(<<z, o>>) = o
  OBVIOUS
<1> QED BY <1>1, <1>2, <1>3

\* There are finitely many locations.
LEMMA LocsFinite == IsFiniteSet(Locs)
<1>1. IsFiniteSet(Zones) /\ IsFiniteSet(0..Length)
  BY ConstantFacts, FS_Interval DEF Zones
<1>2. IsFiniteSet(Zones \X (0..Length))
  BY <1>1, FS_Product
<1>3. \A l \in Locs : l \in Zones \X (0..Length)
  <2> SUFFICES ASSUME NEW l \in Locs PROVE l \in Zones \X (0..Length)
    OBVIOUS
  <2>1. /\ Zone(l) \in Zones /\ Offset(l) \in Nat /\ l = <<Zone(l), Offset(l)>>
        /\ Offset(l) + SectorsPerBlock <= Cap[Zone(l)]
    BY LocFacts
  <2>2. Offset(l) \in 0..Length
    BY <2>1, ConstantFacts
  <2> QED BY <2>1, <2>2
<1>4. Locs \in SUBSET (Zones \X (0..Length))
  BY <1>3
<1> QED BY <1>2, <1>4, FS_Subset

(***************************************************************************)
(* What the allocator, the collector and the indexes choose                *)
(***************************************************************************)
\* The numbers TypeOK makes of the variables.
LEMMA TypeFacts ==
    ASSUME TypeOK
    PROVE  /\ \A z \in Zones : /\ dev_wp[z] \in Nat /\ dev_wp[z] <= Cap[z]
                               /\ alloc_wp[z] \in Nat /\ alloc_wp[z] <= Length
                               /\ nr_valid[z] \in Nat
           /\ \A b \in LogicalBlocks : map[b] # None => map[b] \in Locs
           /\ Created => reserve_zone \in Zones
           /\ \A l \in Locs : rev[l] # None => rev[l] \in LogicalBlocks
           /\ writes_stopped \in BOOLEAN
BY ConstantFacts DEF TypeOK

\* zns_allocator_alloc_zoned() finds a zone that can append whenever there is one,
\* and never the reserve.
LEMMA AllocZoneFacts ==
    ASSUME TypeOK, HasSpace
    PROVE  /\ AllocZone \in Zones /\ AllocZone # reserve_zone
           /\ CanAppend(AllocZone)
<1> DEFINE Z == {z \in Zones \ {reserve_zone} : CanAppend(z)}
<1> DEFINE D == {Distance(z) : z \in Z}
<1>1. \A z \in Zones : Distance(z) \in Nat
  <2>1. active_zone \in 0..NrZones
    BY DEF TypeOK
  <2> QED BY <2>1, ConstantFacts DEF Distance
<1>2. D \in SUBSET Nat /\ D # {}
  BY <1>1 DEF HasSpace
<1>3. PICK n \in D : \A m \in D : n <= m
  <2> HIDE DEF D
  <2> QED BY <1>2, LeastExists
<1>4. PICK z \in Z : n = Distance(z)
  OBVIOUS
<1>5. \A y \in Zones \ {reserve_zone} : CanAppend(y) => Distance(z) <= Distance(y)
  BY <1>3, <1>4
<1>6. \E x \in Zones \ {reserve_zone} :
         /\ CanAppend(x)
         /\ \A y \in Zones \ {reserve_zone} : CanAppend(y) => Distance(x) <= Distance(y)
  BY <1>4, <1>5
<1> QED BY <1>6 DEF AllocZone

\* A zone that can append has room for a block at its write pointer.
LEMMA CanAppendFacts ==
    ASSUME TypeOK, NEW z \in Zones, CanAppend(z)
    PROVE  /\ alloc_cond[z] = "writable"
           /\ alloc_wp[z] \in Nat /\ alloc_wp[z] + SectorsPerBlock <= Cap[z]
           /\ <<z, alloc_wp[z]>> \in Locs
<1>1. /\ alloc_cond[z] = "writable" /\ alloc_wp[z] \in Nat
      /\ alloc_wp[z] + SectorsPerBlock <= Cap[z]
  BY ConstantFacts, TypeFacts DEF CanAppend
<1> QED BY <1>1, LocFacts

\* The collection moves the first live block of the victim, as long as there is one.
LEMMA SourceFacts ==
    ASSUME TypeOK, LiveSlots # {}
    PROVE  /\ Source \in Locs /\ Zone(Source) = victim
           /\ rev[Source] # None /\ rev[Source] \in LogicalBlocks
           /\ \A m \in LiveSlots : Offset(Source) <= Offset(m)
<1> DEFINE O == {Offset(l) : l \in LiveSlots}
<1>1. \A l \in LiveSlots : l \in Locs
  BY DEF LiveSlots
<1>2. O \in SUBSET Nat /\ O # {}
  BY <1>1, LocFacts
<1>3. PICK n \in O : \A m \in O : n <= m
  <2> HIDE DEF O
  <2> QED BY <1>2, LeastExists
<1>4. PICK l \in LiveSlots : n = Offset(l)
  OBVIOUS
<1>5. \A m \in LiveSlots : Offset(l) <= Offset(m)
  BY <1>3, <1>4
<1>6. Source \in LiveSlots /\ \A m \in LiveSlots : Offset(Source) <= Offset(m)
  BY <1>4, <1>5 DEF Source
<1> QED BY <1>6, TypeFacts DEF LiveSlots

\* zns_engine_init() finds an empty zone whenever there is one.
LEMMA MaxFacts ==
    ASSUME EmptyZones # {}
    PROVE  Max(EmptyZones) \in EmptyZones
<1> DEFINE D == {NrZones - z : z \in EmptyZones}
<1>1. EmptyZones \subseteq Zones
  BY DEF EmptyZones
<1>2. D \in SUBSET Nat /\ D # {}
  BY <1>1, ConstantFacts
<1>3. PICK n \in D : \A m \in D : n <= m
  <2> HIDE DEF D
  <2> QED BY <1>2, LeastExists
<1>4. PICK z \in EmptyZones : n = NrZones - z
  OBVIOUS
<1>5. \A y \in EmptyZones : z >= y
  <2> SUFFICES ASSUME NEW y \in EmptyZones PROVE z >= y
    OBVIOUS
  <2>1. NrZones - z <= NrZones - y
    BY <1>3, <1>4
  <2> QED BY <1>1, <2>1, ConstantFacts
<1>6. \E x \in EmptyZones : \A y \in EmptyZones : x >= y
  BY <1>4, <1>5
<1> QED BY <1>6 DEF Max

\* What is read is unchanged when the mapping and the blocks it points at are.
LEMMA VisibleKept ==
    ASSUME NEW b \in LogicalBlocks, map'[b] = map[b],
           map[b] # None => dev_data'[map[b]] = dev_data[map[b]]
    PROVE  Visible(b)' = Visible(b)
BY DEF Visible

\* zns_lsm_update_gc_block_location() keeps both indexes and both counters in step
\* with the mapping whenever it accepts a location.
LEMMA IndexesMove ==
    ASSUME TypeOK, IndexesAgree, Created, Created',
           NEW b \in LogicalBlocks, NEW l \in Locs, rev[l] = None,
           map' = [map EXCEPT ![b] = l],
           UpdateIndexes(b, l)
    PROVE  /\ IndexesAgree'
           /\ latest' \in [LogicalBlocks -> Locs \cup {None}]
           /\ rev' \in [Locs -> LogicalBlocks \cup {None}]
           /\ nr_valid' \in [Zones -> Nat]
           /\ valid_blocks' \in Nat
           /\ \A z \in Zones :
                 nr_valid'[z] = nr_valid[z] + (IF z = Zone(l) THEN 1 ELSE 0)
                       - (IF map[b] # None /\ z = Zone(map[b]) THEN 1 ELSE 0)
<1> USE ConstantFacts
<1>1. /\ latest = map
      /\ \A c \in LogicalBlocks : map[c] # None => rev[map[c]] = c
      /\ \A m \in Locs : rev[m] # None => map[rev[m]] = m
      /\ \A z \in Zones :
            nr_valid[z] = Cardinality({m \in Locs : Zone(m) = z /\ rev[m] # None})
      /\ valid_blocks = Cardinality({c \in LogicalBlocks : map[c] # None})
  BY DEF IndexesAgree
<1>2. \A c \in LogicalBlocks : map'[c] = IF c = b THEN l ELSE map[c]
  BY DEF TypeOK
<1>3. \A m \in Locs : rev'[m] = IF m = l THEN b ELSE IF m = map[b] THEN None ELSE rev[m]
  BY <1>1 DEF UpdateIndexes
<1>4. latest' = map'
  BY <1>1 DEF UpdateIndexes
<1>5. /\ latest' \in [LogicalBlocks -> Locs \cup {None}]
      /\ rev' \in [Locs -> LogicalBlocks \cup {None}]
  BY <1>1 DEF TypeOK, UpdateIndexes
<1>6. \A c \in LogicalBlocks : map'[c] # None => rev'[map'[c]] = c
  <2> SUFFICES ASSUME NEW c \in LogicalBlocks, map'[c] # None PROVE rev'[map'[c]] = c
    OBVIOUS
  <2>1. CASE c = b
    BY <1>2, <1>3, <2>1
  <2>2. CASE c # b
    <3>1. map'[c] = map[c] /\ map[c] \in Locs /\ rev[map[c]] = c
      BY <1>1, <1>2, <2>2, TypeFacts
    <3>2. map[c] # l
      BY <3>1
    <3>3. map[c] # map[b]
      BY <1>1, <2>2, <3>1
    <3> QED BY <1>3, <3>1, <3>2, <3>3
  <2> QED BY <2>1, <2>2
<1>7. \A m \in Locs : rev'[m] # None => map'[rev'[m]] = m
  <2> SUFFICES ASSUME NEW m \in Locs, rev'[m] # None PROVE map'[rev'[m]] = m
    OBVIOUS
  <2>1. CASE m = l
    BY <1>2, <1>3, <2>1
  <2>2. CASE m # l
    <3>1. m # map[b] /\ rev'[m] = rev[m] /\ map[rev[m]] = m /\ rev[m] \in LogicalBlocks
      BY <1>1, <1>3, <2>2, TypeFacts
    <3>2. rev[m] # b
      BY <3>1
    <3> QED BY <1>2, <3>1, <3>2
  <2> QED BY <2>1, <2>2
<1>8. \A z \in Zones : nr_valid'[z] = nr_valid[z] + (IF z = Zone(l) THEN 1 ELSE 0)
                         - (IF map[b] # None /\ z = Zone(map[b]) THEN 1 ELSE 0)
  BY <1>1 DEF UpdateIndexes, MoveCount
<1>9. ASSUME NEW z \in Zones
      PROVE  nr_valid'[z] = Cardinality({m \in Locs : Zone(m) = z /\ rev'[m] # None})
  <2> DEFINE Live == {m \in Locs : Zone(m) = z /\ rev[m] # None}
             Left == Live \ {map[b]}
             New  == {m \in Locs : Zone(m) = z /\ rev'[m] # None}
  <2>1. IsFiniteSet(Live)
    <3>1. Live \in SUBSET Locs
      OBVIOUS
    <3> HIDE DEF Live
    <3> QED BY <3>1, LocsFinite, FS_Subset
  <2>2. map[b] \in Live <=> map[b] # None /\ z = Zone(map[b])
    BY <1>1, TypeFacts
  <2>3. l \notin Left
    OBVIOUS
  <2>4. New = IF z = Zone(l) THEN Left \cup {l} ELSE Left
    <3>1. \A m \in New : m \in Left \/ (z = Zone(l) /\ m = l)
      BY <1>3
    <3>2. \A m \in Left : m \in New
      BY <1>3
    <3>3. z = Zone(l) => l \in New
      BY <1>3
    <3>4. z # Zone(l) => l \notin New
      OBVIOUS
    <3> HIDE DEF New, Left
    <3> QED BY <3>1, <3>2, <3>3, <3>4
  <2>5. nr_valid[z] = Cardinality(Live)
    BY <1>1
  <2> HIDE DEF Live, New
  <2>6. /\ IsFiniteSet(Left)
        /\ Cardinality(Left) = IF map[b] \in Live THEN Cardinality(Live) - 1 ELSE Cardinality(Live)
    BY <2>1, FS_RemoveElement
  <2>7. Cardinality(Live) \in Nat /\ Cardinality(Left) \in Nat
    BY <2>1, <2>6, FS_CardinalityType
  <2> HIDE DEF Left
  <2>8. Cardinality(Left \cup {l}) = Cardinality(Left) + 1
    BY <2>3, <2>6, FS_AddElement
  <2>9. Cardinality(New) = Cardinality(Left) + (IF z = Zone(l) THEN 1 ELSE 0)
    BY <2>4, <2>7, <2>8
  <2>10. nr_valid'[z] = Cardinality(New)
    BY <1>8, <2>2, <2>5, <2>6, <2>7, <2>9
  <2> QED BY <2>10 DEF New
<1>10. nr_valid' \in [Zones -> Nat]
  <2>1. \A z \in Zones : IsFiniteSet({m \in Locs : Zone(m) = z /\ rev'[m] # None})
    <3> SUFFICES ASSUME NEW z \in Zones
                 PROVE  IsFiniteSet({m \in Locs : Zone(m) = z /\ rev'[m] # None})
      OBVIOUS
    <3>1. {m \in Locs : Zone(m) = z /\ rev'[m] # None} \in SUBSET Locs
      OBVIOUS
    <3> QED BY <3>1, LocsFinite, FS_Subset
  <2>2. \A z \in Zones : nr_valid'[z] \in Nat
    BY <1>9, <2>1, FS_CardinalityType
  <2> QED BY <2>2 DEF UpdateIndexes, MoveCount
<1>11. /\ valid_blocks' = Cardinality({c \in LogicalBlocks : map'[c] # None})
       /\ valid_blocks' \in Nat
  <2> DEFINE Old == {c \in LogicalBlocks : map[c] # None}
             New == {c \in LogicalBlocks : map'[c] # None}
  <2>1. New = Old \cup {b} /\ (b \in Old <=> map[b] # None)
    BY <1>2
  <2>2. IsFiniteSet(Old)
    <3>1. Old \in SUBSET LogicalBlocks
      OBVIOUS
    <3> HIDE DEF Old
    <3> QED BY <3>1, DataPathAssumption, FS_Subset
  <2>3. valid_blocks = Cardinality(Old)
    BY <1>1
  <2>4. valid_blocks' = IF map[b] = None THEN valid_blocks + 1 ELSE valid_blocks
    BY <1>1 DEF UpdateIndexes
  <2> HIDE DEF Old, New
  <2>5. /\ IsFiniteSet(Old \cup {b})
        /\ Cardinality(Old \cup {b}) =
              IF b \in Old THEN Cardinality(Old) ELSE Cardinality(Old) + 1
    BY <2>2, FS_AddElement
  <2>6. valid_blocks' = Cardinality(New) /\ IsFiniteSet(New)
    BY <2>1, <2>3, <2>4, <2>5
  <2>7. Cardinality(New) \in Nat
    BY <2>6, FS_CardinalityType
  <2> QED BY <2>6, <2>7 DEF New
<1>12. IndexesAgree'
  BY <1>4, <1>6, <1>7, <1>9, <1>11 DEF IndexesAgree
<1> QED BY <1>5, <1>8, <1>10, <1>11, <1>12

(***************************************************************************)
(* Steps of the worker that touch neither the device nor the engine        *)
(***************************************************************************)
\* A block that is read has the contents of a block.
LEMMA VisibleType ==
    ASSUME TypeOK, NEW b \in LogicalBlocks
    PROVE  Visible(b) \in Blocks
BY ConstantFacts, TypeFacts DEF TypeOK, Visible

\* Nothing is claimed of a worker that waits for a request.
LEMMA IdleWorkerOK ==
    ASSUME pc' \in {"idle", "down", "refused"}
    PROVE  WorkerOK'
BY DEF WorkerOK, Busy

\* A request that ends leaves typed fields behind.
LEMMA EndRequestType ==
    ASSUME TypeOK, EndRequest
    PROVE  /\ pc' = "idle" /\ req' \in LogicalBlocks \cup {None}
           /\ buffer' \in Blocks /\ dest' \in Locs \cup {None}
           /\ victim' \in Zones \cup {None}
           /\ got' \in {<<>>} \cup (LogicalBlocks \X Blocks)
BY ConstantFacts DEF TypeOK, EndRequest

\* The part of the invariant that is about neither the worker nor its request.
LEMMA QuietKeeps ==
    ASSUME Inv, Created' <=> Created, pc' # "publish",
           UNCHANGED <<policy, devVars, allocVars, map, indexVars, writes_stopped>>
    PROVE  /\ MappedIsWritten' /\ AllocatorOK' /\ AgreeUntilStopped' /\ WholeBlocks'
           /\ WornBound'
           /\ \A b \in LogicalBlocks : Visible(b)' = Visible(b)
<1> USE DEF devVars, allocVars, indexVars
<1>1. MappedIsWritten' /\ AllocatorOK' /\ WornBound'
  BY DEF Inv, MappedIsWritten, AllocatorOK, WornBound
<1>2. IndexesAgree' <=> IndexesAgree
  BY DEF IndexesAgree
<1>3. AgreeUntilStopped' /\ WholeBlocks'
  BY <1>2 DEF Inv, AgreeUntilStopped, WholeBlocks
<1>4. \A b \in LogicalBlocks : Visible(b)' = Visible(b)
  BY DEF Visible
<1> QED BY <1>1, <1>3, <1>4

\* A request that fails before it wrote anything, a read and a new request.
LEMMA RequestKeeps ==
    ASSUME Inv, Request
    PROVE  Inv'
<1> USE DEF devVars, allocVars, indexVars, reqVars
<1>1. ASSUME NEW b \in LogicalBlocks, Read(b)
      PROVE  Inv'
  <2> USE <1>1 DEF Read
  <2>1. Created /\ Created' /\ pc' = "idle"
    BY DEF Created
  <2>2. TypeOK'
    <3>1. Visible(b) \in Blocks
      BY VisibleType DEF Inv
    <3> QED BY <2>1, <3>1 DEF Inv, TypeOK, Created
  <2>3. WritableIsConsistent'
    BY <2>1 DEF Inv, WritableIsConsistent, FreeBlocks
  <2> QED BY <2>1, <2>2, <2>3, QuietKeeps, IdleWorkerOK DEF Inv
<1>2. ASSUME NEW b \in LogicalBlocks, NEW S \in Fragments, NEW d \in Data,
             BeginWrite(b, S, d)
      PROVE  Inv'
  <2> USE <1>2 DEF BeginWrite
  <2>1. Created /\ Created' /\ pc' = "write" /\ pc = "idle"
    BY DEF Created
  <2>2. /\ MappedIsWritten' /\ AllocatorOK' /\ AgreeUntilStopped' /\ WholeBlocks'
        /\ WornBound'
        /\ \A c \in LogicalBlocks : Visible(c)' = Visible(c)
    BY <2>1, QuietKeeps
  <2>3. Visible(b) \in Blocks
    BY VisibleType DEF Inv
  <2>4. buffer' \in Blocks
    BY <2>3 DEF Blocks
  <2>5. TypeOK'
    BY <2>1, <2>4 DEF Inv, TypeOK, Created
  <2>6. WritableIsConsistent'
    BY <2>1 DEF Inv, WritableIsConsistent
  <2>7. S \in SUBSET Sectors
    BY DEF Fragments
  <2>8. buffer' = Merged(req, S, d)'
    BY <2>2 DEF Merged
  <2>9. WorkerOK'
    BY <2>1, <2>7, <2>8 DEF WorkerOK, Busy
  <2> QED BY <2>2, <2>5, <2>6, <2>9 DEF Inv
<1> QED BY <1>1, <1>2 DEF Request

\* -ENOSPC, no buffer for the collection, a publication that fails.
LEMMA RefusalKeeps ==
    ASSUME Inv, Busy, EndRequest,
           UNCHANGED <<policy, devVars, allocVars, map, indexVars, writes_stopped>>,
           pc # "gc"
    PROVE  Inv'
<1> USE DEF devVars, allocVars, indexVars
<1>1. pc' = "idle" /\ Created /\ Created'
  BY DEF EndRequest, Created, Busy
<1>2. TypeOK'
  BY <1>1, EndRequestType DEF Inv, TypeOK, Created
<1>3. WritableIsConsistent'
  BY <1>1 DEF Inv, WritableIsConsistent
<1> QED BY <1>1, <1>2, <1>3, QuietKeeps, IdleWorkerOK DEF Inv

\* zns_lsm_run_gc_if_needed() finds room.
LEMMA NoGcNeededKeeps ==
    ASSUME Inv, NoGcNeeded
    PROVE  Inv'
<1> USE DEF NoGcNeeded, devVars, allocVars, indexVars, reqVars
<1>1. Created /\ Created'
  BY DEF Created
<1>2. /\ MappedIsWritten' /\ AllocatorOK' /\ AgreeUntilStopped' /\ WholeBlocks'
      /\ WornBound'
      /\ \A c \in LogicalBlocks : Visible(c)' = Visible(c)
  BY <1>1, QuietKeeps
<1>3. TypeOK'
  BY <1>1 DEF Inv, TypeOK, Created
<1>4. WritableIsConsistent'
  BY <1>1 DEF Inv, WritableIsConsistent
<1>5. WorkerOK'
  <2>1. PICK S \in SUBSET Sectors, d \in Data : buffer = Merged(req, S, d)
    BY DEF Inv, WorkerOK, Busy
  <2>2. req \in LogicalBlocks /\ ~writes_stopped /\ got = <<>>
    BY DEF Inv, WorkerOK, Busy
  <2>3. buffer' = Merged(req, S, d)'
    BY <1>2, <2>1, <2>2 DEF Merged
  <2> QED BY <2>2, <2>3 DEF WorkerOK, Busy
<1> QED BY <1>2, <1>3, <1>4, <1>5 DEF Inv

\* A policy selects a zone that is not the reserve and whose live blocks fit into
\* the reserve.
LEMMA VictimFacts ==
    ASSUME TypeOK, NEW z \in Victims
    PROVE  z \in Candidates
<1>1. policy \in {"greedy", "simple", "none"}
  BY DataPathAssumption DEF TypeOK
<1> QED BY <1>1 DEF Victims, GreedyVictims, SimpleVictims

\* zns_lsm_gc_clean() starts on the victim of the policy.
LEMMA SelectVictimKeeps ==
    ASSUME Inv, SelectVictim
    PROVE  Inv'
<1> USE DEF SelectVictim, devVars, allocVars, indexVars
<1>1. Created /\ Created'
  BY DEF Created
<1>2. /\ MappedIsWritten' /\ AllocatorOK' /\ AgreeUntilStopped' /\ WholeBlocks'
      /\ WornBound'
      /\ \A c \in LogicalBlocks : Visible(c)' = Visible(c)
  BY <1>1, QuietKeeps
<1>3. PICK z \in Victims : victim' = z
  OBVIOUS
<1>4. /\ victim' \in Zones /\ victim' # reserve_zone
      /\ nr_valid[victim'] <= FreeBlocks(reserve_zone)
      /\ nr_valid[victim'] < CapacityBlocks(victim')
  BY <1>3, VictimFacts DEF Inv, Candidates
<1>8. SectorsPerBlock <= Cap[victim']
  <2>1. nr_valid[victim'] \in Nat /\ Cap[victim'] \in Nat /\ SectorsPerBlock \in Nat \ {0}
    BY <1>4, TypeFacts, ConstantFacts DEF Inv
  <2>2. Cap[victim'] \div SectorsPerBlock \in Nat
    BY <2>1, DivStep
  <2>3. Cap[victim'] \div SectorsPerBlock > 0
    BY <1>4, <2>1, <2>2 DEF CapacityBlocks
  <2> QED BY <2>1, <2>3, DivStep
<1>5. TypeOK'
  BY <1>1, <1>4 DEF Inv, TypeOK, Created
<1>6. WritableIsConsistent'
  BY <1>1, <1>4 DEF Inv, WritableIsConsistent, FreeBlocks
<1>7. WorkerOK'
  <2>1. PICK S \in SUBSET Sectors, d \in Data : buffer = Merged(req, S, d)
    BY DEF Inv, WorkerOK, Busy
  <2>2. req \in LogicalBlocks /\ ~writes_stopped /\ got = <<>>
    BY DEF Inv, WorkerOK, Busy
  <2>3. buffer' = Merged(req, S, d)'
    BY <1>2, <2>1, <2>2 DEF Merged
  <2> QED BY <1>4, <1>8, <2>2, <2>3 DEF WorkerOK, Busy
<1> QED BY <1>2, <1>5, <1>6, <1>7 DEF Inv

(***************************************************************************)
(* zns_lsm_append_write()                                                  *)
(***************************************************************************)
\* No mapped block lies at a write pointer of the device.
LEMMA FreshSlot ==
    ASSUME TypeOK, MappedIsWritten, NEW z \in Zones, NEW b \in LogicalBlocks, map[b] # None
    PROVE  map[b] # <<z, dev_wp[z]>>
<1>1. map[b] \in Locs /\ Offset(map[b]) + SectorsPerBlock <= dev_wp[Zone(map[b])]
  BY TypeFacts DEF MappedIsWritten
<1> SUFFICES ASSUME map[b] = <<z, dev_wp[z]>> PROVE FALSE
  OBVIOUS
<1>2. Zone(map[b]) = z /\ Offset(map[b]) = dev_wp[z] /\ dev_wp[z] \in Nat
  BY LocFacts, TypeFacts
<1> QED BY <1>1, <1>2, ConstantFacts

\* A write that fails moves the write pointer by at most one block, and by none or
\* a whole one if writes are not torn.
LEMMA GrowFacts ==
    ASSUME TypeOK, NEW z \in Zones, NEW d \in Moves, d > 0 => Takes(z),
           d > 0 => alloc_wp[z] + SectorsPerBlock <= Cap[z],
           dev_wp' = [dev_wp EXCEPT ![z] = @ + d]
    PROVE  /\ dev_wp' \in [Zones -> Nat]
           /\ \A y \in Zones : /\ dev_wp'[y] \in Nat
                               /\ dev_wp[y] <= dev_wp'[y] /\ dev_wp'[y] <= Cap[y]
                               /\ y # z => dev_wp'[y] = dev_wp[y]
           /\ dev_wp'[z] = dev_wp[z] + d
           /\ d \in Nat /\ d <= SectorsPerBlock
           /\ ~TornWrites /\ dev_wp[z] % SectorsPerBlock = 0
                 => dev_wp'[z] % SectorsPerBlock = 0
<1>1. d \in Nat /\ d <= SectorsPerBlock /\ (~TornWrites => d = 0 \/ d = SectorsPerBlock)
  BY ConstantFacts DEF Moves
<1>2. dev_wp[z] \in Nat /\ dev_wp[z] <= Cap[z] /\ alloc_wp[z] \in Nat
  BY TypeFacts
<1>3. dev_wp'[z] = dev_wp[z] + d /\ \A y \in Zones \ {z} : dev_wp'[y] = dev_wp[y]
  BY DEF TypeOK
<1>4. dev_wp[z] + d \in Nat /\ dev_wp[z] <= dev_wp[z] + d /\ dev_wp[z] + d <= Cap[z]
  <2>1. CASE d = 0
    BY <1>2, <2>1
  <2>2. CASE d > 0
    BY <1>1, <1>2, <2>2, ConstantFacts DEF Takes
  <2> QED BY <1>1, <2>1, <2>2
<1>5. dev_wp' \in [Zones -> Nat]
  BY <1>4 DEF TypeOK
<1>6. ~TornWrites /\ dev_wp[z] % SectorsPerBlock = 0 => dev_wp'[z] % SectorsPerBlock = 0
  <2>1. CASE d = 0
    BY <1>2, <1>3, <2>1
  <2>2. CASE d = SectorsPerBlock
    BY <1>2, <1>3, <2>2, ConstantFacts, GridStep
  <2> QED BY <1>1, <2>1, <2>2
<1> QED BY <1>1, <1>3, <1>4, <1>5, <1>6, TypeFacts

\* A mapping stays written when write pointers only grow.
LEMMA GrownIsWritten ==
    ASSUME TypeOK, MappedIsWritten, map' = map,
           \A y \in Zones : dev_wp'[y] \in Nat /\ dev_wp[y] <= dev_wp'[y]
    PROVE  MappedIsWritten'
<1> SUFFICES ASSUME NEW b \in LogicalBlocks, map[b] # None
             PROVE  Offset(map[b]) + SectorsPerBlock <= dev_wp'[Zone(map[b])]
  BY DEF MappedIsWritten
<1>1. map[b] \in Locs
  BY TypeFacts
<1>2. /\ Zone(map[b]) \in Zones /\ Offset(map[b]) \in Nat
      /\ Offset(map[b]) + SectorsPerBlock <= dev_wp[Zone(map[b])]
  BY <1>1, LocFacts DEF MappedIsWritten
<1> QED BY <1>2, TypeFacts, ConstantFacts

\* The zone the allocator tries next is one of its zones, or one past the end.
LEMMA NextActiveType ==
    ASSUME NEW z \in Zones, NEW wp
    PROVE  NextActive(z, wp) \in 0..NrZones
BY ConstantFacts DEF NextActive

\* The lower write succeeded: the block is on the device, and nobody maps it yet.
LEMMA AppendKeeps ==
    ASSUME Inv, Append
    PROVE  Inv'
<1> DEFINE z == AllocZone
           l == <<z, alloc_wp[z]>>
<1>1. /\ pc = "append" /\ pc' = "publish" /\ HasSpace /\ Takes(z)
      /\ dest' = l
      /\ dev_data' = [dev_data EXCEPT ![l] = buffer]
      /\ dev_wp' = [dev_wp EXCEPT ![z] = @ + SectorsPerBlock]
      /\ alloc_wp' = [alloc_wp EXCEPT ![z] = @ + SectorsPerBlock]
      /\ active_zone' = NextActive(z, alloc_wp'[z])
      /\ UNCHANGED <<policy, dev_worn, alloc_cond, reserve_zone, map, latest, rev,
                     nr_valid, valid_blocks, writes_stopped, req, buffer, victim, got>>
  BY DEF Append, indexVars
<1>2. /\ Created /\ Created' /\ ~writes_stopped
      /\ req \in LogicalBlocks /\ got = <<>>
  BY <1>1 DEF Created, Inv, WorkerOK, Busy
<1>3. /\ z \in Zones /\ z # reserve_zone /\ alloc_cond[z] = "writable"
      /\ alloc_wp[z] \in Nat /\ alloc_wp[z] + SectorsPerBlock <= Cap[z]
      /\ l \in Locs /\ Zone(l) = z /\ Offset(l) = alloc_wp[z]
      /\ dev_wp[z] = alloc_wp[z]
  BY <1>1, AllocZoneFacts, CanAppendFacts, LocFacts DEF Inv, Takes
<1> HIDE DEF z, l
<1>4. /\ \A y \in Zones : dev_wp'[y] = IF y = z THEN dev_wp[z] + SectorsPerBlock
                                                ELSE dev_wp[y]
      /\ \A y \in Zones : alloc_wp'[y] = IF y = z THEN alloc_wp[z] + SectorsPerBlock
                                                  ELSE alloc_wp[y]
      /\ \A m \in Locs : dev_data'[m] = IF m = l THEN buffer ELSE dev_data[m]
  BY <1>1, <1>3 DEF Inv, TypeOK
<1>5. \A b \in LogicalBlocks : map[b] # None => map[b] # l /\ map[b] \in Locs
  BY <1>3, FreshSlot, TypeFacts DEF Inv, l
<1>6. \A y \in Zones : dev_wp'[y] \in Nat /\ dev_wp[y] <= dev_wp'[y] /\ dev_wp'[y] <= Cap[y]
  BY <1>3, <1>4, TypeFacts, ConstantFacts DEF Inv
<1>7. TypeOK'
  <2>1. dev_wp' \in [Zones -> Nat]
    BY <1>1, <1>6 DEF Inv, TypeOK
  <2>2. /\ alloc_wp' \in [Zones -> 0..Length]
        /\ \A y \in Zones : alloc_cond[y] = "writable" => alloc_wp'[y] <= Cap[y]
    <3>1. alloc_wp[z] + SectorsPerBlock \in 0..Length
      BY <1>3, ConstantFacts
    <3> QED BY <1>1, <1>3, <1>4, <3>1 DEF Inv, TypeOK
  <2>3. dev_data' \in [Locs -> Blocks]
    BY <1>1, <1>3 DEF Inv, TypeOK
  <2>4. active_zone' \in 0..NrZones
    BY <1>1, <1>3, NextActiveType
  <2> QED BY <1>1, <1>2, <1>3, <1>6, <2>1, <2>2, <2>3, <2>4 DEF Inv, TypeOK, Created
<1>8. MappedIsWritten'
  BY <1>1, <1>6, GrownIsWritten DEF Inv
<1>9. WritableIsConsistent'
  BY <1>1, <1>2, <1>3, <1>4 DEF Inv, WritableIsConsistent
<1>10. WorkerOK'
  <2>1. PICK S \in SUBSET Sectors, d \in Data : buffer = Merged(req, S, d)
    BY <1>1 DEF Inv, WorkerOK, Busy
  <2>2. Visible(req)' = Visible(req)
    BY <1>1, <1>2, <1>4, <1>5, VisibleKept DEF Visible
  <2>3. buffer' = Merged(req, S, d)'
    BY <1>1, <2>1, <2>2 DEF Merged
  <2>4. /\ dest' \in Locs /\ dev_data'[dest'] = buffer'
        /\ \A b \in LogicalBlocks : map'[b] # dest'
    BY <1>1, <1>3, <1>4, <1>5, ConstantFacts
  <2>5. Offset(dest)' + SectorsPerBlock <= dev_wp'[Zone(dest)']
    BY <1>1, <1>3, <1>4, ConstantFacts DEF Zone, Offset
  <2> QED BY <1>1, <1>2, <2>3, <2>4, <2>5 DEF WorkerOK, Busy
<1>11. AllocatorOK'
  BY <1>1, <1>2, <1>3, <1>4, ConstantFacts, TypeFacts DEF Inv, AllocatorOK
<1>12. IndexesAgree
  BY <1>2 DEF Inv, AgreeUntilStopped
<1>13. IndexesAgree'
  BY <1>1, <1>2, <1>12 DEF IndexesAgree
<1>14. WholeBlocks'
  <2> SUFFICES ASSUME ~TornWrites
               PROVE  /\ \A y \in Zones : dev_wp'[y] % SectorsPerBlock = 0
                      /\ \A b \in LogicalBlocks :
                            map'[b] # None => Offset(map[b])' % SectorsPerBlock = 0
                      /\ Offset(dest)' % SectorsPerBlock = 0
    BY <1>13 DEF WholeBlocks
  <2>1. \A y \in Zones : dev_wp[y] % SectorsPerBlock = 0
    BY DEF Inv, WholeBlocks
  <2>2. (dev_wp[z] + SectorsPerBlock) % SectorsPerBlock = 0
    BY <1>3, <2>1, GridStep, ConstantFacts
  <2>3. \A b \in LogicalBlocks : map[b] # None => Offset(map[b]) % SectorsPerBlock = 0
    BY <1>2 DEF Inv, WholeBlocks
  <2>4. Offset(dest)' = dev_wp[z]
    BY <1>1, <1>3 DEF Offset
  <2>5. \A y \in Zones : dev_wp'[y] % SectorsPerBlock = 0
    BY <1>4, <2>1, <2>2
  <2>6. Offset(dest)' % SectorsPerBlock = 0
    BY <1>3, <2>1, <2>4
  <2> QED BY <1>1, <2>3, <2>5, <2>6 DEF Offset
<1>15. WornBound' /\ AgreeUntilStopped'
  BY <1>1, <1>13 DEF Inv, WornBound, AgreeUntilStopped
<1> QED BY <1>7, <1>8, <1>9, <1>10, <1>11, <1>14, <1>15 DEF Inv

\* What a zone report says of a zone: its write pointer, or the end of a zone that
\* takes no write.
LEMMA ReportFacts ==
    ASSUME NEW z \in Zones, NEW wp \in Nat, NEW at_end \in BOOLEAN, wp <= Cap[z]
    PROVE  /\ ReportedWp(z, wp, at_end) \in 0..Length
           /\ wp <= ReportedWp(z, wp, at_end)
           /\ Condition(z, wp) \in {"writable", "full", "readonly"}
           /\ Condition(z, wp) = "writable" => ReportedWp(z, wp, at_end) = wp
BY ConstantFacts DEF ReportedWp, Condition

\* The indexes of a created target stay as they are when nothing is published.
LEMMA IndexesKept ==
    ASSUME Created' <=> Created, UNCHANGED <<map, latest, rev, nr_valid, valid_blocks>>,
           IndexesAgree
    PROVE  IndexesAgree'
BY DEF IndexesAgree

\* The block grid when one write pointer moves and nothing is published.
LEMMA GridKept ==
    ASSUME Inv, Created, Created', pc' = "idle",
           UNCHANGED <<map, latest, rev, nr_valid, valid_blocks>>,
           NEW z \in Zones, \A y \in Zones \ {z} : dev_wp'[y] = dev_wp[y],
           ~TornWrites /\ dev_wp[z] % SectorsPerBlock = 0
              => dev_wp'[z] % SectorsPerBlock = 0
    PROVE  WholeBlocks'
<1> SUFFICES ASSUME ~TornWrites PROVE WholeBlocks'
  BY DEF WholeBlocks
<1>1. /\ \A y \in Zones : dev_wp[y] % SectorsPerBlock = 0
      /\ \A b \in LogicalBlocks : map[b] # None => Offset(map[b]) % SectorsPerBlock = 0
      /\ IndexesAgree
  BY DEF Inv, WholeBlocks
<1>2. IndexesAgree'
  BY <1>1, IndexesKept
<1>3. \A y \in Zones : dev_wp'[y] % SectorsPerBlock = 0
  BY <1>1
<1>4. \A b \in LogicalBlocks : map'[b] # None => Offset(map'[b]) % SectorsPerBlock = 0
  BY <1>1
<1> QED BY <1>2, <1>3, <1>4 DEF WholeBlocks

\* A failed write: the resync takes the device's write pointer over.
LEMMA AppendFailsKeeps ==
    ASSUME Inv, AppendFails
    PROVE  Inv'
<1> DEFINE z == AllocZone
<1>1. PICK d \in Moves, at_end \in BOOLEAN :
         /\ d > 0 => Takes(z)
         /\ dev_wp' = [dev_wp EXCEPT ![z] = @ + d]
         /\ alloc_wp' = [alloc_wp EXCEPT ![z] = ReportedWp(z, dev_wp'[z], at_end)]
         /\ alloc_cond' = [alloc_cond EXCEPT ![z] = Condition(z, dev_wp'[z])]
         /\ active_zone' = NextActive(z, ReportedWp(z, dev_wp'[z], at_end))
  BY DEF AppendFails
<1>2. /\ pc = "append" /\ pc' = "idle" /\ HasSpace /\ EndRequest
      /\ UNCHANGED <<policy, dev_data, dev_worn, reserve_zone, map, latest, rev,
                     nr_valid, valid_blocks, writes_stopped>>
  BY DEF AppendFails, indexVars, EndRequest
<1>3. Created /\ Created' /\ ~writes_stopped
  BY <1>2 DEF Created, Inv, WorkerOK, Busy
<1>4. /\ z \in Zones /\ z # reserve_zone
      /\ alloc_wp[z] \in Nat /\ alloc_wp[z] + SectorsPerBlock <= Cap[z]
  BY <1>2, AllocZoneFacts, CanAppendFacts DEF Inv
<1> HIDE DEF z
<1>5. /\ dev_wp' \in [Zones -> Nat]
      /\ \A y \in Zones : /\ dev_wp'[y] \in Nat
                          /\ dev_wp[y] <= dev_wp'[y] /\ dev_wp'[y] <= Cap[y]
                          /\ y # z => dev_wp'[y] = dev_wp[y]
      /\ ~TornWrites /\ dev_wp[z] % SectorsPerBlock = 0
            => dev_wp'[z] % SectorsPerBlock = 0
  BY <1>1, <1>4, GrowFacts DEF Inv
<1> DEFINE wp   == ReportedWp(z, dev_wp'[z], at_end)
           cond == Condition(z, dev_wp'[z])
<1>6. /\ wp \in 0..Length /\ dev_wp'[z] <= wp
      /\ cond \in {"writable", "full", "readonly"}
      /\ cond = "writable" => wp = dev_wp'[z]
  BY <1>4, <1>5, ReportFacts
<1>7. /\ \A y \in Zones : alloc_wp'[y] = IF y = z THEN wp ELSE alloc_wp[y]
      /\ \A y \in Zones : alloc_cond'[y] = IF y = z THEN cond ELSE alloc_cond[y]
      /\ alloc_wp' \in [Zones -> 0..Length]
      /\ alloc_cond' \in [Zones -> {"writable", "full", "readonly"}]
      /\ active_zone' \in 0..NrZones
  BY <1>1, <1>4, <1>6, NextActiveType DEF Inv, TypeOK
<1> HIDE DEF wp, cond
<1>8. TypeOK'
  <2>1. \A y \in Zones : alloc_cond'[y] = "writable" => alloc_wp'[y] <= Cap[y]
    BY <1>5, <1>6, <1>7 DEF Inv, TypeOK
  <2> QED BY <1>2, <1>3, <1>5, <1>7, <2>1, EndRequestType DEF Inv, TypeOK, Created
<1>9. MappedIsWritten'
  BY <1>2, <1>5, GrownIsWritten DEF Inv
<1>10. WritableIsConsistent'
  <2>1. \A y \in Zones : alloc_cond'[y] = "writable" => alloc_wp'[y] = dev_wp'[y]
    BY <1>3, <1>5, <1>6, <1>7 DEF Inv, WritableIsConsistent
  <2>2. alloc_wp'[reserve_zone'] = 0
    BY <1>2, <1>3, <1>4, <1>7, TypeFacts DEF Inv, WritableIsConsistent
  <2> QED BY <1>2, <2>1, <2>2 DEF WritableIsConsistent
<1>11. AllocatorOK'
  <2>1. \A y \in Zones : dev_wp'[y] <= alloc_wp'[y]
    BY <1>3, <1>5, <1>6, <1>7 DEF Inv, AllocatorOK
  <2> QED BY <1>2, <1>3, <1>4, <1>7, <2>1, TypeFacts DEF Inv, AllocatorOK
<1>12. WholeBlocks'
  BY <1>2, <1>3, <1>4, <1>5, GridKept
<1>13. AgreeUntilStopped' /\ WornBound'
  BY <1>2, <1>3, IndexesKept DEF Inv, AgreeUntilStopped, WornBound
<1> QED BY <1>2, <1>8, <1>9, <1>10, <1>11, <1>12, <1>13, IdleWorkerOK DEF Inv

\* A failed write whose zone cannot be resynchronised stops further writes.
LEMMA AppendFailsStoppedKeeps ==
    ASSUME Inv, AppendFailsStopped
    PROVE  Inv'
<1> DEFINE z == AllocZone
<1>1. PICK d \in Moves : /\ d > 0 => Takes(z)
                         /\ dev_wp' = [dev_wp EXCEPT ![z] = @ + d]
  BY DEF AppendFailsStopped
<1>2. /\ pc = "append" /\ pc' = "idle" /\ HasSpace /\ EndRequest
      /\ alloc_wp' = [alloc_wp EXCEPT ![z] = @ + SectorsPerBlock]
      /\ active_zone' = NextActive(z, alloc_wp'[z])
      /\ writes_stopped' = TRUE
      /\ UNCHANGED <<policy, dev_data, dev_worn, alloc_cond, reserve_zone, map, latest,
                     rev, nr_valid, valid_blocks>>
  BY DEF AppendFailsStopped, indexVars, EndRequest
<1>3. Created /\ Created'
  BY <1>2 DEF Created
<1>4. /\ z \in Zones /\ z # reserve_zone
      /\ alloc_wp[z] \in Nat /\ alloc_wp[z] + SectorsPerBlock <= Cap[z]
  BY <1>2, AllocZoneFacts, CanAppendFacts DEF Inv
<1> HIDE DEF z
<1>5. /\ dev_wp' \in [Zones -> Nat]
      /\ \A y \in Zones : /\ dev_wp'[y] \in Nat
                          /\ dev_wp[y] <= dev_wp'[y] /\ dev_wp'[y] <= Cap[y]
                          /\ y # z => dev_wp'[y] = dev_wp[y]
      /\ ~TornWrites /\ dev_wp[z] % SectorsPerBlock = 0
            => dev_wp'[z] % SectorsPerBlock = 0
  BY <1>1, <1>4, GrowFacts DEF Inv
<1>6. /\ alloc_wp' \in [Zones -> 0..Length]
      /\ \A y \in Zones : alloc_cond[y] = "writable" => alloc_wp'[y] <= Cap[y]
  <2>1. alloc_wp[z] + SectorsPerBlock \in 0..Length
    BY <1>4, ConstantFacts
  <2> QED BY <1>2, <1>4, <2>1 DEF Inv, TypeOK
<1>7. TypeOK'
  <2>1. active_zone' \in 0..NrZones
    BY <1>2, <1>4, NextActiveType
  <2> QED BY <1>2, <1>3, <1>5, <1>6, <2>1, EndRequestType DEF Inv, TypeOK, Created
<1>8. MappedIsWritten'
  BY <1>2, <1>5, GrownIsWritten DEF Inv
<1>9. WritableIsConsistent' /\ AgreeUntilStopped'
  BY <1>2 DEF WritableIsConsistent, AgreeUntilStopped
<1>10. AllocatorOK' /\ WornBound'
  BY <1>2, <1>3 DEF Inv, AllocatorOK, WornBound
<1>11. WholeBlocks'
  BY <1>2, <1>3, <1>4, <1>5, GridKept
<1> QED BY <1>2, <1>7, <1>8, <1>9, <1>10, <1>11, IdleWorkerOK DEF Inv

(***************************************************************************)
(* zns_lsm_publish_write()                                                 *)
(***************************************************************************)
\* On a device that writes whole blocks, the indexes accept every block that was
\* just written.
LEMMA WholeBlockAccepted ==
    ASSUME Inv, ~TornWrites, Created, ~writes_stopped,
           NEW b \in LogicalBlocks, NEW l \in Locs, NEW wp,
           \A c \in LogicalBlocks : map[c] # l,
           Offset(l) % SectorsPerBlock = 0, Offset(l) < wp
    PROVE  IndexAccepts(b, l, wp)
<1>1. /\ latest = map
      /\ \A c \in LogicalBlocks : map[c] # None => rev[map[c]] = c
      /\ \A m \in Locs : rev[m] # None => map[rev[m]] = m
  BY DEF Inv, AgreeUntilStopped, IndexesAgree
<1>2. rev[l] = None
  BY <1>1, TypeFacts DEF Inv
<1>3. HasSlot(l, wp, alloc_cond[Zone(l)])
  BY DEF HasSlot
<1>4. ASSUME map[b] # None PROVE Written(map[b])
  <2>1. map[b] \in Locs /\ Offset(map[b]) + SectorsPerBlock <= dev_wp[Zone(map[b])]
    BY <1>4, TypeFacts DEF Inv, MappedIsWritten
  <2>2. Offset(map[b]) \in Nat /\ Zone(map[b]) \in Zones
    BY <2>1, LocFacts
  <2>3. dev_wp[Zone(map[b])] <= alloc_wp[Zone(map[b])]
    BY <2>2 DEF Inv, AllocatorOK
  <2>4. Offset(map[b]) < alloc_wp[Zone(map[b])]
    BY <2>1, <2>2, <2>3, ConstantFacts, TypeFacts DEF Inv
  <2>5. Offset(map[b]) % SectorsPerBlock = 0
    BY <1>4 DEF Inv, WholeBlocks
  <2> QED BY <2>4, <2>5 DEF Written, HasSlot
<1> QED BY <1>1, <1>2, <1>3, <1>4 DEF IndexAccepts

\* A publication keeps the indexes in step, or stops the writes.
LEMMA PublishFacts ==
    ASSUME Inv, Created, Created', ~writes_stopped,
           NEW b \in LogicalBlocks, NEW l \in Locs, NEW wp,
           \A c \in LogicalBlocks : map[c] # l,
           PublishWrite(b, l, wp)
    PROVE  /\ map' = [map EXCEPT ![b] = l]
           /\ map' \in [LogicalBlocks -> Locs \cup {None}]
           /\ \A c \in LogicalBlocks : map'[c] = IF c = b THEN l ELSE map[c]
           /\ latest' \in [LogicalBlocks -> Locs \cup {None}]
           /\ rev' \in [Locs -> LogicalBlocks \cup {None}]
           /\ nr_valid' \in [Zones -> Nat]
           /\ valid_blocks' \in Nat
           /\ writes_stopped' \in BOOLEAN
           /\ AgreeUntilStopped'
           /\ ~writes_stopped' => \A z \in Zones :
                 nr_valid'[z] = nr_valid[z] + (IF z = Zone(l) THEN 1 ELSE 0)
                       - (IF map[b] # None /\ z = Zone(map[b]) THEN 1 ELSE 0)
           /\ ~TornWrites /\ Offset(l) % SectorsPerBlock = 0 /\ Offset(l) < wp
                 => IndexesAgree' /\ ~writes_stopped'
<1>1. IndexesAgree /\ TypeOK
  BY DEF Inv, AgreeUntilStopped
<1>2. /\ map' = [map EXCEPT ![b] = l]
      /\ map' \in [LogicalBlocks -> Locs \cup {None}]
      /\ \A c \in LogicalBlocks : map'[c] = IF c = b THEN l ELSE map[c]
  BY <1>1 DEF PublishWrite, TypeOK
<1>3. CASE IndexAccepts(b, l, wp)
  <2>1. rev[l] = None /\ UpdateIndexes(b, l) /\ writes_stopped' = writes_stopped
    BY <1>3 DEF PublishWrite, IndexAccepts
  <2>2. /\ IndexesAgree'
        /\ latest' \in [LogicalBlocks -> Locs \cup {None}]
        /\ rev' \in [Locs -> LogicalBlocks \cup {None}]
        /\ nr_valid' \in [Zones -> Nat]
        /\ valid_blocks' \in Nat
        /\ \A z \in Zones :
              nr_valid'[z] = nr_valid[z] + (IF z = Zone(l) THEN 1 ELSE 0)
                    - (IF map[b] # None /\ z = Zone(map[b]) THEN 1 ELSE 0)
    BY <1>1, <1>2, <2>1, IndexesMove
  <2>3. AgreeUntilStopped' /\ ~writes_stopped' /\ writes_stopped' \in BOOLEAN
    BY <1>1, <2>1, <2>2 DEF AgreeUntilStopped, TypeOK
  <2> QED BY <1>2, <2>2, <2>3
<1>4. CASE ~IndexAccepts(b, l, wp)
  <2>1. writes_stopped' = TRUE /\ UNCHANGED <<latest, rev, nr_valid, valid_blocks>>
    BY <1>4 DEF PublishWrite, indexVars
  <2>2. ~(~TornWrites /\ Offset(l) % SectorsPerBlock = 0 /\ Offset(l) < wp)
    BY <1>4, WholeBlockAccepted
  <2> QED BY <1>1, <1>2, <2>1, <2>2 DEF TypeOK, AgreeUntilStopped
<1> QED BY <1>3, <1>4

\* The write is published and done.
LEMMA PublishKeeps ==
    ASSUME Inv, Publish
    PROVE  Inv'
<1>1. /\ pc = "publish" /\ pc' = "idle" /\ EndRequest
      /\ PublishWrite(req, dest, alloc_wp[Zone(dest)])
      /\ UNCHANGED <<policy, dev_wp, dev_data, dev_worn, alloc_wp, alloc_cond,
                     active_zone, reserve_zone>>
  BY DEF Publish, devVars, allocVars, EndRequest
<1>2. /\ Created /\ Created' /\ ~writes_stopped /\ req \in LogicalBlocks
      /\ dest \in Locs /\ \A c \in LogicalBlocks : map[c] # dest
      /\ Offset(dest) + SectorsPerBlock <= dev_wp[Zone(dest)]
  BY <1>1 DEF Created, Inv, WorkerOK, Busy
<1>3. /\ map' \in [LogicalBlocks -> Locs \cup {None}]
      /\ \A c \in LogicalBlocks : map'[c] = IF c = req THEN dest ELSE map[c]
      /\ latest' \in [LogicalBlocks -> Locs \cup {None}]
      /\ rev' \in [Locs -> LogicalBlocks \cup {None}]
      /\ nr_valid' \in [Zones -> Nat]
      /\ valid_blocks' \in Nat
      /\ writes_stopped' \in BOOLEAN
      /\ AgreeUntilStopped'
      /\ ~TornWrites /\ Offset(dest) % SectorsPerBlock = 0
            /\ Offset(dest) < alloc_wp[Zone(dest)] => IndexesAgree'
  BY <1>1, <1>2, PublishFacts
<1>4. TypeOK'
  BY <1>1, <1>2, <1>3, EndRequestType DEF Inv, TypeOK, Created
<1>5. MappedIsWritten'
  BY <1>1, <1>2, <1>3 DEF Inv, MappedIsWritten
<1>6. WritableIsConsistent'
  BY <1>1, <1>2 DEF Inv, WritableIsConsistent
<1>7. AllocatorOK' /\ WornBound'
  BY <1>1, <1>2 DEF Inv, AllocatorOK, WornBound
<1>8. WholeBlocks'
  <2> SUFFICES ASSUME ~TornWrites PROVE WholeBlocks'
    BY DEF WholeBlocks
  <2>1. /\ \A z \in Zones : dev_wp[z] % SectorsPerBlock = 0
        /\ \A b \in LogicalBlocks : map[b] # None => Offset(map[b]) % SectorsPerBlock = 0
        /\ Offset(dest) % SectorsPerBlock = 0
    BY <1>1, <1>2 DEF Inv, WholeBlocks
  <2>2. Offset(dest) < alloc_wp[Zone(dest)]
    <3>1. Offset(dest) \in Nat /\ Zone(dest) \in Zones
      BY <1>2, LocFacts
    <3>2. dev_wp[Zone(dest)] <= alloc_wp[Zone(dest)]
      BY <1>2, <3>1 DEF Inv, AllocatorOK
    <3> QED BY <1>2, <3>1, <3>2, ConstantFacts, TypeFacts DEF Inv
  <2>3. \A b \in LogicalBlocks : map'[b] # None => Offset(map'[b]) % SectorsPerBlock = 0
    BY <1>3, <2>1
  <2> QED BY <1>1, <1>3, <2>1, <2>2, <2>3 DEF WholeBlocks
<1> QED BY <1>1, <1>3, <1>4, <1>5, <1>6, <1>7, <1>8, IdleWorkerOK DEF Inv

(***************************************************************************)
(* zns_lsm_gc_clean()                                                      *)
(***************************************************************************)
\* What a collection knows while it runs.
LEMMA GcFacts ==
    ASSUME Inv, pc = "gc"
    PROVE  /\ Created /\ ~writes_stopped
           /\ victim \in Zones /\ reserve_zone \in Zones /\ victim # reserve_zone
           /\ SectorsPerBlock <= Cap[victim]
           /\ nr_valid[victim] <= FreeBlocks(reserve_zone)
           /\ alloc_cond[reserve_zone] = "writable"
           /\ alloc_wp[reserve_zone] = dev_wp[reserve_zone]
           /\ IndexesAgree
           /\ req \in LogicalBlocks /\ got = <<>>
<1>1. /\ Created /\ ~writes_stopped /\ victim \in Zones /\ req \in LogicalBlocks
      /\ got = <<>> /\ SectorsPerBlock <= Cap[victim]
  BY DEF Created, Inv, WorkerOK, Busy
<1>2. reserve_zone \in Zones
  BY <1>1, TypeFacts DEF Inv
<1>3. alloc_cond[reserve_zone] = "writable"
  BY <1>1 DEF Inv, AllocatorOK
<1> QED BY <1>1, <1>2, <1>3 DEF Inv, WritableIsConsistent, AgreeUntilStopped

\* Moving a block into the reserve moves the mapping along with the contents.
LEMMA GcMoveVisible ==
    ASSUME Inv, GcMove
    PROVE  /\ ReserveSlot \in Locs /\ rev[Source] \in LogicalBlocks
           /\ map[rev[Source]] = Source /\ Zone(Source) = victim /\ Source \in Locs
           /\ \A c \in LogicalBlocks : map[c] # ReserveSlot
           /\ \A c \in LogicalBlocks : Visible(c)' = Visible(c)
<1>1. /\ Created /\ reserve_zone \in Zones /\ IndexesAgree
      /\ alloc_wp[reserve_zone] = dev_wp[reserve_zone]
  BY GcFacts DEF GcMove
<1>2. /\ Source \in Locs /\ Zone(Source) = victim
      /\ rev[Source] # None /\ rev[Source] \in LogicalBlocks
  BY SourceFacts DEF Inv, GcMove
<1>3. map[rev[Source]] = Source
  BY <1>1, <1>2 DEF IndexesAgree
<1>4. ReserveSlot \in Locs
  BY <1>1, CanAppendFacts DEF Inv, GcMove, ReserveSlot
<1>5. \A c \in LogicalBlocks : map[c] # ReserveSlot
  <2> SUFFICES ASSUME NEW c \in LogicalBlocks, map[c] # None PROVE map[c] # ReserveSlot
    BY <1>4, ConstantFacts
  <2> QED BY <1>1, FreshSlot DEF Inv, ReserveSlot
<1>6. /\ map' = [map EXCEPT ![rev[Source]] = ReserveSlot]
      /\ dev_data' = [dev_data EXCEPT ![ReserveSlot] = dev_data[Source]]
  BY DEF GcMove, PublishWrite
<1>7. /\ \A c \in LogicalBlocks : map'[c] = IF c = rev[Source] THEN ReserveSlot ELSE map[c]
      /\ \A l \in Locs : dev_data'[l] = IF l = ReserveSlot THEN dev_data[Source]
                                                           ELSE dev_data[l]
  BY <1>2, <1>4, <1>6 DEF Inv, TypeOK
<1>8. ASSUME NEW c \in LogicalBlocks PROVE Visible(c)' = Visible(c)
  <2>1. CASE c = rev[Source]
    <3>1. map'[c] = ReserveSlot /\ map'[c] # None /\ map[c] = Source /\ map[c] # None
      BY <1>2, <1>3, <1>4, <1>7, <2>1, ConstantFacts
    <3> QED BY <1>4, <1>7, <3>1 DEF Visible
  <2>2. CASE c # rev[Source]
    <3>1. map'[c] = map[c] /\ (map[c] # None => map[c] \in Locs)
      BY <1>7, <2>2, TypeFacts DEF Inv
    <3> QED BY <1>5, <1>7, <3>1, VisibleKept
  <2> QED BY <2>1, <2>2
<1> QED BY <1>2, <1>3, <1>4, <1>5, <1>8

\* A block is moved: the victim has one live block less, the reserve one free
\* block less.
LEMMA GcMoveCounts ==
    ASSUME Inv, GcMove, ~writes_stopped'
    PROVE  /\ pc' = "gc" /\ victim' = victim /\ reserve_zone' = reserve_zone
           /\ nr_valid'[victim] = nr_valid[victim] - 1
           /\ FreeBlocks(reserve_zone)' = FreeBlocks(reserve_zone) - 1
           /\ nr_valid[victim] \in Nat /\ FreeBlocks(reserve_zone) \in Int
<1> DEFINE r == reserve_zone
           b == rev[Source]
           l == ReserveSlot
<1>1. /\ pc = "gc" /\ CanAppend(r)
      /\ alloc_wp' = [alloc_wp EXCEPT ![r] = @ + SectorsPerBlock]
      /\ PublishWrite(b, l, alloc_wp'[r])
      /\ UNCHANGED <<pc, victim, reserve_zone>>
  BY DEF GcMove, reqVars
<1>2. /\ Created /\ ~writes_stopped /\ victim \in Zones /\ r \in Zones /\ victim # r
  BY <1>1, GcFacts
<1>3. Created'
  BY <1>1 DEF Created
<1>4. /\ l \in Locs /\ b \in LogicalBlocks
      /\ map[b] = Source /\ Zone(Source) = victim /\ Source \in Locs
      /\ \A c \in LogicalBlocks : map[c] # l
  BY GcMoveVisible
<1>5. /\ alloc_wp[r] \in Nat /\ alloc_wp[r] + SectorsPerBlock <= Cap[r]
      /\ Zone(l) = r
  BY <1>1, <1>2, CanAppendFacts, LocFacts DEF Inv, ReserveSlot
<1> HIDE DEF b, l
<1>6. \A z \in Zones :
         nr_valid'[z] = nr_valid[z] + (IF z = Zone(l) THEN 1 ELSE 0)
               - (IF map[b] # None /\ z = Zone(map[b]) THEN 1 ELSE 0)
  BY <1>1, <1>2, <1>3, <1>4, PublishFacts
<1>7. nr_valid'[victim] = nr_valid[victim] - 1
  <2>1. map[b] # None /\ victim = Zone(map[b]) /\ victim # Zone(l)
    BY <1>2, <1>4, <1>5, ConstantFacts
  <2> QED BY <1>2, <1>6, <2>1, TypeFacts DEF Inv
<1>8. FreeBlocks(reserve_zone)' = FreeBlocks(r) - 1
  <2> DEFINE x == Cap[r] - alloc_wp[r]
  <2>1. x \in Nat /\ SectorsPerBlock <= x /\ SectorsPerBlock \in Nat \ {0}
    BY <1>2, <1>5, ConstantFacts
  <2>2. FreeBlocks(r) = x \div SectorsPerBlock
    BY <1>2, <1>5, ConstantFacts DEF FreeBlocks
  <2>3. FreeBlocks(reserve_zone)' = (x - SectorsPerBlock) \div SectorsPerBlock
    <3>1. /\ reserve_zone' = r /\ alloc_wp'[r] = alloc_wp[r] + SectorsPerBlock
          /\ ~(alloc_wp'[r] > Cap[r])
          /\ Cap[r] - alloc_wp'[r] = x - SectorsPerBlock
      BY <1>1, <1>2, <1>5, ConstantFacts DEF Inv, TypeOK
    <3> QED BY <3>1 DEF FreeBlocks
  <2> HIDE DEF x
  <2>4. (x - SectorsPerBlock) \div SectorsPerBlock = (x \div SectorsPerBlock) - 1
    BY <2>1, DivStep
  <2> QED BY <2>2, <2>3, <2>4
<1>9. nr_valid[victim] \in Nat /\ FreeBlocks(r) \in Int
  <2>1. FreeBlocks(r) \in Int
    BY <1>2, ConstantFacts, TypeFacts DEF Inv, FreeBlocks
  <2> QED BY <1>2, <2>1, TypeFacts DEF Inv
<1> QED BY <1>1, <1>7, <1>8, <1>9

\* The collection goes on after a move, or stops the writes.
LEMMA GcMoveKeeps ==
    ASSUME Inv, GcMove
    PROVE  Inv'
<1> DEFINE r == reserve_zone
           b == rev[Source]
           l == ReserveSlot
<1>1. /\ pc = "gc" /\ CanAppend(r) /\ Takes(r)
      /\ alloc_wp' = [alloc_wp EXCEPT ![r] = @ + SectorsPerBlock]
      /\ dev_wp' = [dev_wp EXCEPT ![r] = @ + SectorsPerBlock]
      /\ dev_data' = [dev_data EXCEPT ![l] = dev_data[Source]]
      /\ PublishWrite(b, l, alloc_wp'[r])
      /\ IF writes_stopped' THEN EndRequest ELSE UNCHANGED <<pc, req, buffer, dest, victim, got>>
      /\ UNCHANGED <<policy, dev_worn, alloc_cond, active_zone, reserve_zone>>
  BY DEF GcMove, reqVars
<1>2. /\ Created /\ ~writes_stopped
      /\ victim \in Zones /\ r \in Zones /\ victim # r
      /\ SectorsPerBlock <= Cap[victim]
      /\ nr_valid[victim] <= FreeBlocks(r)
      /\ alloc_cond[r] = "writable"
      /\ alloc_wp[r] = dev_wp[r]
      /\ req \in LogicalBlocks /\ got = <<>>
  BY <1>1, GcFacts
<1>3. Created' /\ pc' \in {"idle", "gc"}
  BY <1>1 DEF Created, EndRequest
<1>4. /\ l \in Locs /\ b \in LogicalBlocks
      /\ map[b] = Source /\ Zone(Source) = victim /\ Source \in Locs
      /\ \A c \in LogicalBlocks : map[c] # l
      /\ \A c \in LogicalBlocks : Visible(c)' = Visible(c)
  BY GcMoveVisible
<1>5. /\ alloc_wp[r] \in Nat /\ alloc_wp[r] + SectorsPerBlock <= Cap[r]
      /\ Zone(l) = r /\ Offset(l) = alloc_wp[r]
  BY <1>1, <1>2, CanAppendFacts, LocFacts DEF Inv, ReserveSlot
<1> HIDE DEF b, l
<1>6. /\ \A y \in Zones : dev_wp'[y] = IF y = r THEN dev_wp[r] + SectorsPerBlock
                                                ELSE dev_wp[y]
      /\ \A y \in Zones : alloc_wp'[y] = IF y = r THEN alloc_wp[r] + SectorsPerBlock
                                                  ELSE alloc_wp[y]
  BY <1>1, <1>2 DEF Inv, TypeOK
<1>7. /\ map' \in [LogicalBlocks -> Locs \cup {None}]
      /\ \A c \in LogicalBlocks : map'[c] = IF c = b THEN l ELSE map[c]
      /\ latest' \in [LogicalBlocks -> Locs \cup {None}]
      /\ rev' \in [Locs -> LogicalBlocks \cup {None}]
      /\ nr_valid' \in [Zones -> Nat]
      /\ valid_blocks' \in Nat
      /\ writes_stopped' \in BOOLEAN
      /\ AgreeUntilStopped'
      /\ ~writes_stopped' => \A z \in Zones :
            nr_valid'[z] = nr_valid[z] + (IF z = Zone(l) THEN 1 ELSE 0)
                  - (IF map[b] # None /\ z = Zone(map[b]) THEN 1 ELSE 0)
      /\ ~TornWrites /\ Offset(l) % SectorsPerBlock = 0 /\ Offset(l) < alloc_wp'[r]
            => IndexesAgree' /\ ~writes_stopped'
  BY <1>1, <1>2, <1>3, <1>4, PublishFacts
<1>8. \A y \in Zones : dev_wp'[y] \in Nat /\ dev_wp[y] <= dev_wp'[y] /\ dev_wp'[y] <= Cap[y]
  BY <1>2, <1>5, <1>6, TypeFacts, ConstantFacts DEF Inv
<1>9. TypeOK'
  <2>1. dev_wp' \in [Zones -> Nat]
    BY <1>1, <1>8 DEF Inv, TypeOK
  <2>2. /\ alloc_wp' \in [Zones -> 0..Length]
        /\ \A y \in Zones : alloc_cond[y] = "writable" => alloc_wp'[y] <= Cap[y]
    <3>1. alloc_wp[r] + SectorsPerBlock \in 0..Length
      BY <1>2, <1>5, ConstantFacts
    <3> QED BY <1>1, <1>2, <1>5, <1>6, <3>1 DEF Inv, TypeOK
  <2>3. dev_data' \in [Locs -> Blocks]
    BY <1>1, <1>4 DEF Inv, TypeOK
  <2>4. /\ pc' \in {"down", "refused", "idle", "write", "gc", "append", "publish"}
        /\ req' \in LogicalBlocks \cup {None}
        /\ buffer' \in Blocks /\ dest' \in Locs \cup {None}
        /\ victim' \in Zones \cup {None}
        /\ got' \in {<<>>} \cup (LogicalBlocks \X Blocks)
    <3>1. CASE writes_stopped'
      BY <1>1, <3>1, EndRequestType DEF Inv
    <3>2. CASE ~writes_stopped'
      BY <1>1, <3>2 DEF Inv, TypeOK
    <3> QED BY <3>1, <3>2
  <2> QED BY <1>1, <1>2, <1>3, <1>7, <1>8, <2>1, <2>2, <2>3, <2>4 DEF Inv, TypeOK
<1>10. MappedIsWritten'
  <2> SUFFICES ASSUME NEW c \in LogicalBlocks, map'[c] # None
               PROVE  Offset(map'[c]) + SectorsPerBlock <= dev_wp'[Zone(map'[c])]
    BY DEF MappedIsWritten
  <2>1. CASE c = b
    BY <1>2, <1>5, <1>6, <1>7, <2>1, ConstantFacts
  <2>2. CASE c # b
    <3>1. map'[c] = map[c] /\ map[c] \in Locs
      BY <1>7, <2>2, TypeFacts DEF Inv
    <3>2. /\ Zone(map[c]) \in Zones /\ Offset(map[c]) \in Nat
          /\ Offset(map[c]) + SectorsPerBlock <= dev_wp[Zone(map[c])]
      BY <2>2, <3>1, LocFacts DEF Inv, MappedIsWritten
    <3> QED BY <1>8, <3>1, <3>2, ConstantFacts, TypeFacts DEF Inv
  <2> QED BY <2>1, <2>2
<1>11. WritableIsConsistent'
  <2> SUFFICES ASSUME ~writes_stopped' PROVE WritableIsConsistent'
    BY DEF WritableIsConsistent
  <2>1. /\ pc' = "gc" /\ victim' = victim /\ reserve_zone' = r
        /\ nr_valid'[victim] = nr_valid[victim] - 1
        /\ FreeBlocks(reserve_zone)' = FreeBlocks(r) - 1
        /\ nr_valid[victim] \in Nat /\ FreeBlocks(r) \in Int
    BY GcMoveCounts
  <2>2. \A y \in Zones : alloc_cond'[y] = "writable" => alloc_wp'[y] = dev_wp'[y]
    BY <1>1, <1>2, <1>6 DEF Inv, WritableIsConsistent
  <2>3. nr_valid'[victim] <= FreeBlocks(reserve_zone)'
    BY <1>2, <2>1
  <2> QED BY <1>2, <2>1, <2>2, <2>3 DEF WritableIsConsistent
<1>12. WorkerOK'
  <2>1. CASE writes_stopped'
    <3>1. pc' = "idle"
      BY <1>1, <2>1 DEF EndRequest
    <3> QED BY <3>1, IdleWorkerOK
  <2>2. CASE ~writes_stopped'
    <3>1. PICK S \in SUBSET Sectors, d \in Data : buffer = Merged(req, S, d)
      BY <1>1 DEF Inv, WorkerOK, Busy
    <3>2. UNCHANGED <<pc, req, buffer, victim, got>>
      BY <1>1, <2>2
    <3>3. buffer' = Merged(req, S, d)'
      BY <1>2, <1>4, <3>1, <3>2 DEF Merged
    <3> QED BY <1>1, <1>2, <2>2, <3>2, <3>3 DEF WorkerOK, Busy
  <2> QED BY <2>1, <2>2
<1>13. AllocatorOK'
  BY <1>1, <1>2, <1>6, ConstantFacts, TypeFacts DEF Inv, AllocatorOK
<1>14. WholeBlocks'
  <2> SUFFICES ASSUME ~TornWrites PROVE WholeBlocks'
    BY DEF WholeBlocks
  <2>1. /\ \A y \in Zones : dev_wp[y] % SectorsPerBlock = 0
        /\ \A c \in LogicalBlocks : map[c] # None => Offset(map[c]) % SectorsPerBlock = 0
    BY <1>2 DEF Inv, WholeBlocks
  <2>2. (dev_wp[r] + SectorsPerBlock) % SectorsPerBlock = 0
    BY <1>2, <1>5, <2>1, GridStep, ConstantFacts
  <2>3. \A y \in Zones : dev_wp'[y] % SectorsPerBlock = 0
    BY <1>6, <2>1, <2>2
  <2>4. Offset(l) % SectorsPerBlock = 0 /\ Offset(l) < alloc_wp'[r]
    BY <1>2, <1>5, <1>6, <2>1, ConstantFacts
  <2>5. \A c \in LogicalBlocks : map'[c] # None => Offset(map'[c]) % SectorsPerBlock = 0
    BY <1>7, <2>1, <2>4
  <2> QED BY <1>3, <1>7, <2>3, <2>4, <2>5 DEF WholeBlocks
<1>15. WornBound'
  BY <1>1 DEF Inv, WornBound
<1> QED BY <1>7, <1>9, <1>10, <1>11, <1>12, <1>13, <1>14, <1>15 DEF Inv

\* A move that fails stops the writes; the reserve may have lost a block.
LEMMA GcMoveFailsKeeps ==
    ASSUME Inv, GcMoveFails
    PROVE  Inv'
<1> DEFINE r == reserve_zone
<1>1. PICK a \in {0, 1}, d \in Moves :
         /\ a = 1 => CanAppend(r)
         /\ d > 0 => a = 1 /\ Takes(r)
         /\ alloc_wp' = [alloc_wp EXCEPT ![r] = @ + a * SectorsPerBlock]
         /\ dev_wp' = [dev_wp EXCEPT ![r] = @ + d]
  BY DEF GcMoveFails
<1>2. /\ pc = "gc" /\ pc' = "idle" /\ EndRequest /\ writes_stopped' = TRUE
      /\ UNCHANGED <<policy, dev_data, dev_worn, alloc_cond, active_zone, reserve_zone,
                     map, latest, rev, nr_valid, valid_blocks>>
  BY DEF GcMoveFails, indexVars, EndRequest
<1>3. Created /\ Created' /\ r \in Zones /\ alloc_cond[r] = "writable"
  BY <1>2, GcFacts DEF Created
<1>4. a = 1 => alloc_wp[r] + SectorsPerBlock <= Cap[r]
  BY <1>1, <1>3, CanAppendFacts DEF Inv
<1>5. /\ dev_wp' \in [Zones -> Nat]
      /\ \A y \in Zones : /\ dev_wp'[y] \in Nat
                          /\ dev_wp[y] <= dev_wp'[y] /\ dev_wp'[y] <= Cap[y]
                          /\ y # r => dev_wp'[y] = dev_wp[y]
      /\ ~TornWrites /\ dev_wp[r] % SectorsPerBlock = 0
            => dev_wp'[r] % SectorsPerBlock = 0
  BY <1>1, <1>3, <1>4, GrowFacts DEF Inv
<1>6. /\ alloc_wp' \in [Zones -> 0..Length]
      /\ \A y \in Zones : alloc_cond[y] = "writable" => alloc_wp'[y] <= Cap[y]
  <2>1. CASE a = 0
    <3>1. alloc_wp[r] + a * SectorsPerBlock = alloc_wp[r]
      BY <1>3, <2>1, TypeFacts, ConstantFacts DEF Inv
    <3> QED BY <1>1, <1>3, <3>1 DEF Inv, TypeOK
  <2>2. CASE a = 1
    <3>1. /\ alloc_wp[r] + a * SectorsPerBlock \in 0..Length
          /\ alloc_wp[r] + a * SectorsPerBlock <= Cap[r]
      BY <1>3, <1>4, <2>2, TypeFacts, ConstantFacts DEF Inv
    <3> QED BY <1>1, <1>3, <3>1 DEF Inv, TypeOK
  <2> QED BY <2>1, <2>2
<1>7. TypeOK'
  BY <1>2, <1>3, <1>5, <1>6, EndRequestType DEF Inv, TypeOK, Created
<1>8. MappedIsWritten'
  BY <1>2, <1>5, GrownIsWritten DEF Inv
<1>9. WritableIsConsistent' /\ AgreeUntilStopped'
  BY <1>2 DEF WritableIsConsistent, AgreeUntilStopped
<1>10. AllocatorOK' /\ WornBound'
  BY <1>2, <1>3 DEF Inv, AllocatorOK, WornBound
<1>11. WholeBlocks'
  BY <1>2, <1>3, <1>5, GridKept
<1> QED BY <1>2, <1>7, <1>8, <1>9, <1>10, <1>11, IdleWorkerOK DEF Inv

\* Resetting a victim without live blocks touches no mapped block.
LEMMA ResetFacts ==
    ASSUME Inv, pc = "gc", LiveSlots = {}, ResetVictim, map' = map
    PROVE  /\ \A y \in Zones : dev_wp'[y] = IF y = victim THEN 0 ELSE dev_wp[y]
           /\ dev_wp' \in [Zones -> Nat] /\ \A y \in Zones : dev_wp'[y] <= Cap[y]
           /\ dev_data' \in [Locs -> Blocks]
           /\ MappedIsWritten'
           /\ \A c \in LogicalBlocks : Visible(c)' = Visible(c)
           /\ 0 % SectorsPerBlock = 0
<1>1. victim \in Zones /\ IndexesAgree /\ Created
  BY GcFacts
<1>2. \A y \in Zones : dev_wp'[y] = IF y = victim THEN 0 ELSE dev_wp[y]
  BY <1>1 DEF ResetVictim, Inv, TypeOK
<1>3. dev_wp' \in [Zones -> Nat] /\ \A y \in Zones : dev_wp'[y] <= Cap[y]
  BY <1>1, <1>2, ConstantFacts DEF ResetVictim, Inv, TypeOK
<1>4. dev_data' \in [Locs -> Blocks]
  BY ConstantFacts DEF ResetVictim, Inv, TypeOK
<1>5. \A c \in LogicalBlocks : map[c] # None => map[c] \in Locs /\ Zone(map[c]) # victim
  BY <1>1, TypeFacts, ConstantFacts DEF Inv, IndexesAgree, LiveSlots
<1>6. MappedIsWritten'
  BY <1>2, <1>5, LocFacts DEF Inv, MappedIsWritten
<1>7. \A c \in LogicalBlocks : Visible(c)' = Visible(c)
  <2> SUFFICES ASSUME NEW c \in LogicalBlocks PROVE Visible(c)' = Visible(c)
    OBVIOUS
  <2>1. map[c] # None => dev_data'[map[c]] = dev_data[map[c]]
    BY <1>5 DEF ResetVictim
  <2> QED BY <2>1, VisibleKept
<1>8. 0 % SectorsPerBlock = 0
  BY ConstantFacts
<1> QED BY <1>2, <1>3, <1>4, <1>6, <1>7, <1>8

\* The collection ends: the victim is the new reserve.
LEMMA GcResetKeeps ==
    ASSUME Inv, GcReset
    PROVE  Inv'
<1>1. /\ pc = "gc" /\ pc' = "append" /\ LiveSlots = {} /\ ResetVictim /\ map' = map
      /\ alloc_wp' = [alloc_wp EXCEPT ![victim] = 0]
      /\ alloc_cond' = [alloc_cond EXCEPT ![victim] = "writable"]
      /\ reserve_zone' = victim /\ victim' = None
      /\ UNCHANGED <<policy, dev_worn, active_zone, latest, rev, nr_valid, valid_blocks,
                     writes_stopped, req, buffer, dest, got>>
  BY DEF GcReset, indexVars
<1>2. /\ Created /\ Created' /\ ~writes_stopped /\ victim \in Zones
      /\ SectorsPerBlock <= Cap[victim] /\ IndexesAgree
      /\ req \in LogicalBlocks /\ got = <<>>
  BY <1>1, GcFacts DEF Created
<1>3. /\ \A y \in Zones : dev_wp'[y] = IF y = victim THEN 0 ELSE dev_wp[y]
      /\ dev_wp' \in [Zones -> Nat] /\ \A y \in Zones : dev_wp'[y] <= Cap[y]
      /\ dev_data' \in [Locs -> Blocks]
      /\ MappedIsWritten'
      /\ \A c \in LogicalBlocks : Visible(c)' = Visible(c)
      /\ 0 % SectorsPerBlock = 0
  BY <1>1, ResetFacts
<1>4. /\ \A y \in Zones : alloc_wp'[y] = IF y = victim THEN 0 ELSE alloc_wp[y]
      /\ \A y \in Zones : alloc_cond'[y] = IF y = victim THEN "writable" ELSE alloc_cond[y]
      /\ alloc_wp' \in [Zones -> 0..Length]
      /\ alloc_cond' \in [Zones -> {"writable", "full", "readonly"}]
  BY <1>1, <1>2, ConstantFacts DEF Inv, TypeOK
<1>5. TypeOK'
  <2>1. \A y \in Zones : /\ 0 <= Cap[y]
                         /\ alloc_cond[y] = "writable" => alloc_wp[y] <= Cap[y]
    BY ConstantFacts DEF Inv, TypeOK
  <2>2. \A y \in Zones : alloc_cond'[y] = "writable" => alloc_wp'[y] <= Cap[y]
    BY <1>4, <2>1
  <2> QED BY <1>1, <1>2, <1>3, <1>4, <2>2 DEF Inv, TypeOK
<1>6. WritableIsConsistent'
  <2>1. \A y \in Zones : alloc_cond'[y] = "writable" => alloc_wp'[y] = dev_wp'[y]
    BY <1>2, <1>3, <1>4 DEF Inv, WritableIsConsistent
  <2> QED BY <1>1, <1>2, <1>4, <2>1 DEF WritableIsConsistent
<1>7. WorkerOK'
  <2>1. PICK S \in SUBSET Sectors, d \in Data : buffer = Merged(req, S, d)
    BY <1>1 DEF Inv, WorkerOK, Busy
  <2>2. buffer' = Merged(req, S, d)'
    BY <1>1, <1>2, <1>3, <2>1 DEF Merged
  <2> QED BY <1>1, <1>2, <2>2 DEF WorkerOK, Busy
<1>8. AllocatorOK'
  <2>1. \A y \in Zones : dev_wp'[y] <= alloc_wp'[y]
    BY <1>2, <1>3, <1>4 DEF Inv, AllocatorOK
  <2> QED BY <1>1, <1>2, <1>4, <2>1 DEF AllocatorOK
<1>9. IndexesAgree'
  BY <1>1, <1>2, IndexesKept
<1>10. WholeBlocks'
  BY <1>1, <1>2, <1>3, <1>9 DEF Inv, WholeBlocks
<1>11. AgreeUntilStopped' /\ WornBound'
  BY <1>1, <1>9 DEF Inv, AgreeUntilStopped, WornBound
<1> QED BY <1>3, <1>5, <1>6, <1>7, <1>8, <1>10, <1>11 DEF Inv

\* A reset that fails stops the writes, whether or not the device did it.
LEMMA GcResetFailsKeeps ==
    ASSUME Inv, GcResetFails
    PROVE  Inv'
<1>1. /\ pc = "gc" /\ pc' = "idle" /\ EndRequest /\ LiveSlots = {} /\ map' = map
      /\ writes_stopped' = TRUE
      /\ UNCHANGED <<policy, dev_worn, alloc_wp, alloc_cond, active_zone, reserve_zone,
                     latest, rev, nr_valid, valid_blocks>>
  BY DEF GcResetFails, EndRequest, indexVars, allocVars
<1>2. Created /\ Created' /\ victim \in Zones
  BY <1>1, GcFacts DEF Created
<1>3. /\ \A y \in Zones : dev_wp'[y] = dev_wp[y] \/ (y = victim /\ dev_wp'[y] = 0)
      /\ dev_wp' \in [Zones -> Nat] /\ \A y \in Zones : dev_wp'[y] <= Cap[y]
      /\ dev_data' \in [Locs -> Blocks]
      /\ MappedIsWritten'
  <2>1. CASE UNCHANGED <<dev_wp, dev_data>>
    BY <1>1, <2>1 DEF Inv, TypeOK, MappedIsWritten
  <2>2. CASE ResetVictim
    BY <1>1, <2>2, ResetFacts
  <2> QED BY <2>1, <2>2 DEF GcResetFails
<1>4. TypeOK'
  BY <1>1, <1>2, <1>3, EndRequestType DEF Inv, TypeOK, Created
<1>5. WritableIsConsistent' /\ AgreeUntilStopped'
  BY <1>1 DEF WritableIsConsistent, AgreeUntilStopped
<1>6. AllocatorOK' /\ WornBound'
  BY <1>1, <1>2 DEF Inv, AllocatorOK, WornBound
<1>7. WholeBlocks'
  <2>1. 0 % SectorsPerBlock = 0
    BY ConstantFacts
  <2>2. dev_wp[victim] % SectorsPerBlock = 0 => dev_wp'[victim] % SectorsPerBlock = 0
    BY <1>2, <1>3, <2>1
  <2> QED BY <1>1, <1>2, <1>3, <2>2, GridKept
<1> QED BY <1>1, <1>3, <1>4, <1>5, <1>6, <1>7, IdleWorkerOK DEF Inv

(***************************************************************************)
(* Removal, creation, wear                                                 *)
(***************************************************************************)
\* The target is removed: nothing of the instance is left.
LEMMA RemoveKeeps ==
    ASSUME Inv, Remove
    PROVE  Inv'
<1> USE DEF Remove, AllocatorExit, devVars
<1>1. pc' = "down" /\ ~Created' /\ Created
  BY DEF Created
<1>2. TypeOK'
  <2>1. /\ alloc_wp' \in [Zones -> 0..Length]
        /\ alloc_cond' \in [Zones -> {"writable", "full", "readonly"}]
        /\ \A z \in Zones : alloc_wp'[z] <= Cap[z]
        /\ active_zone' \in 0..NrZones
    BY ConstantFacts
  <2>2. /\ latest' \in [LogicalBlocks -> Locs \cup {None}]
        /\ rev' \in [Locs -> LogicalBlocks \cup {None}]
        /\ nr_valid' \in [Zones -> Nat] /\ valid_blocks' \in Nat
    OBVIOUS
  <2>3. /\ req' = None /\ buffer' \in Blocks /\ dest' = None /\ victim' = None
        /\ got' = <<>> /\ writes_stopped' = FALSE /\ reserve_zone' = None
        /\ UNCHANGED <<policy, dev_wp, dev_data, dev_worn, map>>
    BY ConstantFacts
  <2> QED BY <1>1, <2>1, <2>2, <2>3 DEF Inv, TypeOK
<1>3. MappedIsWritten' /\ WornBound'
  BY DEF Inv, MappedIsWritten, WornBound
<1>4. WritableIsConsistent' /\ AllocatorOK' /\ IndexesAgree'
  BY <1>1 DEF WritableIsConsistent, AllocatorOK, IndexesAgree
<1>5. WholeBlocks' /\ AgreeUntilStopped'
  BY <1>1, <1>4 DEF Inv, WholeBlocks, AgreeUntilStopped
<1> QED BY <1>1, <1>2, <1>3, <1>4, <1>5, IdleWorkerOK DEF Inv

\* A creation that is refused changes nothing.
LEMMA CreateRefusedKeeps ==
    ASSUME Inv, CreateRefused
    PROVE  Inv'
<1> USE DEF CreateRefused, devVars, allocVars, indexVars, reqVars
<1>1. pc' = "refused" /\ ~Created' /\ ~Created
  BY DEF Created
<1>2. TypeOK'
  BY <1>1 DEF Inv, TypeOK, Created
<1>3. WritableIsConsistent'
  BY <1>1 DEF WritableIsConsistent
<1> QED BY <1>1, <1>2, <1>3, QuietKeeps, IdleWorkerOK DEF Inv

\* The rebuild of the GC indexes from the log gives the inverse of the mapping,
\* and counts it.
LEMMA RebuiltIndexesAgree ==
    ASSUME TypeOK, Created', map' = map, latest' = map,
           \A b, c \in LogicalBlocks : map[b] # None /\ b # c => map[c] # map[b],
           rev' = [l \in Locs |-> IF \E b \in LogicalBlocks : map[b] = l
                              THEN CHOOSE b \in LogicalBlocks : map[b] = l ELSE None],
           nr_valid' = [z \in Zones |->
                       Cardinality({b \in LogicalBlocks : map[b] # None /\ Zone(map[b]) = z})],
           valid_blocks' = Cardinality({b \in LogicalBlocks : map[b] # None})
    PROVE  /\ IndexesAgree'
           /\ rev' \in [Locs -> LogicalBlocks \cup {None}]
           /\ nr_valid' \in [Zones -> Nat]
           /\ valid_blocks' \in Nat
<1>1. /\ rev' \in [Locs -> LogicalBlocks \cup {None}]
      /\ \A b \in LogicalBlocks : map[b] # None => rev'[map[b]] = b
      /\ \A l \in Locs : rev'[l] # None => map[rev'[l]] = l
  BY TypeFacts
<1>2. \A T \in SUBSET LogicalBlocks : IsFiniteSet(T) /\ Cardinality(T) \in Nat
  BY DataPathAssumption, FS_Subset, FS_CardinalityType
<1>3. nr_valid' \in [Zones -> Nat]
  <2>1. \A z \in Zones :
           {b \in LogicalBlocks : map[b] # None /\ Zone(map[b]) = z} \in SUBSET LogicalBlocks
    OBVIOUS
  <2> QED BY <1>2, <2>1
<1>4. valid_blocks' \in Nat
  <2>1. {b \in LogicalBlocks : map[b] # None} \in SUBSET LogicalBlocks
    OBVIOUS
  <2> QED BY <1>2, <2>1
<1>5. ASSUME NEW z \in Zones
      PROVE  nr_valid'[z] = Cardinality({l \in Locs : Zone(l) = z /\ rev'[l] # None})
  <2> DEFINE B == {b \in LogicalBlocks : map[b] # None /\ Zone(map[b]) = z}
             L == {l \in Locs : Zone(l) = z /\ rev'[l] # None}
             f == [b \in B |-> map[b]]
  <2>1. \A b \in B : map[b] \in L
    BY <1>1, TypeFacts, ConstantFacts
  <2>2. \A l \in L : rev'[l] \in B /\ map[rev'[l]] = l
    BY <1>1, ConstantFacts
  <2>3. \A b, c \in B : map[b] = map[c] => b = c
    BY <1>1
  <2>4. IsFiniteSet(B)
    <3>1. B \in SUBSET LogicalBlocks
      OBVIOUS
    <3> HIDE DEF B
    <3> QED BY <1>2, <3>1
  <2>5. nr_valid'[z] = Cardinality(B)
    OBVIOUS
  <2> HIDE DEF B, L
  <2>6. f \in Bijection(B, L)
    <3>1. f \in [B -> L]
      BY <2>1
    <3>2. \A b, c \in B : f[b] = f[c] => b = c
      BY <2>3
    <3>3. \A l \in L : \E b \in B : f[b] = l
      BY <2>2
    <3> HIDE DEF f
    <3> QED BY <3>1, <3>2, <3>3 DEF Bijection, Injection, Surjection, IsInjective
  <2>7. Cardinality(L) = Cardinality(B)
    <3>1. ExistsBijection(B, L)
      BY <2>6 DEF ExistsBijection
    <3> QED BY <2>4, <3>1, FS_Bijection
  <2> QED BY <2>5, <2>7 DEF L
<1>6. IndexesAgree'
  BY <1>1, <1>5 DEF IndexesAgree
<1> QED BY <1>1, <1>3, <1>4, <1>6

\* The target is created on the zones as they are reported.
LEMMA CreateKeeps ==
    ASSUME Inv, Create
    PROVE  Inv'
<1>1. PICK at_end \in BOOLEAN :
         /\ Restorable(ReportedWps(at_end))
         /\ InitZoned(at_end)
  BY DEF Create
<1>2. /\ pc' = "idle" /\ EmptyZones # {} /\ reserve_zone' = Max(EmptyZones)
      /\ latest' = map
      /\ rev' = [l \in Locs |-> IF \E b \in LogicalBlocks : map[b] = l
                                THEN CHOOSE b \in LogicalBlocks : map[b] = l ELSE None]
      /\ nr_valid' = [z \in Zones |->
                Cardinality({b \in LogicalBlocks : map[b] # None /\ Zone(map[b]) = z})]
      /\ valid_blocks' = Cardinality({b \in LogicalBlocks : map[b] # None})
      /\ UNCHANGED <<policy, dev_wp, dev_data, dev_worn, map, writes_stopped, req, buffer,
                     dest, victim, got>>
  BY DEF Create, devVars, reqVars
<1>3. Created'
  BY <1>2 DEF Created
<1>4. /\ alloc_wp' = [z \in Zones |-> ReportedWp(z, dev_wp[z], at_end)]
      /\ alloc_cond' = [z \in Zones |-> Condition(z, dev_wp[z])]
      /\ active_zone' = 0
  BY <1>1 DEF InitZoned, ReportedWps, Conditions
<1>5. \A z \in Zones : /\ alloc_wp'[z] \in 0..Length /\ dev_wp[z] <= alloc_wp'[z]
                       /\ alloc_cond'[z] \in {"writable", "full", "readonly"}
                       /\ alloc_cond'[z] = "writable" => alloc_wp'[z] = dev_wp[z]
  <2> SUFFICES ASSUME NEW z \in Zones
               PROVE  /\ alloc_wp'[z] \in 0..Length /\ dev_wp[z] <= alloc_wp'[z]
                      /\ alloc_cond'[z] \in {"writable", "full", "readonly"}
                      /\ alloc_cond'[z] = "writable" => alloc_wp'[z] = dev_wp[z]
    OBVIOUS
  <2>1. dev_wp[z] \in Nat /\ dev_wp[z] <= Cap[z]
    BY TypeFacts DEF Inv
  <2> QED BY <1>4, <2>1, ReportFacts
<1>6. /\ reserve_zone' \in Zones /\ SectorsPerBlock <= Cap[reserve_zone']
      /\ alloc_cond'[reserve_zone'] = "writable" /\ dev_wp[reserve_zone'] = 0
  BY <1>2, <1>4, MaxFacts DEF EmptyZones, Conditions
<1>7. /\ IndexesAgree'
      /\ rev' \in [Locs -> LogicalBlocks \cup {None}]
      /\ nr_valid' \in [Zones -> Nat]
      /\ valid_blocks' \in Nat
  <2>1. \A b, c \in LogicalBlocks : map[b] # None /\ b # c => map[c] # map[b]
    BY <1>1 DEF Restorable
  <2> QED BY <1>2, <1>3, <2>1, RebuiltIndexesAgree DEF Inv
<1>8. TypeOK'
  <2>1. /\ alloc_wp' \in [Zones -> 0..Length]
        /\ alloc_cond' \in [Zones -> {"writable", "full", "readonly"}]
    BY <1>4, <1>5
  <2>2. \A z \in Zones : alloc_cond'[z] = "writable" => alloc_wp'[z] <= Cap[z]
    BY <1>5, TypeFacts DEF Inv
  <2>3. active_zone' \in 0..NrZones
    BY <1>4, ConstantFacts
  <2> QED BY <1>2, <1>3, <1>6, <1>7, <2>1, <2>2, <2>3 DEF Inv, TypeOK
<1>9. MappedIsWritten' /\ WornBound' /\ AgreeUntilStopped'
  BY <1>2, <1>7 DEF Inv, MappedIsWritten, WornBound, AgreeUntilStopped
<1>10. WritableIsConsistent' /\ AllocatorOK'
  BY <1>2, <1>5, <1>6 DEF WritableIsConsistent, AllocatorOK
<1>11. WholeBlocks'
  <2>1. \A b \in LogicalBlocks : map[b] # None => Offset(map[b]) % SectorsPerBlock = 0
    BY <1>1 DEF Restorable, HasSlot
  <2> QED BY <1>2, <1>7, <2>1 DEF Inv, WholeBlocks
<1> QED BY <1>2, <1>8, <1>9, <1>10, <1>11, IdleWorkerOK DEF Inv

\* A zone becomes read-only behind the engine's back.
LEMMA WearOutKeeps ==
    ASSUME Inv, NEW z \in Zones, WearOut(z)
    PROVE  Inv'
<1> USE DEF WearOut, allocVars, indexVars, reqVars
<1>1. TypeOK' /\ MappedIsWritten'
  BY DEF Inv, TypeOK, MappedIsWritten, Created
<1>2. WritableIsConsistent' /\ AllocatorOK'
  BY DEF Inv, WritableIsConsistent, AllocatorOK, Created, FreeBlocks
<1>3. IndexesAgree' <=> IndexesAgree
  BY DEF IndexesAgree, Created
<1>4. AgreeUntilStopped' /\ WholeBlocks'
  BY <1>3 DEF Inv, AgreeUntilStopped, WholeBlocks, Created
<1>5. WornBound'
  <2> SUFFICES ASSUME MaxWorn = 0 PROVE FALSE
    BY DEF WornBound
  <2>1. dev_worn = {}
    BY DEF Inv, WornBound
  <2> QED BY <2>1, FS_EmptySet
<1>6. WorkerOK'
  <2>1. \A b \in LogicalBlocks : Visible(b)' = Visible(b)
    BY DEF Visible
  <2>2. ASSUME Busy
        PROVE  \E S \in SUBSET Sectors, d \in Data : buffer' = Merged(req, S, d)'
    <3>1. PICK S \in SUBSET Sectors, d \in Data : buffer = Merged(req, S, d)
      BY <2>2 DEF Inv, WorkerOK
    <3>2. buffer' = Merged(req, S, d)'
      BY <2>1, <2>2, <3>1 DEF Inv, WorkerOK, Merged
    <3> QED BY <3>2
  <2> QED BY <2>2 DEF Inv, WorkerOK, Busy
<1> QED BY <1>1, <1>2, <1>4, <1>5, <1>6 DEF Inv

(***************************************************************************)
(* The theorems                                                            *)
(***************************************************************************)
\* The invariant holds before the first creation.
LEMMA InitInv == Init => Inv
<1> SUFFICES ASSUME Init PROVE Inv
  OBVIOUS
<1> USE DEF Init
<1>1. ~Created /\ pc = "down"
  BY DEF Created
<1>2. TypeOK
  <2>1. /\ alloc_wp \in [Zones -> 0..Length] /\ dev_wp \in [Zones -> Nat]
        /\ alloc_cond \in [Zones -> {"writable", "full", "readonly"}]
        /\ \A z \in Zones : alloc_wp[z] <= Cap[z] /\ dev_wp[z] <= Cap[z]
        /\ active_zone \in 0..NrZones
    BY ConstantFacts
  <2>2. /\ latest \in [LogicalBlocks -> Locs \cup {None}]
        /\ map \in [LogicalBlocks -> Locs \cup {None}]
        /\ rev \in [Locs -> LogicalBlocks \cup {None}]
        /\ nr_valid \in [Zones -> Nat] /\ valid_blocks \in Nat
    OBVIOUS
  <2>3. dev_data \in [Locs -> Blocks] /\ buffer \in Blocks /\ dev_worn \subseteq Zones
    BY ConstantFacts
  <2> QED BY <1>1, <2>1, <2>2, <2>3 DEF TypeOK
<1>3. MappedIsWritten /\ WornBound /\ WritableIsConsistent
  BY <1>1 DEF MappedIsWritten, WornBound, WritableIsConsistent
<1>4. WorkerOK /\ AllocatorOK /\ IndexesAgree
  BY <1>1 DEF WorkerOK, AllocatorOK, IndexesAgree, Busy
<1>5. WholeBlocks /\ AgreeUntilStopped
  <2>1. 0 % SectorsPerBlock = 0
    BY ConstantFacts
  <2> QED BY <1>1, <1>4, <2>1 DEF WholeBlocks, AgreeUntilStopped
<1> QED BY <1>2, <1>3, <1>4, <1>5 DEF Inv

\* Every step of the worker, of the device and of the administrator keeps the
\* invariant.
LEMMA NextKeeps == Inv /\ [Next]_vars => Inv'
<1> SUFFICES ASSUME Inv, [Next]_vars PROVE Inv'
  OBVIOUS
<1>1. CASE Request
  BY <1>1, RequestKeeps
<1>2. CASE NoGcNeeded
  BY <1>2, NoGcNeededKeeps
<1>3. CASE NoGcBuffer \/ OutOfSpace \/ PublishFails
  BY <1>3, RefusalKeeps DEF NoGcBuffer, OutOfSpace, PublishFails, Busy
<1>4. CASE Collect
  BY <1>4, SelectVictimKeeps, GcMoveKeeps, GcMoveFailsKeeps, GcResetKeeps,
     GcResetFailsKeeps DEF Collect
<1>5. CASE Append \/ AppendFails \/ AppendFailsStopped
  BY <1>5, AppendKeeps, AppendFailsKeeps, AppendFailsStoppedKeeps
<1>6. CASE Publish
  BY <1>6, PublishKeeps
<1>7. CASE Lifecycle
  BY <1>7, RemoveKeeps, CreateKeeps, CreateRefusedKeeps DEF Lifecycle
<1>8. CASE \E z \in Zones : WearOut(z)
  BY <1>8, WearOutKeeps
<1>9. CASE UNCHANGED vars
  <2> USE <1>9 DEF vars, devVars, allocVars, indexVars, reqVars
  <2>1. TypeOK' /\ MappedIsWritten'
    BY DEF Inv, TypeOK, MappedIsWritten, Created
  <2>2. WritableIsConsistent' /\ AllocatorOK' /\ WornBound'
    BY DEF Inv, WritableIsConsistent, AllocatorOK, WornBound, Created, FreeBlocks
  <2>3. IndexesAgree' <=> IndexesAgree
    BY DEF IndexesAgree, Created
  <2>4. AgreeUntilStopped' /\ WholeBlocks'
    BY <2>3 DEF Inv, AgreeUntilStopped, WholeBlocks, Created
  <2>5. WorkerOK'
    <3>1. \A b \in LogicalBlocks : Visible(b)' = Visible(b)
      BY DEF Visible
    <3>2. ASSUME Busy
          PROVE  \E S \in SUBSET Sectors, d \in Data : buffer' = Merged(req, S, d)'
      <4>1. PICK S \in SUBSET Sectors, d \in Data : buffer = Merged(req, S, d)
        BY <3>2 DEF Inv, WorkerOK
      <4>2. buffer' = Merged(req, S, d)'
        BY <3>1, <3>2, <4>1 DEF Inv, WorkerOK, Merged
      <4> QED BY <4>2
    <3> QED BY <3>2 DEF Inv, WorkerOK, Busy
  <2> QED BY <2>1, <2>2, <2>4, <2>5 DEF Inv
<1> QED BY <1>1, <1>2, <1>3, <1>4, <1>5, <1>6, <1>7, <1>8, <1>9 DEF Next, Worker

\* The invariant holds in every reachable state, for any zones and blocks, torn
\* writes and worn zones included.
THEOREM InvHolds == Spec => []Inv
BY InitInv, NextKeeps, PTL DEF Spec

\* The fields of the engine, the allocator and the worker keep their types: no
\* write pointer passes the end of a zone, no counter falls below zero.
THEOREM TypeCorrect == Spec => []TypeOK
<1>1. Inv => TypeOK
  BY DEF Inv
<1> QED BY InvHolds, <1>1, PTL

\* No mapping points at a block the device does not hold, whatever lower write,
\* zone report or zone reset fails in zns_lsm_append_write() and
\* zns_lsm_gc_clean(), and however often the target is created again.
THEOREM MappedStaysWritten == Spec => []MappedIsWritten
<1>1. Inv => MappedIsWritten
  BY DEF Inv
<1> QED BY InvHolds, <1>1, PTL

\* While writes are allowed, the write pointers of the allocator are the device's,
\* the reserve is empty outside a collection and large enough for the victim
\* inside one.
THEOREM WritableStaysConsistent == Spec => []WritableIsConsistent
<1>1. Inv => WritableIsConsistent
  BY DEF Inv
<1> QED BY InvHolds, <1>1, PTL

\* On a device that writes whole blocks, zns_lsm->latest and gc_zones agree with
\* the mapping after each published write, as struct zns_lsm demands.
THEOREM IndexesStayInStep ==
    ASSUME ~TornWrites
    PROVE  Spec => []IndexesAgree
<1>1. Inv => IndexesAgree
  BY DEF Inv, WholeBlocks
<1> QED BY InvHolds, <1>1, PTL

\* On such a device the -EINVAL exits of zns_lsm_update_gc_block_location() are
\* dead code: it accepts every block that was written.
THEOREM IndexesAccept ==
    ASSUME ~TornWrites
    PROVE  Spec => []IndexNeverRefuses
<1>1. Inv => IndexNeverRefuses
  <2> SUFFICES ASSUME Inv, pc = "publish"
               PROVE  IndexAccepts(req, dest, alloc_wp[Zone(dest)])
    BY DEF IndexNeverRefuses
  <2>1. /\ Created /\ ~writes_stopped /\ req \in LogicalBlocks
        /\ dest \in Locs /\ \A c \in LogicalBlocks : map[c] # dest
        /\ Offset(dest) + SectorsPerBlock <= dev_wp[Zone(dest)]
        /\ Offset(dest) % SectorsPerBlock = 0
    BY DEF Created, Inv, WorkerOK, Busy, WholeBlocks
  <2>2. Offset(dest) < alloc_wp[Zone(dest)]
    <3>1. Offset(dest) \in Nat /\ Zone(dest) \in Zones
      BY <2>1, LocFacts
    <3>2. dev_wp[Zone(dest)] <= alloc_wp[Zone(dest)]
      BY <2>1, <3>1 DEF Inv, AllocatorOK
    <3> QED BY <2>1, <3>1, <3>2, ConstantFacts, TypeFacts DEF Inv
  <2> QED BY <2>1, <2>2, WholeBlockAccepted
<1> QED BY InvHolds, <1>1, PTL

\* On a device that writes whole blocks and does not wear out, a target can be
\* removed and created again unless a collection stopped half way.
THEOREM CreatableUnlessStopped ==
    ASSUME ~TornWrites, MaxWorn = 0
    PROVE  Spec => []RefusedAfterStopOnly
<1>1. Inv => RefusedAfterStopOnly
  <2> SUFFICES ASSUME Inv, Created, pc # "gc",
                      ~(writes_stopped /\ dev_wp[reserve_zone] > 0)
               PROVE  /\ EmptyZones # {}
                      /\ \A at_end \in BOOLEAN : Restorable(ReportedWps(at_end))
    BY DEF RefusedAfterStopOnly
  <2>1. reserve_zone \in Zones /\ SectorsPerBlock <= Cap[reserve_zone] /\ dev_worn = {}
    BY TypeFacts DEF Inv, AllocatorOK, WornBound
  <2>2. dev_wp[reserve_zone] = 0
    <3>1. CASE writes_stopped
      BY <2>1, <3>1, TypeFacts DEF Inv
    <3>2. CASE ~writes_stopped
      BY <2>1, <3>2 DEF Inv, AllocatorOK, WritableIsConsistent
    <3> QED BY <3>1, <3>2
  <2>3. reserve_zone \in EmptyZones
    <3>1. Condition(reserve_zone, dev_wp[reserve_zone]) = "writable"
      BY <2>1, <2>2, ConstantFacts DEF Condition
    <3> QED BY <2>1, <2>2, <3>1 DEF EmptyZones, Conditions
  <2>4. ASSUME NEW at_end \in BOOLEAN PROVE Restorable(ReportedWps(at_end))
    <3> SUFFICES ASSUME NEW b \in LogicalBlocks, map[b] # None
                 PROVE  /\ HasSlot(map[b], ReportedWps(at_end)[Zone(map[b])],
                                   Conditions[Zone(map[b])])
                        /\ \A c \in LogicalBlocks \ {b} : map[c] # map[b]
      BY DEF Restorable
    <3> DEFINE z == Zone(map[b])
    <3>1. /\ map[b] \in Locs /\ z \in Zones /\ Offset(map[b]) \in Nat
          /\ Offset(map[b]) + SectorsPerBlock <= dev_wp[z]
          /\ Offset(map[b]) % SectorsPerBlock = 0
      BY LocFacts, TypeFacts DEF Inv, MappedIsWritten, WholeBlocks
    <3> HIDE DEF z
    <3>2. dev_wp[z] \in Nat /\ dev_wp[z] <= Cap[z]
      BY <3>1, TypeFacts DEF Inv
    <3>3. /\ ReportedWps(at_end)[z] \in 0..Length
          /\ dev_wp[z] <= ReportedWps(at_end)[z]
      BY <3>1, <3>2, ReportFacts DEF ReportedWps
    <3>4. Offset(map[b]) < ReportedWps(at_end)[z]
      BY <3>1, <3>2, <3>3, ConstantFacts
    <3>5. \A c \in LogicalBlocks \ {b} : map[c] # map[b]
      BY DEF Inv, WholeBlocks, IndexesAgree
    <3> QED BY <3>1, <3>4, <3>5 DEF HasSlot, z
  <2> QED BY <2>3, <2>4
<1> QED BY InvHolds, <1>1, PTL

(***************************************************************************)
(* ZnsDataPath implements BlockDevice                                      *)
(***************************************************************************)
\* An append writes where nothing is mapped.
LEMMA AppendVisible ==
    ASSUME Inv, Append
    PROVE  \A c \in LogicalBlocks : Visible(c)' = Visible(c)
<1> DEFINE z == AllocZone
           l == <<z, alloc_wp[z]>>
<1>1. /\ HasSpace /\ Takes(z) /\ map' = map
      /\ dev_data' = [dev_data EXCEPT ![l] = buffer]
  BY DEF Append
<1>2. z \in Zones /\ l = <<z, dev_wp[z]>>
  BY <1>1, AllocZoneFacts DEF Inv, Takes
<1> HIDE DEF z, l
<1> SUFFICES ASSUME NEW c \in LogicalBlocks PROVE Visible(c)' = Visible(c)
  OBVIOUS
<1>3. map[c] # None => map[c] # l /\ map[c] \in Locs
  BY <1>2, FreshSlot, TypeFacts DEF Inv
<1>4. map[c] # None => dev_data'[map[c]] = dev_data[map[c]]
  BY <1>1, <1>3 DEF Inv, TypeOK
<1> QED BY <1>1, <1>4, VisibleKept

\* A step that changes no visible block and leaves the answer of the last request
\* is a stutter of the block device; one that clears the answer is Fail.
LEMMA InvisibleStep ==
    ASSUME \A c \in LogicalBlocks : Visible(c)' = Visible(c),
           got' = got \/ got' = <<>>
    PROVE  [Abstract!Next]_(Abstract!vars)
<1>1. [c \in LogicalBlocks |-> Visible(c)]' = [c \in LogicalBlocks |-> Visible(c)]
  OBVIOUS
<1> QED BY <1>1 DEF Abstract!Next, Abstract!Fail, Abstract!vars

\* The published block is the old one with the sectors of the request.
LEMMA PublishIsWrite ==
    ASSUME Inv, Publish
    PROVE  Abstract!Next
<1>1. /\ req \in LogicalBlocks /\ dest \in Locs /\ dev_data[dest] = buffer /\ got = <<>>
      /\ \E S \in SUBSET Sectors, d \in Data : buffer = Merged(req, S, d)
  BY DEF Publish, Inv, WorkerOK, Busy
<1>2. PICK S \in SUBSET Sectors, d \in Data : buffer = Merged(req, S, d)
  BY <1>1
<1>3. /\ map' = [map EXCEPT ![req] = dest] /\ dev_data' = dev_data /\ got' = <<>>
  BY <1>1 DEF Publish, PublishWrite, EndRequest, devVars
<1>4. \A c \in LogicalBlocks : map'[c] = IF c = req THEN dest ELSE map[c]
  BY <1>1, <1>3 DEF Inv, TypeOK
<1>5. \A c \in LogicalBlocks :
         Visible(c)' = IF c = req THEN Merged(req, S, d) ELSE Visible(c)
  BY <1>1, <1>2, <1>3, <1>4, ConstantFacts DEF Visible
<1>6. [c \in LogicalBlocks |-> Visible(c)]' =
         [[c \in LogicalBlocks |-> Visible(c)] EXCEPT
             ![req] = [s \in Sectors |-> IF s \in S THEN d ELSE @[s]]]
  <2>1. [c \in LogicalBlocks |-> Visible(c)]' =
           [c \in LogicalBlocks |-> IF c = req THEN Merged(req, S, d) ELSE Visible(c)]
    BY <1>5
  <2> QED BY <1>1, <2>1 DEF Merged
<1>7. Abstract!WriteSectors(req, S, d)
  BY <1>3, <1>6 DEF Abstract!WriteSectors
<1> QED BY <1>1, <1>7 DEF Abstract!Next

\* Appends, failed writes, collections, zone resets, removals and creations are
\* invisible to the block layer: a write takes effect when it is published, as a
\* whole, and a read returns what was published last.
THEOREM DataPathImplementsBlockDevice == Spec => ImplementsBlockDevice
<1>1. Init => Abstract!Init
  BY DEF Init, Abstract!Init, Visible, Blank
<1>2. Inv /\ [Next]_vars => [Abstract!Next]_(Abstract!vars)
  <2> SUFFICES ASSUME Inv, [Next]_vars
               PROVE  [Abstract!Next]_(Abstract!vars)
    OBVIOUS
  <2>0. ASSUME map' = map, dev_data' = dev_data
        PROVE  \A c \in LogicalBlocks : Visible(c)' = Visible(c)
    BY <2>0 DEF Visible
  <2>1. ASSUME NEW b \in LogicalBlocks, Read(b)
        PROVE  [Abstract!Next]_(Abstract!vars)
    <3>1. got' = <<b, Visible(b)>> /\ map' = map /\ dev_data' = dev_data
      BY <2>1 DEF Read, devVars
    <3>2. [c \in LogicalBlocks |-> Visible(c)]' = [c \in LogicalBlocks |-> Visible(c)]
      BY <2>0, <3>1
    <3>3. Abstract!ReadBlock(b)
      BY <3>1, <3>2 DEF Abstract!ReadBlock
    <3> QED BY <3>3 DEF Abstract!Next
  <2>2. ASSUME NEW b \in LogicalBlocks, NEW S \in Fragments, NEW d \in Data,
               BeginWrite(b, S, d)
        PROVE  [Abstract!Next]_(Abstract!vars)
    BY <2>0, <2>2, InvisibleStep DEF BeginWrite, devVars
  <2>3. CASE NoGcNeeded \/ NoGcBuffer \/ OutOfSpace \/ SelectVictim \/ PublishFails
    <3>1. map' = map /\ dev_data' = dev_data /\ got' = got
      BY <2>3 DEF NoGcNeeded, NoGcBuffer, OutOfSpace, SelectVictim, PublishFails,
                  EndRequest, devVars
    <3> QED BY <2>0, <3>1, InvisibleStep
  <2>4. CASE GcMoveFails \/ AppendFails \/ AppendFailsStopped
    <3>1. map' = map /\ dev_data' = dev_data /\ got' = got
      BY <2>4 DEF GcMoveFails, AppendFails, AppendFailsStopped, EndRequest
    <3> QED BY <2>0, <3>1, InvisibleStep
  <2>5. CASE GcMove
    <3>1. got' = got
      BY <2>5 DEF GcMove, EndRequest
    <3> QED BY <2>5, <3>1, GcMoveVisible, InvisibleStep
  <2>6. CASE GcReset
    <3>1. pc = "gc" /\ LiveSlots = {} /\ ResetVictim /\ map' = map /\ got' = got
      BY <2>6 DEF GcReset
    <3> QED BY <3>1, ResetFacts, InvisibleStep
  <2>7. CASE GcResetFails
    <3>1. pc = "gc" /\ LiveSlots = {} /\ map' = map /\ got' = got
      BY <2>7 DEF GcResetFails, EndRequest
    <3>2. CASE UNCHANGED <<dev_wp, dev_data>>
      BY <2>0, <3>1, <3>2, InvisibleStep
    <3>3. CASE ResetVictim
      BY <3>1, <3>3, ResetFacts, InvisibleStep
    <3> QED BY <2>7, <3>2, <3>3 DEF GcResetFails
  <2>8. CASE Append
    <3>1. got' = got
      BY <2>8 DEF Append
    <3> QED BY <2>8, <3>1, AppendVisible, InvisibleStep
  <2>9. CASE Publish
    BY <2>9, PublishIsWrite
  <2>10. CASE Lifecycle
    <3>1. map' = map /\ dev_data' = dev_data /\ (got' = got \/ got' = <<>>)
      BY <2>10 DEF Lifecycle, Remove, Create, CreateRefused, devVars
    <3> QED BY <2>0, <3>1, InvisibleStep
  <2>11. CASE UNCHANGED vars \/ \E z \in Zones : WearOut(z)
    <3>1. map' = map /\ dev_data' = dev_data /\ got' = got
      BY <2>11 DEF vars, WearOut, devVars
    <3> QED BY <2>0, <3>1, InvisibleStep
  <2> QED BY <2>1, <2>2, <2>3, <2>4, <2>5, <2>6, <2>7, <2>8, <2>9, <2>10, <2>11
      DEF Next, Request, Worker, Collect
<1> QED BY <1>1, <1>2, InvHolds, PTL DEF Spec, ImplementsBlockDevice, Abstract!Spec

(***************************************************************************)
(* There is always room                                                    *)
(***************************************************************************)
EqualZones == \A z \in Zones : Cap[z] = Cap[0]

\* On zones of equal capacity a collection leaves room for the write it was
\* started for, and no zone of a device that does not wear out is read-only.
Room ==
    /\ MaxWorn = 0 => \A z \in Zones : alloc_cond[z] # "readonly"
    /\ EqualZones => /\ pc = "gc" => nr_valid[victim] < FreeBlocks(reserve_zone)
                     /\ pc = "append" => HasSpace

\* The zone of a report is read-only only if it wore out.
LEMMA NotReadonly ==
    ASSUME Inv, MaxWorn = 0
    PROVE  \A z \in Zones, wp \in Nat : Condition(z, wp) # "readonly"
BY DEF Inv, WornBound, Condition

\* The zones of the allocator stay writable or full.
LEMMA ConditionsKeep ==
    ASSUME Inv, Next, MaxWorn = 0, \A z \in Zones : alloc_cond[z] # "readonly"
    PROVE  \A z \in Zones : alloc_cond'[z] # "readonly"
<1> USE DEF allocVars
<1>1. CASE AppendFails
  <2>1. PICK d \in Moves :
           /\ dev_wp' = [dev_wp EXCEPT ![AllocZone] = @ + d]
           /\ alloc_cond' = [alloc_cond EXCEPT ![AllocZone] =
                                Condition(AllocZone, dev_wp'[AllocZone])]
    BY <1>1 DEF AppendFails
  <2>2. AllocZone \in Zones
    BY <1>1, AllocZoneFacts DEF AppendFails, Inv
  <2>3. dev_wp'[AllocZone] \in Nat
    <3>1. d \in Nat /\ dev_wp[AllocZone] \in Nat
      BY <2>2, ConstantFacts, TypeFacts DEF Moves, Inv
    <3> QED BY <2>1, <2>2, <3>1 DEF Inv, TypeOK
  <2>4. Condition(AllocZone, dev_wp'[AllocZone]) # "readonly"
    BY <2>2, <2>3, NotReadonly
  <2> QED BY <2>1, <2>4 DEF Inv, TypeOK
<1>2. CASE Create
  <2>1. \A z \in Zones : dev_wp[z] \in Nat
    BY TypeFacts DEF Inv
  <2> QED BY <1>2, <2>1, NotReadonly DEF Create, InitZoned, Conditions
<1>3. CASE Remove
  BY <1>3 DEF Remove, AllocatorExit
<1>4. CASE GcReset
  BY <1>4 DEF GcReset, Inv, TypeOK
<1>5. CASE ~(AppendFails \/ Create \/ Remove \/ GcReset)
  <2>1. alloc_cond' = alloc_cond
    BY <1>5 DEF Next, Request, Read, BeginWrite, Worker, NoGcNeeded, NoGcBuffer,
       OutOfSpace, Collect, SelectVictim, GcMove, GcMoveFails, GcResetFails, Append,
       AppendFailsStopped, Publish, PublishFails, Lifecycle, CreateRefused, WearOut
  <2> QED BY <2>1
<1> QED BY <1>1, <1>2, <1>3, <1>4, <1>5

\* A victim that a policy selects frees at least one block more than it needs.
LEMMA SelectLeavesRoom ==
    ASSUME Inv, SelectVictim, EqualZones
    PROVE  (nr_valid[victim] < FreeBlocks(reserve_zone))'
<1>1. PICK z \in Victims : victim' = z
  BY DEF SelectVictim
<1>2. z \in Zones /\ nr_valid[z] < CapacityBlocks(z)
  BY <1>1, VictimFacts DEF Inv, Candidates
<1>3. /\ reserve_zone \in Zones /\ alloc_wp[reserve_zone] = 0
      /\ UNCHANGED <<nr_valid, alloc_wp, reserve_zone>>
  <2>1. Created /\ ~writes_stopped /\ pc = "write"
    BY DEF SelectVictim, Created, Inv, WorkerOK, Busy
  <2> QED BY <2>1, TypeFacts DEF SelectVictim, indexVars, allocVars, Inv,
                                WritableIsConsistent
<1>4. Cap[reserve_zone] = Cap[z] /\ Cap[z] \in Nat
  <2>1. Cap[reserve_zone] = Cap[0] /\ Cap[z] = Cap[0]
    BY <1>2, <1>3 DEF EqualZones
  <2> QED BY <1>2, <2>1, ConstantFacts
<1>5. FreeBlocks(reserve_zone)' = CapacityBlocks(z)
  BY <1>3, <1>4 DEF FreeBlocks, CapacityBlocks
<1> QED BY <1>1, <1>2, <1>3, <1>5

\* The reserve that took the live blocks of the victim still has room.
LEMMA ResetLeavesRoom ==
    ASSUME Inv, GcReset, nr_valid[victim] < FreeBlocks(reserve_zone)
    PROVE  HasSpace'
<1> DEFINE r == reserve_zone
<1>1. /\ r \in Zones /\ victim \in Zones /\ victim # r /\ alloc_cond[r] = "writable"
  BY GcFacts DEF GcReset
<1>2. /\ nr_valid[victim] = 0 /\ reserve_zone' = victim
      /\ alloc_wp' = [alloc_wp EXCEPT ![victim] = 0]
      /\ alloc_cond' = [alloc_cond EXCEPT ![victim] = "writable"]
  BY DEF GcReset
<1>3. alloc_wp'[r] = alloc_wp[r] /\ alloc_cond'[r] = "writable"
  BY <1>1, <1>2 DEF Inv, TypeOK
<1>4. alloc_wp[r] <= Cap[r] /\ Cap[r] - alloc_wp[r] \in Nat
  BY <1>1, ConstantFacts, TypeFacts DEF Inv, TypeOK
<1>5. FreeBlocks(r) = (Cap[r] - alloc_wp[r]) \div SectorsPerBlock
  BY <1>1, <1>4, ConstantFacts, TypeFacts DEF FreeBlocks, Inv
<1>6. SectorsPerBlock <= Cap[r] - alloc_wp[r]
  <2> DEFINE x == Cap[r] - alloc_wp[r]
  <2>1. x \in Nat /\ x \div SectorsPerBlock > 0 /\ SectorsPerBlock \in Nat \ {0}
    BY <1>2, <1>4, <1>5, ConstantFacts
  <2> HIDE DEF x
  <2>2. SectorsPerBlock <= x
    BY <2>1, DivStep
  <2> QED BY <2>2 DEF x
<1>7. \E z \in Zones \ {reserve_zone'} :
         /\ alloc_cond'[z] = "writable" /\ alloc_wp'[z] <= Cap[z]
         /\ SectorsPerBlock <= Cap[z] - alloc_wp'[z]
  BY <1>1, <1>2, <1>3, <1>4, <1>6
<1> QED BY <1>7 DEF HasSpace, CanAppend

\* Every step keeps the room.
LEMMA RoomKeeps == Inv /\ Room /\ [Next]_vars => Room'
<1> SUFFICES ASSUME Inv, Room, [Next]_vars PROVE Room'
  OBVIOUS
<1>1. CASE UNCHANGED vars
  BY <1>1 DEF vars, allocVars, indexVars, reqVars, Room, HasSpace, CanAppend, FreeBlocks
<1>2. CASE Next
  <2>1. MaxWorn = 0 => \A z \in Zones : alloc_cond'[z] # "readonly"
    BY <1>2, ConditionsKeep DEF Room
  <2>2. ASSUME EqualZones, pc' = "gc"
        PROVE  (nr_valid[victim] < FreeBlocks(reserve_zone))'
    <3>1. CASE SelectVictim
      BY <2>2, <3>1, SelectLeavesRoom
    <3>2. CASE GcMove
      <4>1. ~writes_stopped'
        BY <2>2, <3>2 DEF GcMove, EndRequest
      <4>2. nr_valid[victim] < FreeBlocks(reserve_zone)
        BY <2>2, <3>2 DEF GcMove, Room
      <4>3. /\ victim' = victim
            /\ nr_valid'[victim] = nr_valid[victim] - 1
            /\ FreeBlocks(reserve_zone)' = FreeBlocks(reserve_zone) - 1
            /\ nr_valid[victim] \in Nat /\ FreeBlocks(reserve_zone) \in Int
        BY <3>2, <4>1, GcMoveCounts
      <4> QED BY <4>2, <4>3
    <3>3. CASE \E z \in Zones : WearOut(z)
      BY <2>2, <3>3 DEF WearOut, allocVars, indexVars, reqVars, Room, FreeBlocks
    <3>4. SelectVictim \/ GcMove \/ \E z \in Zones : WearOut(z)
      BY <1>2, <2>2 DEF Next, Request, Read, BeginWrite, Worker, NoGcNeeded, NoGcBuffer,
         OutOfSpace, Collect, GcMoveFails, GcReset, GcResetFails, Append, AppendFails,
         AppendFailsStopped, Publish, PublishFails, Lifecycle, Remove, Create,
         CreateRefused, EndRequest
    <3> QED BY <3>1, <3>2, <3>3, <3>4
  <2>3. ASSUME EqualZones, pc' = "append"
        PROVE  HasSpace'
    <3>1. CASE NoGcNeeded
      BY <3>1 DEF NoGcNeeded, allocVars, HasSpace, CanAppend
    <3>2. CASE GcReset
      <4>1. nr_valid[victim] < FreeBlocks(reserve_zone)
        BY <2>3, <3>2 DEF GcReset, Room
      <4> QED BY <3>2, <4>1, ResetLeavesRoom
    <3>3. CASE \E z \in Zones : WearOut(z)
      BY <2>3, <3>3 DEF WearOut, allocVars, Room, HasSpace, CanAppend
    <3>4. NoGcNeeded \/ GcReset \/ \E z \in Zones : WearOut(z)
      BY <1>2, <2>3 DEF Next, Request, Read, BeginWrite, Worker, NoGcBuffer, OutOfSpace,
         Collect, SelectVictim, GcMove, GcMoveFails, GcResetFails, Append, AppendFails,
         AppendFailsStopped, Publish, PublishFails, Lifecycle, Remove, Create,
         CreateRefused, EndRequest
    <3> QED BY <3>1, <3>2, <3>3, <3>4
  <2> QED BY <2>1, <2>2, <2>3 DEF Room
<1> QED BY <1>1, <1>2

\* Zones but one, each with at least C live blocks, hold as many logical blocks:
\* every live slot has a block of its own.
LEMMA AllFull ==
    ASSUME Inv, Created, ~writes_stopped, NEW r \in Zones, NEW C \in Nat,
           \A z \in Zones \ {r} : C <= nr_valid[z]
    PROVE  (NrZones - 1) * C <= Cardinality(LogicalBlocks)
<1> DEFINE Live(z) == {l \in Locs : Zone(l) = z /\ rev[l] # None}
           Full == Zones \ {r}
           Pairs == Full \X (1..C)
<1>1. IndexesAgree
  BY DEF Inv, AgreeUntilStopped
<1>2. ASSUME NEW z \in Full
      PROVE  \E f : f \in Injection(1..C, Live(z))
  <2>1. IsFiniteSet(Live(z))
    BY LocsFinite, FS_Subset
  <2>2. nr_valid[z] = Cardinality(Live(z))
    BY <1>1 DEF IndexesAgree
  <2> HIDE DEF Live
  <2>3. PICK f : f \in Bijection(1..Cardinality(Live(z)), Live(z))
    BY <2>1, FS_CardinalityType DEF ExistsBijection
  <2>4. C <= Cardinality(Live(z)) /\ Cardinality(Live(z)) \in Nat
    BY <2>1, <2>2, FS_CardinalityType
  <2>5. 1..C \subseteq 1..Cardinality(Live(z))
    BY <2>4
  <2>6. [n \in 1..C |-> f[n]] \in Injection(1..C, Live(z))
    BY <2>3, <2>5 DEF Bijection, Injection, IsInjective
  <2> QED BY <2>6
<1> DEFINE f == [z \in Full |-> CHOOSE h : h \in Injection(1..C, Live(z))]
<1>3. \A z \in Full : f[z] \in Injection(1..C, Live(z))
  <2> HIDE DEF Live
  <2> QED BY <1>2
<1> HIDE DEF f
<1>4. ASSUME NEW p \in Pairs
      PROVE  /\ p[1] \in Full /\ p[2] \in 1..C /\ p = <<p[1], p[2]>>
             /\ Zone(f[p[1]][p[2]]) = p[1]
             /\ rev[f[p[1]][p[2]]] \in LogicalBlocks
             /\ map[rev[f[p[1]][p[2]]]] = f[p[1]][p[2]]
  <2>1. p[1] \in Full /\ p[2] \in 1..C /\ p = <<p[1], p[2]>>
    OBVIOUS
  <2>2. f[p[1]][p[2]] \in Live(p[1])
    BY <1>3, <2>1 DEF Injection
  <2>3. rev[f[p[1]][p[2]]] \in LogicalBlocks
    BY <2>2, TypeFacts DEF Inv
  <2> QED BY <1>1, <2>1, <2>2, <2>3 DEF IndexesAgree
<1> DEFINE g == [p \in Pairs |-> rev[f[p[1]][p[2]]]]
<1>5. g \in Injection(Pairs, LogicalBlocks)
  <2>1. g \in [Pairs -> LogicalBlocks]
    BY <1>4
  <2>2. ASSUME NEW p \in Pairs, NEW q \in Pairs, g[p] = g[q]
        PROVE  p = q
    <3>1. f[p[1]][p[2]] = f[q[1]][q[2]]
      BY <1>4, <2>2
    <3>2. p[1] = q[1]
      BY <1>4, <3>1
    <3>3. f[p[1]] \in Injection(1..C, Live(p[1])) /\ p[2] \in 1..C /\ q[2] \in 1..C
      BY <1>3, <1>4
    <3>4. p[2] = q[2]
      BY <3>1, <3>2, <3>3 DEF Injection, IsInjective
    <3> QED BY <1>4, <3>2, <3>4
  <2> QED BY <2>1, <2>2 DEF Injection, IsInjective
<1>6. Cardinality(Pairs) <= Cardinality(LogicalBlocks)
  <2>1. IsFiniteSet(LogicalBlocks)
    BY DataPathAssumption
  <2> HIDE DEF g, Pairs
  <2> QED BY <1>5, <2>1, FS_Injection
<1>7. Cardinality(Pairs) = (NrZones - 1) * C
  <2>1. IsFiniteSet(Zones) /\ Cardinality(Zones) = NrZones
    <3>1. 0 \in Int /\ NrZones - 1 \in Int /\ NrZones > 1 /\ NrZones \in Nat
      BY ConstantFacts
    <3> QED BY <3>1, FS_Interval DEF Zones
  <2>2. IsFiniteSet(Full) /\ Cardinality(Full) = NrZones - 1
    BY <2>1, FS_RemoveElement
  <2>3. IsFiniteSet(1..C) /\ Cardinality(1..C) = C
    BY FS_Interval
  <2> HIDE DEF Full
  <2> QED BY <2>2, <2>3, FS_Product
<1> QED BY <1>6, <1>7

\* The collector finds a victim whenever some zone is a candidate.
LEMMA VictimExists ==
    ASSUME TypeOK, policy # "none", Candidates # {}
    PROVE  Victims # {}
<1>1. Candidates \subseteq Zones
  BY DEF Candidates
<1>2. ASSUME NEW S \in SUBSET Candidates, S # {}
      PROVE  \E z \in S : \A y \in S : z <= y
  <2>1. S \in SUBSET Nat
    BY <1>1, ConstantFacts
  <2> QED BY <1>2, <2>1, LeastExists
<1>3. SimpleVictims # {}
  BY <1>2 DEF SimpleVictims
<1>4. GreedyVictims # {}
  <2> DEFINE N == {nr_valid[z] : z \in Candidates}
  <2>1. N \in SUBSET Nat /\ N # {}
    BY <1>1, TypeFacts
  <2>2. PICK n \in N : \A m \in N : n <= m
    <3> HIDE DEF N
    <3> QED BY <2>1, LeastExists
  <2> DEFINE S == {z \in Candidates : nr_valid[z] = n}
  <2>3. PICK z \in S : \A y \in S : z <= y
    <3>1. S \in SUBSET Candidates /\ S # {}
      BY <2>2
    <3> HIDE DEF S
    <3> QED BY <1>2, <3>1
  <2>4. \A y \in Candidates : \/ nr_valid[z] < nr_valid[y]
                              \/ nr_valid[z] = nr_valid[y] /\ z <= y
    <3> SUFFICES ASSUME NEW y \in Candidates
                 PROVE  \/ nr_valid[z] < nr_valid[y]
                        \/ nr_valid[z] = nr_valid[y] /\ z <= y
      OBVIOUS
    <3>1. nr_valid[y] \in Nat /\ n \in Nat /\ n <= nr_valid[y] /\ nr_valid[z] = n
      BY <1>1, <2>1, <2>2, <2>3, TypeFacts
    <3>2. CASE nr_valid[y] = n
      BY <2>3, <3>1, <3>2
    <3>3. CASE nr_valid[y] # n
      BY <3>1, <3>3
    <3> QED BY <3>2, <3>3
  <2> QED BY <2>3, <2>4 DEF GreedyVictims
<1>5. policy \in {"greedy", "simple"}
  BY DataPathAssumption DEF TypeOK
<1> QED BY <1>3, <1>4, <1>5 DEF Victims

\* A write without room finds a zone to collect: were there none, every zone but
\* the empty reserve would be full of live blocks, more than there are.
LEMMA CandidateExists ==
    ASSUME Inv, Room, MaxWorn = 0, EqualZones, pc = "write", ~HasSpace,
           Cardinality(LogicalBlocks) < (NrZones - 1) * CapacityBlocks(0)
    PROVE  Candidates # {}
<1> SUFFICES ASSUME Candidates = {} PROVE FALSE
  OBVIOUS
<1> DEFINE r == reserve_zone
           C == CapacityBlocks(0)
<1>1. Created /\ ~writes_stopped
  BY DEF Created, Inv, WorkerOK, Busy
<1>2. r \in Zones /\ alloc_wp[r] = 0
  BY <1>1, TypeFacts DEF Inv, WritableIsConsistent
<1>3. 0 \in Zones /\ Cap[0] \in Nat
  <2>1. 0 \in Zones
    BY ConstantFacts DEF Zones
  <2> QED BY <2>1, ConstantFacts
<1>4. \A z \in Zones : CapacityBlocks(z) = C
  BY DEF EqualZones, CapacityBlocks
<1>5. FreeBlocks(r) = C
  <2>1. Cap[r] = Cap[0]
    BY <1>2 DEF EqualZones
  <2> QED BY <1>2, <1>3, <2>1 DEF FreeBlocks, CapacityBlocks
<1>6. C \in Nat
  BY <1>3, ConstantFacts, DivStep DEF CapacityBlocks
<1> HIDE DEF C
<1>7. ASSUME NEW z \in Zones \ {r} PROVE C <= nr_valid[z]
  <2>1. ~(nr_valid[z] < C /\ nr_valid[z] <= C)
    <3>1. alloc_cond[z] # "readonly" /\ ~CanAppend(z)
      BY DEF Room, HasSpace
    <3> QED BY <1>4, <1>5, <3>1 DEF Candidates
  <2>2. nr_valid[z] \in Nat
    BY TypeFacts DEF Inv
  <2> QED BY <1>6, <2>1, <2>2
<1>8. (NrZones - 1) * C <= Cardinality(LogicalBlocks)
  <2> HIDE DEF r
  <2> QED BY <1>1, <1>2, <1>6, <1>7, AllFull
<1>9. Cardinality(LogicalBlocks) \in Nat /\ (NrZones - 1) * C \in Int
  <2>1. Cardinality(LogicalBlocks) \in Nat
    BY DataPathAssumption, FS_CardinalityType
  <2>2. NrZones - 1 \in Int
    BY ConstantFacts
  <2> QED BY <1>6, <2>1, <2>2
<1>10. Cardinality(LogicalBlocks) < (NrZones - 1) * C
  BY DEF C
<1> QED BY <1>8, <1>9, <1>10

\* Nothing is out of room before the first creation.
LEMMA InitRoom == Init => Room
BY DEF Init, Room

\* zns_engine_capacity() adds up the zones; where they are equal the sum is a
\* product.
LEMMA CapacitySum ==
    ASSUME EqualZones
    PROVE  MapThenSumSet(CapacityBlocks, Zones) = NrZones * CapacityBlocks(0)
<1> DEFINE c == CapacityBlocks(0)
           pick(s) == CHOOSE x \in s : TRUE
           Step(g) == [s \in SUBSET Zones |->
                         IF s = {} THEN 0 ELSE CapacityBlocks(pick(s)) + g[s \ {pick(s)}]]
           f == [s \in SUBSET Zones |-> Cardinality(s) * c]
<1>1. MapThenSumSet(CapacityBlocks, Zones) = (CHOOSE g : g = Step(g))[Zones]
  BY DEF MapThenSumSet, MapThenFoldSet
<1>2. /\ IsFiniteSet(Zones) /\ Cardinality(Zones) = NrZones /\ c \in Nat
      /\ \A z \in Zones : CapacityBlocks(z) = c
  <2>1. NrZones \in Nat /\ NrZones > 1 /\ 0 \in Zones
    BY ConstantFacts DEF Zones
  <2>2. IsFiniteSet(Zones) /\ Cardinality(Zones) = NrZones
    BY <2>1, FS_Interval DEF Zones
  <2>3. c \in Nat
    BY <2>1, ConstantFacts, DivStep DEF CapacityBlocks
  <2> QED BY <2>2, <2>3 DEF EqualZones, CapacityBlocks
<1>3. ASSUME NEW s \in SUBSET Zones, s # {}
      PROVE  /\ pick(s) \in s /\ s \ {pick(s)} \in SUBSET Zones
             /\ IsFiniteSet(s) /\ Cardinality(s) \in Nat
             /\ Cardinality(s \ {pick(s)}) = Cardinality(s) - 1
             /\ Cardinality(s \ {pick(s)}) \in Nat
             /\ CapacityBlocks(pick(s)) = c
  <2>1. pick(s) \in s
    BY <1>3
  <2> HIDE DEF pick
  <2>2. IsFiniteSet(s) /\ IsFiniteSet(s \ {pick(s)})
    BY <1>2, FS_Subset
  <2> QED BY <1>2, <2>1, <2>2, FS_RemoveElement, FS_CardinalityType
<1> HIDE DEF c, pick
<1>0. \A n \in Nat : n * c = c + (n - 1) * c /\ 0 * c = 0
  BY <1>2
<1>4. f = Step(f)
  <2>1. ASSUME NEW s \in SUBSET Zones
        PROVE  Cardinality(s) * c =
                  IF s = {} THEN 0 ELSE CapacityBlocks(pick(s)) + f[s \ {pick(s)}]
    <3>1. CASE s = {}
      BY <1>0, <3>1, FS_EmptySet
    <3>2. CASE s # {}
      <4>1. f[s \ {pick(s)}] = (Cardinality(s) - 1) * c
        BY <1>3, <3>2
      <4>2. Cardinality(s) * c = c + (Cardinality(s) - 1) * c
        BY <1>0, <1>3, <3>2
      <4> QED BY <1>3, <3>2, <4>1, <4>2
    <3> QED BY <3>1, <3>2
  <2> QED BY <2>1
<1>5. ASSUME NEW g, g = Step(g)
      PROVE  g[Zones] = NrZones * c
  <2> DEFINE Wrong == {s \in SUBSET Zones : g[s] # Cardinality(s) * c}
             Sizes == {Cardinality(s) : s \in Wrong}
  <2>1. \A s \in SUBSET Zones :
           g[s] = IF s = {} THEN 0 ELSE CapacityBlocks(pick(s)) + g[s \ {pick(s)}]
    BY <1>5
  <2> HIDE DEF Step, f
  <2>2. SUFFICES ASSUME Wrong # {} PROVE FALSE
    BY <1>2
  <2>3. \A s \in SUBSET Zones : Cardinality(s) \in Nat
    BY <1>2, FS_Subset, FS_CardinalityType
  <2>4. Sizes \in SUBSET Nat /\ Sizes # {}
    BY <2>2, <2>3
  <2>5. PICK n \in Sizes : \A m \in Sizes : n <= m
    <3> HIDE DEF Sizes
    <3> QED BY <2>4, LeastExists
  <2>6. PICK s \in Wrong : n = Cardinality(s)
    OBVIOUS
  <2>7. s # {}
    <3>1. Cardinality({}) * c = 0
      BY <1>0, FS_EmptySet
    <3>2. g[{}] = 0
      BY <2>1
    <3> QED BY <2>6, <3>1, <3>2
  <2>8. s \ {pick(s)} \notin Wrong
    <3>1. Cardinality(s \ {pick(s)}) < n
      BY <1>3, <2>6, <2>7
    <3> QED BY <1>3, <2>3, <2>5, <2>6, <2>7, <3>1
  <2>9. g[s \ {pick(s)}] = (Cardinality(s) - 1) * c
    BY <1>3, <2>7, <2>8
  <2>10. Cardinality(s) * c = c + (Cardinality(s) - 1) * c
    BY <1>0, <2>3
  <2> QED BY <1>3, <2>1, <2>6, <2>7, <2>9, <2>10
<1>6. (CHOOSE g : g = Step(g)) = Step(CHOOSE g : g = Step(g))
  <2> HIDE DEF Step, f
  <2> QED BY <1>4
<1> HIDE DEF Step
<1> QED BY <1>1, <1>5, <1>6 DEF c

\* On equal zones zns_engine_capacity() is all zones but one.
LEMMA CapacityOfEqualZones ==
    ASSUME EqualZones
    PROVE  EngineCapacity = SectorsPerBlock * ((NrZones - 1) * CapacityBlocks(0))
<1> DEFINE c == CapacityBlocks(0)
<1>1. c \in Nat /\ NrZones \in Nat /\ 0 \in Zones
  <2>1. NrZones \in Nat /\ 0 \in Zones
    BY ConstantFacts DEF Zones
  <2> QED BY <2>1, ConstantFacts, DivStep DEF CapacityBlocks
<1>2. \A z \in Zones : CapacityBlocks(z) = c
  BY DEF EqualZones, CapacityBlocks
<1>3. {CapacityBlocks(z) : z \in Zones} = {c}
  BY <1>1, <1>2
<1>4. Max({CapacityBlocks(z) : z \in Zones}) = c
  <2> HIDE DEF c
  <2>1. Max({c}) = c
    BY <1>1 DEF Max
  <2> QED BY <1>3, <2>1
<1>5. NrZones * c - c = (NrZones - 1) * c
  <2> HIDE DEF c
  <2> QED BY <1>1
<1> QED BY <1>4, <1>5, CapacitySum DEF EngineCapacity

\* A target smaller than that has fewer blocks than all zones but one hold.
LEMMA SmallerThanCapacity ==
    ASSUME EqualZones, Cardinality(LogicalBlocks) * SectorsPerBlock < EngineCapacity
    PROVE  Cardinality(LogicalBlocks) < (NrZones - 1) * CapacityBlocks(0)
<1> DEFINE n == Cardinality(LogicalBlocks)
           m == (NrZones - 1) * CapacityBlocks(0)
<1>1. n \in Nat /\ SectorsPerBlock \in Nat \ {0}
  BY DataPathAssumption, FS_CardinalityType
<1>2. m \in Int
  <2>1. NrZones - 1 \in Int /\ 0 \in Zones
    BY ConstantFacts DEF Zones
  <2>2. CapacityBlocks(0) \in Nat
    BY <2>1, ConstantFacts, DivStep DEF CapacityBlocks
  <2> QED BY <2>1, <2>2
<1>3. n * SectorsPerBlock < SectorsPerBlock * m
  BY CapacityOfEqualZones
<1> HIDE DEF n, m
<1>4. m <= n => SectorsPerBlock * m <= n * SectorsPerBlock
  BY <1>1, <1>2
<1>5. n * SectorsPerBlock \in Int /\ SectorsPerBlock * m \in Int
  BY <1>1, <1>2
<1>6. n < m
  BY <1>1, <1>2, <1>3, <1>4, <1>5
<1> QED BY <1>6 DEF n, m

\* A write is never out of space (zns_lsm_run_gc_if_needed() and the allocation
\* that follows it): on zones of equal capacity that do not wear out, with a
\* policy that collects, a target smaller than zns_engine_capacity() always has
\* room, or a zone whose collection makes room.
THEOREM WritesFindRoom ==
    ASSUME MaxWorn = 0, "none" \notin Policies, EqualZones,
           Cardinality(LogicalBlocks) * SectorsPerBlock < EngineCapacity
    PROVE  Spec => []NeverOutOfSpace
<1>1. Inv /\ Room => NeverOutOfSpace
  <2> SUFFICES ASSUME Inv, Room PROVE NeverOutOfSpace
    OBVIOUS
  <2>1. ASSUME pc = "write", ~HasSpace PROVE Victims # {}
    <3>1. policy # "none"
      BY DEF Inv, TypeOK
    <3>2. Candidates # {}
      BY <2>1, CandidateExists, SmallerThanCapacity
    <3> QED BY <3>1, <3>2, VictimExists DEF Inv
  <2>2. pc = "append" => HasSpace
    BY DEF Room
  <2> QED BY <2>1, <2>2 DEF NeverOutOfSpace
<1> QED BY <1>1, InvHolds, InitRoom, RoomKeeps, PTL DEF Spec

(***************************************************************************)
(* One pass of zns_lsm_gc_clean() empties the victim                       *)
(***************************************************************************)
\* A move leaves no live block in the victim at or before the slot it emptied:
\* the only slot that became live is in the reserve, and the slots before the
\* first live one were not.
LEMMA GcMoveLeavesLater ==
    ASSUME Inv, GcMove, ~writes_stopped'
    PROVE  \A l \in LiveSlots' : Offset(Source) < Offset(l)
<1> SUFFICES ASSUME NEW l \in LiveSlots' PROVE Offset(Source) < Offset(l)
  OBVIOUS
<1>1. /\ pc = "gc" /\ LiveSlots # {} /\ pc' = "gc" /\ victim' = victim
      /\ PublishWrite(rev[Source], ReserveSlot, alloc_wp'[reserve_zone])
  BY GcMoveCounts DEF GcMove
<1>2. /\ Created /\ Created' /\ ~writes_stopped /\ IndexesAgree
      /\ victim # reserve_zone /\ reserve_zone \in Zones
  BY <1>1, GcFacts DEF Created
<1>3. /\ ReserveSlot \in Locs /\ rev[Source] \in LogicalBlocks
      /\ map[rev[Source]] = Source /\ Zone(Source) = victim /\ Source \in Locs
      /\ \A c \in LogicalBlocks : map[c] # ReserveSlot
  BY GcMoveVisible
<1>4. /\ \A c \in LogicalBlocks : map'[c] = IF c = rev[Source] THEN ReserveSlot ELSE map[c]
      /\ rev' \in [Locs -> LogicalBlocks \cup {None}]
      /\ IndexesAgree'
  BY <1>1, <1>2, <1>3, PublishFacts DEF AgreeUntilStopped
<1>5. /\ l \in Locs /\ Zone(l) = victim /\ rev'[l] # None
  BY <1>1 DEF LiveSlots
<1>6. rev'[l] \in LogicalBlocks /\ map'[rev'[l]] = l
  BY <1>2, <1>4, <1>5 DEF IndexesAgree
<1>7. Zone(ReserveSlot) = reserve_zone
  BY DEF ReserveSlot, Zone
<1>8. rev'[l] # rev[Source] /\ map[rev'[l]] = l
  BY <1>2, <1>4, <1>5, <1>6, <1>7
<1>9. rev[l] = rev'[l]
  BY <1>2, <1>5, <1>6, <1>8, ConstantFacts DEF IndexesAgree
<1>10. l \in LiveSlots /\ l # Source
  BY <1>5, <1>8, <1>9 DEF LiveSlots
<1>11. Offset(Source) <= Offset(l)
  BY <1>10, SourceFacts DEF Inv
<1>12. Offset(Source) # Offset(l)
  BY <1>3, <1>5, <1>10, LocFacts
<1> QED BY <1>3, <1>5, <1>11, <1>12, LocFacts

\* Every turn of the loop of zns_lsm_gc_clean() moves the first live block of the
\* victim, and no turn has to come back to a slot it passed; with the count that
\* falls by one, the loop ends after at most as many turns as the victim has live
\* blocks, and the reserve it checked against that count suffices.
THEOREM OnePassCollects == Spec => CollectionAdvances
<1>1. Inv /\ [Next]_vars => [GcTurnAdvances]_vars
  <2> SUFFICES ASSUME Inv, Next, pc = "gc", pc' = "gc", dev_worn' = dev_worn, vars' # vars
               PROVE  /\ victim' = victim
                      /\ nr_valid'[victim] = nr_valid[victim] - 1
                      /\ FreeBlocks(reserve_zone)' = FreeBlocks(reserve_zone) - 1
                      /\ \A l \in LiveSlots' : Offset(Source) < Offset(l)
    BY DEF GcTurnAdvances
  <2>1. SelectVictim \/ GcMove \/ \E z \in Zones : WearOut(z)
    BY DEF Next, Request, Read, BeginWrite, Worker, NoGcNeeded, NoGcBuffer,
       OutOfSpace, Collect, GcMoveFails, GcReset, GcResetFails, Append, AppendFails,
       AppendFailsStopped, Publish, PublishFails, Lifecycle, Remove, Create,
       CreateRefused, EndRequest
  <2>2. ~SelectVictim
    BY DEF SelectVictim
  <2>3. ~ \E z \in Zones : WearOut(z)
    BY DEF WearOut, vars, devVars
  <2>4. GcMove
    BY <2>1, <2>2, <2>3
  <2>5. ~writes_stopped'
    BY <2>4 DEF GcMove, EndRequest
  <2> QED BY <2>4, <2>5, GcMoveCounts, GcMoveLeavesLater
<1> QED BY <1>1, InvHolds, PTL DEF Spec, CollectionAdvances
=============================================================================
