-------------------------- MODULE LsmMappingProofs --------------------------
EXTENDS LsmMapping, FiniteSetTheorems, WellFoundedInduction, TLAPS

(***************************************************************************)
(* Facts about the operators                                               *)
(***************************************************************************)
\* memtable_size() of a table is a natural number.
LEMMA SizeType ==
    ASSUME NEW m \in Contents
    PROVE  Size(m) \in Nat
<1> DEFINE K == {b \in LogicalBlocks : m[b] # NoData}
<1>1. IsFiniteSet(K)
  BY FS_Subset, ConstantsAssumption
<1> QED BY <1>1, FS_CardinalityType DEF Size

\* An SSTable of n entries has at least its header block.
LEMMA NrBlocksType ==
    ASSUME NEW n \in Nat
    PROVE  NrBlocks(n) \in Nat /\ NrBlocks(n) >= 1
BY ConstantsAssumption DEF NrBlocks

\* -ENODATA is the answer for a table without entries only.
LEMMA SizeZero ==
    ASSUME NEW m \in Contents, Size(m) = 0, NEW b \in LogicalBlocks
    PROVE  m[b] = NoData
<1> DEFINE K == {c \in LogicalBlocks : m[c] # NoData}
<1>1. IsFiniteSet(K)
  BY FS_Subset, ConstantsAssumption
<1>2. K = {}
  BY <1>1, FS_EmptySet DEF Size
<1> QED BY <1>2

\* A set of positive indices that is not empty has a least one.
LEMMA LeastIndex ==
    ASSUME NEW n \in Nat, NEW H \in SUBSET (1..n), H # {}
    PROVE  \E i \in H : \A j \in H : i <= j
<1>1. PICK i \in H : \A j \in H : ~(<<j, i>> \in OpToRel(<, Nat))
  <2>1. H \subseteq Nat
    OBVIOUS
  <2> QED BY <2>1, NatLessThanWellFounded, WFMin
<1>2. ASSUME NEW j \in H PROVE i <= j
  <2>1. i \in Nat /\ j \in Nat
    OBVIOUS
  <2>2. j < i => <<j, i>> \in OpToRel(<, Nat)
    BY <2>1, Zenon DEF OpToRel
  <2>3. ~(j < i)
    BY <1>1, <2>2, Zenon
  <2> QED BY <2>1, <2>3
<1> QED BY <1>2

\* The walk of zns_lsm_lookup_sstables() stops at the first table with an entry.
LEMMA FirstHit ==
    ASSUME NEW ssts \in Seq(Sstable), NEW b \in LogicalBlocks,
           NEW k \in 1..Len(ssts), ssts[k].entries[b] # NoData,
           \A j \in 1..Len(ssts) : j < k => ssts[j].entries[b] = NoData
    PROVE  SstLookup(ssts, b) = ssts[k].entries[b]
<1>1. k \in Hits(ssts, b) /\ Hits(ssts, b) \subseteq 1..Len(ssts)
  BY DEF Hits
<1>2. \A j \in Hits(ssts, b) : k <= j
  BY DEF Hits
<1>3. \A i \in Hits(ssts, b) :
         (\A j \in Hits(ssts, b) : i <= j) => i = k
  BY <1>1, <1>2
<1>4. (CHOOSE i \in Hits(ssts, b) : \A j \in Hits(ssts, b) : i <= j) = k
  BY <1>1, <1>2, <1>3
<1> QED BY <1>1, <1>4 DEF SstLookup

\* ... and answers -ENODATA when no table has one.
LEMMA NoHit ==
    ASSUME NEW ssts \in Seq(Sstable), NEW b \in LogicalBlocks,
           \A j \in 1..Len(ssts) : ssts[j].entries[b] = NoData
    PROVE  SstLookup(ssts, b) = NoData
BY DEF SstLookup, Hits

\* list_add(): the new table answers for the blocks it maps and the rest of the
\* list for the others.
LEMMA PrependLookup ==
    ASSUME NEW ssts \in Seq(Sstable), NEW x \in Sstable, NEW b \in LogicalBlocks
    PROVE  SstLookup(<<x>> \o ssts, b) =
               IF x.entries[b] # NoData THEN x.entries[b] ELSE SstLookup(ssts, b)
<1> DEFINE new == <<x>> \o ssts
<1>1. /\ new \in Seq(Sstable)
      /\ Len(new) = Len(ssts) + 1
      /\ new[1] = x
      /\ \A j \in 1..Len(ssts) : new[j + 1] = ssts[j]
  OBVIOUS
<1>2. Len(ssts) \in Nat
  OBVIOUS
<1> HIDE DEF new
<1>3. CASE x.entries[b] # NoData
  <2>1. 1 \in 1..Len(new) /\ new[1].entries[b] # NoData
    BY <1>1, <1>2, <1>3
  <2>2. \A j \in 1..Len(new) : j < 1 => new[j].entries[b] = NoData
    BY <1>1, <1>2
  <2>3. SstLookup(new, b) = new[1].entries[b]
    BY <1>1, <2>1, <2>2, FirstHit
  <2> QED BY <1>1, <1>3, <2>3 DEF new
<1>4. CASE x.entries[b] = NoData /\ Hits(ssts, b) # {}
  <2>1. PICK k \in Hits(ssts, b) : \A j \in Hits(ssts, b) : k <= j
    BY <1>2, <1>4, LeastIndex DEF Hits
  <2>2. /\ k \in 1..Len(ssts)
        /\ ssts[k].entries[b] # NoData
        /\ \A j \in 1..Len(ssts) : j < k => ssts[j].entries[b] = NoData
    BY <2>1 DEF Hits
  <2>3. SstLookup(ssts, b) = ssts[k].entries[b]
    BY <2>2, FirstHit
  <2>4. \A j \in 1..Len(new) : j < k + 1 => new[j].entries[b] = NoData
    <3> SUFFICES ASSUME NEW j \in 1..Len(new), j < k + 1
                 PROVE  new[j].entries[b] = NoData
      OBVIOUS
    <3>1. CASE j = 1
      BY <1>1, <1>4, <3>1
    <3>2. CASE j # 1
      <4>1. j - 1 \in 1..Len(ssts) /\ j - 1 < k
        BY <1>1, <1>2, <2>2, <3>2
      <4>2. new[(j - 1) + 1] = ssts[j - 1]
        BY <1>1, <4>1
      <4> QED BY <2>2, <4>1, <4>2
    <3> QED BY <3>1, <3>2
  <2>5. k + 1 \in 1..Len(new) /\ new[k + 1].entries[b] # NoData
    BY <1>1, <1>2, <2>2
  <2>6. SstLookup(new, b) = new[k + 1].entries[b]
    BY <1>1, <2>4, <2>5, FirstHit
  <2> QED BY <1>1, <1>4, <2>2, <2>3, <2>6 DEF new
<1>5. CASE x.entries[b] = NoData /\ Hits(ssts, b) = {}
  <2>1. \A j \in 1..Len(ssts) : ssts[j].entries[b] = NoData
    BY <1>5 DEF Hits
  <2>2. \A j \in 1..Len(new) : new[j].entries[b] = NoData
    <3> SUFFICES ASSUME NEW j \in 1..Len(new)
                 PROVE  new[j].entries[b] = NoData
      OBVIOUS
    <3>1. CASE j = 1
      BY <1>1, <1>5, <3>1
    <3>2. CASE j # 1
      <4>1. j - 1 \in 1..Len(ssts)
        BY <1>1, <1>2, <3>2
      <4>2. new[(j - 1) + 1] = ssts[j - 1]
        BY <1>1, <4>1
      <4> QED BY <2>1, <4>1, <4>2
    <3> QED BY <3>1, <3>2
  <2>3. SstLookup(new, b) = NoData /\ SstLookup(ssts, b) = NoData
    BY <1>1, <2>1, <2>2, NoHit
  <2> QED BY <1>5, <2>3 DEF new
<1> QED BY <1>3, <1>4, <1>5 DEF new

(***************************************************************************)
(* The inductive invariant.  None of the properties is inductive alone:    *)
(* that pass 2 writes a table and not freed memory (TypeOK) needs          *)
(* HeapSafety, that needs to know which local variables the workers hold   *)
(* at which point (WorkerState), and WorkerState's facts about the SSTable *)
(* being written are what LogOrdered is made of.                           *)
(***************************************************************************)
Inv == TypeOK /\ HeapSafety /\ WorkerState /\ LogOrdered /\ NoLostFlush

\* The three outcomes of a store leave well-formed tables.
LEMMA StoredType ==
    ASSUME TypeOK, HeapSafety, NEW b \in LogicalBlocks, NEW p \in PhysicalSectors
    PROVE  /\ Stored(b, p) \in [Tables -> Contents \cup {NULL}]
           /\ Stored(b, p)[active_memtable] \in Contents
           /\ Stored(b, p)[active_memtable] =
                 [heap[active_memtable] EXCEPT ![b] = p]
           /\ \A t \in Tables \ {active_memtable} : Stored(b, p)[t] = heap[t]
<1>1. active_memtable \in Tables /\ heap[active_memtable] \in Contents
  BY ConstantsAssumption DEF TypeOK, HeapSafety, Referenced
<1> QED BY <1>1 DEF Stored, TypeOK, Contents, Values

\* memtable_compact() of two tables is a table.
LEMMA CompactType ==
    ASSUME NEW m \in Contents, NEW n \in Contents
    PROVE  Compact(m, n) \in Contents
BY DEF Compact, Contents

\* A freed address holds no table, so heap[t] # NULL tells them apart.
LEMMA NullIsNoTable == NULL \notin Contents
BY ConstantsAssumption DEF Contents, Values

\* Storing a mapping allocates and frees nothing.
LEMMA StoredAllocated ==
    ASSUME TypeOK, HeapSafety, NEW b \in LogicalBlocks, NEW p \in PhysicalSectors
    PROVE  \A t \in Tables : Stored(b, p)[t] # NULL <=> heap[t] # NULL
<1>1. Stored(b, p)[active_memtable] # NULL
  <2>1. Stored(b, p)[active_memtable] \in Contents
    BY StoredType
  <2> QED BY <2>1, NullIsNoTable
<1>2. heap[active_memtable] # NULL
  BY ConstantsAssumption DEF TypeOK, HeapSafety, Referenced
<1>3. \A t \in Tables \ {active_memtable} : Stored(b, p)[t] = heap[t]
  BY StoredType
<1> QED BY <1>1, <1>2, <1>3

\* memtable_create() returns a table.
LEMMA EmptyType == Empty \in Contents
BY DEF Empty, Contents, Values

\* The flush victim is a live table from the claim until it is released.
LEMMA VictimType ==
    ASSUME TypeOK, HeapSafety,
           fl_pc \in {"snapshot", "header", "payload", "advance", "publish", "release"}
    PROVE  /\ fl_victim \in Tables
           /\ heap[fl_victim] \in Contents
           /\ Size(heap[fl_victim]) \in Nat
           /\ NrBlocks(Size(heap[fl_victim])) \in Nat
           /\ NrBlocks(Size(heap[fl_victim])) >= 1
<1>1. fl_victim \in Tables /\ heap[fl_victim] \in Contents
  BY ConstantsAssumption DEF TypeOK, HeapSafety, Referenced
<1> QED BY <1>1, SizeType, NrBlocksType

\* Whatever the SSTable lookup answers is a sector or NoData.
LEMMA LookupType ==
    ASSUME TypeOK, HeapSafety, NEW b \in LogicalBlocks
    PROVE  MemLookup(b) \in Values /\ SstLookup(sstables, b) \in Values
<1>1. \A t \in {active_memtable, immutable_memtable, flushing_memtable} :
         InSlot(t, b) \in Values
  BY ConstantsAssumption DEF TypeOK, HeapSafety, Referenced, InSlot, Contents, Values
<1>2. MemLookup(b) \in Values
  BY <1>1 DEF MemLookup
<1>3. CASE Hits(sstables, b) = {}
  BY <1>2, <1>3 DEF SstLookup, Values
<1>4. CASE Hits(sstables, b) # {}
  <2>1. Len(sstables) \in Nat
    BY DEF TypeOK
  <2>2. PICK k \in Hits(sstables, b) : \A j \in Hits(sstables, b) : k <= j
    BY <1>4, <2>1, LeastIndex DEF Hits
  <2>3. /\ k \in 1..Len(sstables)
        /\ sstables[k].entries[b] # NoData
        /\ \A j \in 1..Len(sstables) : j < k => sstables[j].entries[b] = NoData
    BY <2>1, <2>2 DEF Hits
  <2>4. SstLookup(sstables, b) = sstables[k].entries[b]
    BY <2>3, FirstHit DEF TypeOK
  <2>5. sstables[k] \in Sstable
    BY <2>3 DEF TypeOK
  <2> QED BY <1>2, <2>4, <2>5 DEF Sstable, Contents
<1> QED BY <1>3, <1>4

\* Every action keeps every variable in its type.
LEMMA TypeStep == Inv /\ [Next]_vars => TypeOK'
<1> SUFFICES ASSUME Inv, [Next]_vars
             PROVE  TypeOK'
  OBVIOUS
<1> USE DEF tableVars, queueVars, logVars, ioVars, writeVars, flVars
<1>1. TypeOK /\ HeapSafety
  BY DEF Inv
<1> USE <1>1
<1>2. ASSUME NEW b \in LogicalBlocks, NEW p \in PhysicalSectors, PutInPlace(b, p)
      PROVE  TypeOK'
  BY <1>2, StoredType DEF PutInPlace, TypeOK, IoPcs
<1>3. ASSUME NEW b \in LogicalBlocks, NEW p \in PhysicalSectors, Freeze(b, p)
      PROVE  TypeOK'
  <2>1. Alloc(Free) \in Tables
    BY <1>3 DEF Freeze, Alloc, Free
  <2> QED BY <1>3, <2>1, StoredType, EmptyType DEF Freeze, TypeOK, IoPcs
<1>4. ASSUME NEW b \in LogicalBlocks, NEW p \in PhysicalSectors,
             CompactAndFreeze(b, p)
      PROVE  TypeOK'
  <2> DEFINE merged == Alloc(Free)
             new_active == Alloc(Free \ {merged})
             both == Compact(heap[immutable_memtable],
                             Stored(b, p)[active_memtable])
  <2>1. merged \in Tables /\ new_active \in Tables
    BY <1>4 DEF CompactAndFreeze, Alloc, Free
  <2>2. heap[immutable_memtable] \in Contents
    BY <1>4, ConstantsAssumption
    DEF CompactAndFreeze, TypeOK, HeapSafety, Referenced
  <2>3. both \in Contents
    BY <2>2, StoredType, CompactType
  <2>4. /\ heap' = [Stored(b, p) EXCEPT ![merged] = both, ![new_active] = Empty]
        /\ active_memtable' = new_active
        /\ immutable_memtable' = merged
        /\ io_detached' = {active_memtable, immutable_memtable}
        /\ immutable_memtable \in Tables
        /\ got' = <<>> /\ io_pc' = "reclaim"
        /\ UNCHANGED <<flushing_memtable, queueVars, logVars, writes_stopped,
                       io_block, flVars>>
    BY <1>4 DEF CompactAndFreeze, TypeOK
  <2> HIDE DEF merged, new_active, both
  <2>5. heap' \in [Tables -> Contents \cup {NULL}]
    BY <2>1, <2>3, <2>4, StoredType, EmptyType
  <2> QED BY <2>1, <2>4, <2>5 DEF TypeOK, IoPcs
<1>5. ASSUME FreeDetached PROVE TypeOK'
  BY <1>5 DEF FreeDetached, TypeOK, IoPcs
<1>6. ASSUME IoMaybeQueueFlush PROVE TypeOK'
  BY <1>6 DEF IoMaybeQueueFlush, ShouldQueue, TypeOK, IoPcs
<1>7. ASSUME IoQueueWork PROVE TypeOK'
  BY <1>7 DEF IoQueueWork, TypeOK, IoPcs
<1>8. ASSUME NEW b \in LogicalBlocks, LookupMemtables(b) PROVE TypeOK'
  BY <1>8, LookupType DEF LookupMemtables, TypeOK, IoPcs
<1>9. ASSUME LookupSstables PROVE TypeOK'
  <2>1. io_block \in LogicalBlocks
    BY <1>9 DEF Inv, WorkerState, IoState, LookupSstables
  <2> QED BY <1>9, <2>1, LookupType DEF LookupSstables, TypeOK, IoPcs
<1>10. ASSUME LookupSstablesFails PROVE TypeOK'
  BY <1>10 DEF LookupSstablesFails, TypeOK, IoPcs
<1>11. ASSUME StartFlush PROVE TypeOK'
  BY <1>11 DEF StartFlush, TypeOK, FlPcs
<1>12. ASSUME ClaimFlushVictim PROVE TypeOK'
  BY <1>12 DEF ClaimFlushVictim, TypeOK, FlPcs
<1>13. ASSUME SnapshotLog PROVE TypeOK'
  BY <1>13 DEF SnapshotLog, TypeOK, FlPcs
<1>14. ASSUME SstWriteRefused PROVE TypeOK'
  BY <1>14 DEF SstWriteRefused, TypeOK, FlPcs
<1>15. ASSUME WriteHeader PROVE TypeOK'
  BY <1>15, VictimType DEF WriteHeader, TypeOK, FlPcs
<1>16. ASSUME WriteHeaderFails PROVE TypeOK'
  BY <1>16 DEF WriteHeaderFails, AfterFailure, TypeOK, FlPcs
<1>17. ASSUME WritePayload PROVE TypeOK'
  BY <1>17, VictimType DEF WritePayload, TypeOK, FlPcs
<1>18. ASSUME WritePayloadFails PROVE TypeOK'
  BY <1>18, VictimType DEF WritePayloadFails, AfterFailure, TypeOK, FlPcs
<1>19. ASSUME AdvanceMetaWp PROVE TypeOK'
  BY <1>19 DEF AdvanceMetaWp, TypeOK, FlPcs
<1>20. ASSUME PublishSstable PROVE TypeOK'
  <2>1. WrittenSstable \in Sstable
    BY DEF WrittenSstable, Sstable, TypeOK
  <2>2. sstables' \in Seq(Sstable)
    BY <1>20, <2>1 DEF PublishSstable, TypeOK
  <2> QED BY <1>20, <2>2 DEF PublishSstable, TypeOK, FlPcs
<1>21. ASSUME ReleaseFlushVictim PROVE TypeOK'
  BY <1>21 DEF ReleaseFlushVictim, TypeOK, FlPcs
<1>22. ASSUME FreeVictim PROVE TypeOK'
  BY <1>22, EmptyType DEF FreeVictim, ForgetWrite, TypeOK, FlPcs
<1>23. ASSUME ClearInFlight PROVE TypeOK'
  BY <1>23, EmptyType DEF ClearInFlight, ForgetWrite, TypeOK, FlPcs
<1>24. ASSUME FlMaybeQueueFlush PROVE TypeOK'
  BY <1>24 DEF FlMaybeQueueFlush, ShouldQueue, TypeOK, FlPcs
<1>25. ASSUME FlQueueWork PROVE TypeOK'
  BY <1>25 DEF FlQueueWork, TypeOK, FlPcs
<1>26. CASE UNCHANGED vars
  BY <1>26 DEF vars, TypeOK
<1>27. ASSUME IndexRefuses PROVE TypeOK'
  BY <1>27 DEF IndexRefuses, TypeOK, IoPcs
<1> QED
  BY <1>2, <1>3, <1>4, <1>5, <1>6, <1>7, <1>8, <1>9, <1>10, <1>11, <1>12, <1>13,
     <1>14, <1>15, <1>16, <1>17, <1>18, <1>19, <1>20, <1>21, <1>22, <1>23, <1>24,
     <1>25, <1>26, <1>27 DEF Next, Write, IoContinues, FlushWorker

\* What a freeze does to the heap, without the allocator's CHOOSE.
LEMMA FreezeEffect ==
    ASSUME TypeOK, HeapSafety, NEW b \in LogicalBlocks, NEW p \in PhysicalSectors,
           Freeze(b, p)
    PROVE  \E new_active \in Tables \ Referenced :
              /\ active_memtable' = new_active
              /\ heap' = [Stored(b, p) EXCEPT ![new_active] = Empty]
              /\ heap'[new_active] = Empty
              /\ \A t \in Tables \ {new_active} : heap'[t] = Stored(b, p)[t]
<1>1. Alloc(Free) \in Tables \ Referenced
  BY DEF Freeze, Alloc, Free, HeapSafety
<1> QED BY <1>1, StoredType DEF Freeze

\* What a compaction does to the heap.
LEMMA CompactEffect ==
    ASSUME TypeOK, HeapSafety, NEW b \in LogicalBlocks, NEW p \in PhysicalSectors,
           CompactAndFreeze(b, p)
    PROVE  \E merged \in Tables \ Referenced, new_active \in Tables \ Referenced :
              /\ merged # new_active
              /\ active_memtable' = new_active
              /\ immutable_memtable' = merged
              /\ heap'[new_active] = Empty
              /\ heap'[merged] = Compact(heap[immutable_memtable],
                                         Stored(b, p)[active_memtable])
              /\ \A t \in Tables \ {merged, new_active} : heap'[t] = Stored(b, p)[t]
<1> DEFINE merged == Alloc(Free)
           new_active == Alloc(Free \ {merged})
<1>1. /\ merged \in Tables \ Referenced
      /\ new_active \in Tables \ Referenced
      /\ merged # new_active
  BY DEF CompactAndFreeze, Alloc, Free, HeapSafety
<1>2. /\ heap' = [Stored(b, p) EXCEPT
                     ![merged] = Compact(heap[immutable_memtable],
                                         Stored(b, p)[active_memtable]),
                     ![new_active] = Empty]
      /\ active_memtable' = new_active
      /\ immutable_memtable' = merged
  BY DEF CompactAndFreeze
<1>3. DOMAIN Stored(b, p) = Tables
  BY StoredType
<1> HIDE DEF merged, new_active
<1>4. /\ heap'[new_active] = Empty
      /\ heap'[merged] = Compact(heap[immutable_memtable],
                                 Stored(b, p)[active_memtable])
      /\ \A t \in Tables \ {merged, new_active} : heap'[t] = Stored(b, p)[t]
  BY <1>1, <1>2, <1>3
<1> QED BY <1>1, <1>2, <1>4

\* No use after free, no double free, no leak.
LEMMA HeapStep == Inv /\ [Next]_vars => HeapSafety'
<1> SUFFICES ASSUME Inv, [Next]_vars
             PROVE  HeapSafety'
  OBVIOUS
<1> USE DEF tableVars, queueVars, logVars, ioVars, writeVars, flVars
<1>1. TypeOK /\ HeapSafety /\ WorkerState
  BY DEF Inv
<1> USE <1>1, ConstantsAssumption
<1>2. ASSUME NEW b \in LogicalBlocks, NEW p \in PhysicalSectors,
             PutInPlace(b, p)
      PROVE HeapSafety'
  <2>1. \A t \in Tables : heap'[t] # NULL <=> heap[t] # NULL
    BY <1>2, StoredAllocated DEF PutInPlace
  <2> QED BY <1>2, <2>1 DEF PutInPlace, HeapSafety, Referenced, TypeOK
<1>3. ASSUME NEW b \in LogicalBlocks, NEW p \in PhysicalSectors,
             Freeze(b, p)
      PROVE HeapSafety'
  <2>1. PICK new_active \in Tables \ Referenced :
              /\ active_memtable' = new_active
              /\ heap'[new_active] = Empty
              /\ \A t \in Tables \ {new_active} : heap'[t] = Stored(b, p)[t]
    BY <1>3, FreezeEffect
  <2>2. heap'[new_active] # NULL
    BY <2>1, EmptyType, NullIsNoTable
  <2>3. \A t \in Tables \ {new_active} : heap'[t] # NULL <=> heap[t] # NULL
    BY <2>1, StoredAllocated
  <2>4. /\ immutable_memtable = NULL
        /\ immutable_memtable' = active_memtable
        /\ UNCHANGED <<flushing_memtable, fl_victim, fl_pc, io_detached>>
    BY <1>3 DEF Freeze
  <2> QED BY <2>1, <2>2, <2>3, <2>4 DEF HeapSafety, Referenced, TypeOK
<1>4. ASSUME NEW b \in LogicalBlocks, NEW p \in PhysicalSectors,
             CompactAndFreeze(b, p)
      PROVE HeapSafety'
  <2>1. PICK merged \in Tables \ Referenced, new_active \in Tables \ Referenced :
              /\ merged # new_active
              /\ active_memtable' = new_active
              /\ immutable_memtable' = merged
              /\ heap'[new_active] = Empty
              /\ heap'[merged] = Compact(heap[immutable_memtable],
                                         Stored(b, p)[active_memtable])
              /\ \A t \in Tables \ {merged, new_active} : heap'[t] = Stored(b, p)[t]
    BY <1>4, CompactEffect
  <2>2. heap[immutable_memtable] \in Contents
    BY <1>4 DEF CompactAndFreeze, TypeOK, HeapSafety, Referenced
  <2>3. heap'[merged] # NULL /\ heap'[new_active] # NULL
    <3>1. Stored(b, p)[active_memtable] \in Contents
      BY StoredType
    <3> QED BY <2>1, <2>2, <3>1, CompactType, EmptyType, NullIsNoTable
  <2>4. /\ io_detached = {}
        /\ io_detached' = {active_memtable, immutable_memtable}
        /\ immutable_memtable # NULL
        /\ UNCHANGED <<flushing_memtable, fl_victim, fl_pc>>
    BY <1>4 DEF CompactAndFreeze, WorkerState, IoState
  <2>5. \A t \in Tables \ {merged, new_active} : heap'[t] # NULL <=> heap[t] # NULL
    BY <2>1, StoredAllocated
  <2> QED BY <2>1, <2>3, <2>4, <2>5 DEF HeapSafety, Referenced, TypeOK
<1>5. ASSUME FreeDetached PROVE HeapSafety'
  BY <1>5 DEF FreeDetached, HeapSafety, WorkerState, IoState, FlushState, Referenced, TypeOK
<1>6. ASSUME IoMaybeQueueFlush PROVE HeapSafety'
  BY <1>6 DEF IoMaybeQueueFlush, HeapSafety, WorkerState, IoState, FlushState, Referenced, TypeOK
<1>7. ASSUME IoQueueWork PROVE HeapSafety'
  BY <1>7 DEF IoQueueWork, HeapSafety, WorkerState, IoState, FlushState, Referenced, TypeOK
<1>8. ASSUME NEW b \in LogicalBlocks, LookupMemtables(b) PROVE HeapSafety'
  BY <1>8 DEF LookupMemtables, HeapSafety, WorkerState, IoState, FlushState, Referenced, TypeOK
<1>9. ASSUME LookupSstables PROVE HeapSafety'
  BY <1>9 DEF LookupSstables, HeapSafety, WorkerState, IoState, FlushState, Referenced, TypeOK
<1>10. ASSUME LookupSstablesFails PROVE HeapSafety'
  BY <1>10 DEF LookupSstablesFails, HeapSafety, WorkerState, IoState, FlushState, Referenced, TypeOK
<1>11. ASSUME StartFlush PROVE HeapSafety'
  BY <1>11 DEF StartFlush, HeapSafety, WorkerState, IoState, FlushState, Referenced, TypeOK
<1>12. ASSUME ClaimFlushVictim PROVE HeapSafety'
  BY <1>12 DEF ClaimFlushVictim, HeapSafety, WorkerState, IoState, FlushState, Referenced, TypeOK
<1>13. ASSUME SnapshotLog PROVE HeapSafety'
  BY <1>13 DEF SnapshotLog, HeapSafety, WorkerState, IoState, FlushState, Referenced, TypeOK
<1>14. ASSUME SstWriteRefused PROVE HeapSafety'
  BY <1>14 DEF SstWriteRefused, HeapSafety, WorkerState, IoState, FlushState, Referenced, TypeOK
<1>15. ASSUME WriteHeader PROVE HeapSafety'
  BY <1>15 DEF WriteHeader, HeapSafety, WorkerState, IoState, FlushState, Referenced, TypeOK
<1>16. ASSUME WriteHeaderFails PROVE HeapSafety'
  BY <1>16 DEF WriteHeaderFails, HeapSafety, WorkerState, IoState, FlushState, Referenced, TypeOK
<1>17. ASSUME WritePayload PROVE HeapSafety'
  BY <1>17 DEF WritePayload, HeapSafety, WorkerState, IoState, FlushState, Referenced, TypeOK
<1>18. ASSUME WritePayloadFails PROVE HeapSafety'
  BY <1>18 DEF WritePayloadFails, HeapSafety, WorkerState, IoState, FlushState, Referenced, TypeOK
<1>19. ASSUME AdvanceMetaWp PROVE HeapSafety'
  BY <1>19 DEF AdvanceMetaWp, HeapSafety, WorkerState, IoState, FlushState, Referenced, TypeOK
<1>20. ASSUME PublishSstable PROVE HeapSafety'
  BY <1>20 DEF PublishSstable, HeapSafety, WorkerState, IoState, FlushState, Referenced, TypeOK
<1>21. ASSUME ReleaseFlushVictim PROVE HeapSafety'
  BY <1>21 DEF ReleaseFlushVictim, HeapSafety, WorkerState, IoState, FlushState, Referenced, TypeOK
<1>22. ASSUME FreeVictim PROVE HeapSafety'
  BY <1>22 DEF FreeVictim, ForgetWrite, HeapSafety, WorkerState, IoState, FlushState, Referenced, TypeOK
<1>23. ASSUME ClearInFlight PROVE HeapSafety'
  BY <1>23 DEF ClearInFlight, ForgetWrite, HeapSafety, WorkerState, IoState, FlushState, Referenced, TypeOK
<1>24. ASSUME FlMaybeQueueFlush PROVE HeapSafety'
  BY <1>24 DEF FlMaybeQueueFlush, HeapSafety, WorkerState, IoState, FlushState, Referenced, TypeOK
<1>25. ASSUME FlQueueWork PROVE HeapSafety'
  BY <1>25 DEF FlQueueWork, HeapSafety, WorkerState, IoState, FlushState, Referenced, TypeOK
<1>26. CASE UNCHANGED vars
  BY <1>26 DEF vars, HeapSafety, Referenced
<1>27. ASSUME IndexRefuses PROVE HeapSafety'
  BY <1>27 DEF IndexRefuses, HeapSafety, WorkerState, IoState, FlushState, Referenced, TypeOK
<1> QED
  BY <1>2, <1>3, <1>4, <1>5, <1>6, <1>7, <1>8, <1>9, <1>10, <1>11, <1>12, <1>13, <1>14, <1>15, <1>16, <1>17, <1>18, <1>19, <1>20, <1>21, <1>22, <1>23, <1>24, <1>25, <1>26, <1>27
  DEF Next, Write, IoContinues, FlushWorker

\* A frozen table is never forgotten.
LEMMA FlightStep == Inv /\ [Next]_vars => NoLostFlush'
<1> SUFFICES ASSUME Inv, [Next]_vars
             PROVE  NoLostFlush'
  OBVIOUS
<1> USE DEF tableVars, queueVars, logVars, ioVars, writeVars, flVars
<1>1. TypeOK /\ NoLostFlush
  BY DEF Inv
<1> USE <1>1, ConstantsAssumption
<1>2. ASSUME NEW b \in LogicalBlocks, NEW p \in PhysicalSectors,
             PutInPlace(b, p)
      PROVE NoLostFlush'
  BY <1>2 DEF PutInPlace, NoLostFlush, FlushOwned, Pending, ShouldQueue, TypeOK
<1>3. ASSUME NEW b \in LogicalBlocks, NEW p \in PhysicalSectors,
             Freeze(b, p)
      PROVE NoLostFlush'
  BY <1>3 DEF Freeze, NoLostFlush, FlushOwned, Pending, ShouldQueue, TypeOK
<1>4. ASSUME NEW b \in LogicalBlocks, NEW p \in PhysicalSectors,
             CompactAndFreeze(b, p)
      PROVE NoLostFlush'
  BY <1>4 DEF CompactAndFreeze, NoLostFlush, FlushOwned, Pending, ShouldQueue, TypeOK
<1>5. ASSUME FreeDetached PROVE NoLostFlush'
  BY <1>5 DEF FreeDetached, NoLostFlush, FlushOwned, Pending, ShouldQueue, TypeOK
<1>6. ASSUME IoMaybeQueueFlush PROVE NoLostFlush'
  BY <1>6 DEF IoMaybeQueueFlush, NoLostFlush, FlushOwned, Pending, ShouldQueue, TypeOK
<1>7. ASSUME IoQueueWork PROVE NoLostFlush'
  BY <1>7 DEF IoQueueWork, NoLostFlush, FlushOwned, Pending, ShouldQueue, TypeOK
<1>8. ASSUME NEW b \in LogicalBlocks, LookupMemtables(b) PROVE NoLostFlush'
  BY <1>8 DEF LookupMemtables, NoLostFlush, FlushOwned, Pending, ShouldQueue, TypeOK
<1>9. ASSUME LookupSstables PROVE NoLostFlush'
  BY <1>9 DEF LookupSstables, NoLostFlush, FlushOwned, Pending, ShouldQueue, TypeOK
<1>10. ASSUME LookupSstablesFails PROVE NoLostFlush'
  BY <1>10 DEF LookupSstablesFails, NoLostFlush, FlushOwned, Pending, ShouldQueue, TypeOK
<1>11. ASSUME StartFlush PROVE NoLostFlush'
  BY <1>11 DEF StartFlush, NoLostFlush, FlushOwned, Pending, ShouldQueue, TypeOK
<1>12. ASSUME ClaimFlushVictim PROVE NoLostFlush'
  BY <1>12 DEF ClaimFlushVictim, NoLostFlush, FlushOwned, Pending, ShouldQueue, TypeOK
<1>13. ASSUME SnapshotLog PROVE NoLostFlush'
  BY <1>13 DEF SnapshotLog, NoLostFlush, FlushOwned, Pending, ShouldQueue, TypeOK
<1>14. ASSUME SstWriteRefused PROVE NoLostFlush'
  BY <1>14 DEF SstWriteRefused, NoLostFlush, FlushOwned, Pending, ShouldQueue, TypeOK
<1>15. ASSUME WriteHeader PROVE NoLostFlush'
  BY <1>15 DEF WriteHeader, NoLostFlush, FlushOwned, Pending, ShouldQueue, TypeOK
<1>16. ASSUME WriteHeaderFails PROVE NoLostFlush'
  BY <1>16 DEF WriteHeaderFails, NoLostFlush, FlushOwned, Pending, ShouldQueue, TypeOK
<1>17. ASSUME WritePayload PROVE NoLostFlush'
  BY <1>17 DEF WritePayload, NoLostFlush, FlushOwned, Pending, ShouldQueue, TypeOK
<1>18. ASSUME WritePayloadFails PROVE NoLostFlush'
  BY <1>18 DEF WritePayloadFails, NoLostFlush, FlushOwned, Pending, ShouldQueue, TypeOK
<1>19. ASSUME AdvanceMetaWp PROVE NoLostFlush'
  BY <1>19 DEF AdvanceMetaWp, NoLostFlush, FlushOwned, Pending, ShouldQueue, TypeOK
<1>20. ASSUME PublishSstable PROVE NoLostFlush'
  BY <1>20 DEF PublishSstable, NoLostFlush, FlushOwned, Pending, ShouldQueue, TypeOK
<1>21. ASSUME ReleaseFlushVictim PROVE NoLostFlush'
  BY <1>21 DEF ReleaseFlushVictim, NoLostFlush, FlushOwned, Pending, ShouldQueue, TypeOK
<1>22. ASSUME FreeVictim PROVE NoLostFlush'
  BY <1>22 DEF FreeVictim, ForgetWrite, NoLostFlush, FlushOwned, Pending, ShouldQueue, TypeOK
<1>23. ASSUME ClearInFlight PROVE NoLostFlush'
  BY <1>23 DEF ClearInFlight, ForgetWrite, NoLostFlush, FlushOwned, Pending, ShouldQueue, TypeOK
<1>24. ASSUME FlMaybeQueueFlush PROVE NoLostFlush'
  BY <1>24 DEF FlMaybeQueueFlush, NoLostFlush, FlushOwned, Pending, ShouldQueue, TypeOK
<1>25. ASSUME FlQueueWork PROVE NoLostFlush'
  BY <1>25 DEF FlQueueWork, NoLostFlush, FlushOwned, Pending, ShouldQueue, TypeOK
<1>26. CASE UNCHANGED vars
  BY <1>26 DEF vars, NoLostFlush, FlushOwned, Pending
<1>27. ASSUME IndexRefuses PROVE NoLostFlush'
  BY <1>27 DEF IndexRefuses, NoLostFlush, FlushOwned, Pending, ShouldQueue, TypeOK
<1> QED
  BY <1>2, <1>3, <1>4, <1>5, <1>6, <1>7, <1>8, <1>9, <1>10, <1>11, <1>12, <1>13, <1>14, <1>15, <1>16, <1>17, <1>18, <1>19, <1>20, <1>21, <1>22, <1>23, <1>24, <1>25, <1>26, <1>27
  DEF Next, Write, IoContinues, FlushWorker


\* The log stays ordered, and every header matches its payload.
LEMMA LogStep == Inv /\ [Next]_vars => LogOrdered'
<1> SUFFICES ASSUME Inv, [Next]_vars
             PROVE  LogOrdered'
  OBVIOUS
<1> USE DEF tableVars, queueVars, logVars, ioVars, writeVars, flVars
<1>1. TypeOK /\ HeapSafety /\ WorkerState /\ LogOrdered
  BY DEF Inv
<1> USE <1>1, ConstantsAssumption
<1>2. ASSUME NEW b \in LogicalBlocks, NEW p \in PhysicalSectors,
             PutInPlace(b, p)
      PROVE LogOrdered'
  BY <1>2 DEF PutInPlace, LogOrdered, End
<1>3. ASSUME NEW b \in LogicalBlocks, NEW p \in PhysicalSectors,
             Freeze(b, p)
      PROVE LogOrdered'
  BY <1>3 DEF Freeze, LogOrdered, End
<1>4. ASSUME NEW b \in LogicalBlocks, NEW p \in PhysicalSectors,
             CompactAndFreeze(b, p)
      PROVE LogOrdered'
  BY <1>4 DEF CompactAndFreeze, LogOrdered, End
<1>5. ASSUME FreeDetached PROVE LogOrdered'
  BY <1>5 DEF FreeDetached, LogOrdered, End
<1>6. ASSUME IoMaybeQueueFlush PROVE LogOrdered'
  BY <1>6 DEF IoMaybeQueueFlush, LogOrdered, End
<1>7. ASSUME IoQueueWork PROVE LogOrdered'
  BY <1>7 DEF IoQueueWork, LogOrdered, End
<1>8. ASSUME NEW b \in LogicalBlocks, LookupMemtables(b) PROVE LogOrdered'
  BY <1>8 DEF LookupMemtables, LogOrdered, End
<1>9. ASSUME LookupSstables PROVE LogOrdered'
  BY <1>9 DEF LookupSstables, LogOrdered, End
<1>10. ASSUME LookupSstablesFails PROVE LogOrdered'
  BY <1>10 DEF LookupSstablesFails, LogOrdered, End
<1>11. ASSUME StartFlush PROVE LogOrdered'
  BY <1>11 DEF StartFlush, LogOrdered, End
<1>12. ASSUME ClaimFlushVictim PROVE LogOrdered'
  BY <1>12 DEF ClaimFlushVictim, LogOrdered, End
<1>13. ASSUME SnapshotLog PROVE LogOrdered'
  BY <1>13 DEF SnapshotLog, LogOrdered, End
<1>14. ASSUME SstWriteRefused PROVE LogOrdered'
  BY <1>14 DEF SstWriteRefused, LogOrdered, End
<1>15. ASSUME WriteHeader PROVE LogOrdered'
  BY <1>15 DEF WriteHeader, LogOrdered, End
<1>16. ASSUME WriteHeaderFails PROVE LogOrdered'
  BY <1>16 DEF WriteHeaderFails, LogOrdered, End
<1>17. ASSUME WritePayload PROVE LogOrdered'
  BY <1>17 DEF WritePayload, LogOrdered, End
<1>18. ASSUME WritePayloadFails PROVE LogOrdered'
  BY <1>18 DEF WritePayloadFails, LogOrdered, End
<1>19. ASSUME AdvanceMetaWp PROVE LogOrdered'
  <2>1. meta_wp' >= meta_wp /\ meta_wp' \in 1..MetaEnd
    BY <1>19 DEF AdvanceMetaWp, LogOrdered, WorkerState, FlushState, TypeOK
  <2>2. UNCHANGED <<sstables, next_sst_seq>>
    BY <1>19 DEF AdvanceMetaWp
  <2>3. \A i \in 1..Len(sstables) : End(sstables[i]) \in Int
    <3> SUFFICES ASSUME NEW i \in 1..Len(sstables)
                 PROVE  End(sstables[i]) \in Int
      OBVIOUS
    <3>1. sstables[i] \in Sstable
      BY DEF TypeOK
    <3> QED BY <3>1 DEF End, Sstable
  <2> QED BY <2>1, <2>2, <2>3 DEF LogOrdered, TypeOK, End
<1>20. ASSUME PublishSstable PROVE LogOrdered'
  <2> DEFINE x == WrittenSstable
  <2>1. /\ x.start = fl_start /\ x.seq = fl_seq
        /\ x.crc = fl_crc /\ x.entries = fl_entries
        /\ End(x) = fl_start + fl_consumed
    BY DEF WrittenSstable, End
  <2>2. /\ fl_seq = next_sst_seq
        /\ fl_start + fl_consumed = meta_wp
        /\ fl_start >= 1
        /\ fl_crc = fl_entries
        /\ \A i \in 1..Len(sstables) : End(sstables[i]) <= fl_start
    BY <1>20 DEF PublishSstable, WorkerState, FlushState
  <2>3. /\ sstables' = <<x>> \o sstables
        /\ next_sst_seq' = next_sst_seq + 1
        /\ meta_wp' = meta_wp
    BY <1>20 DEF PublishSstable
  <2>4. x \in Sstable
    BY DEF WrittenSstable, Sstable, TypeOK
  <2> HIDE DEF x
  <2>5. /\ Len(sstables) \in Nat
        /\ Len(sstables') = Len(sstables) + 1
        /\ sstables'[1] = x
        /\ \A i \in 2..Len(sstables') :
              i - 1 \in 1..Len(sstables) /\ sstables'[i] = sstables[i - 1]
    BY <2>3, <2>4 DEF TypeOK
  <2>6. ASSUME NEW i \in 1..Len(sstables')
        PROVE  /\ sstables'[i].start >= 1
               /\ sstables'[i].seq < next_sst_seq'
               /\ End(sstables'[i]) <= meta_wp'
               /\ sstables'[i].crc = sstables'[i].entries
    <3>1. CASE i = 1
      <4>1. sstables'[i] = x
        BY <2>5, <3>1
      <4>2. fl_seq < next_sst_seq' /\ fl_start + fl_consumed <= meta_wp'
        BY <2>2, <2>3 DEF TypeOK
      <4> QED BY <2>1, <2>2, <4>1, <4>2
    <3>2. CASE i # 1
      <4>1. i \in 2..Len(sstables')
        BY <2>5, <3>2
      <4>2. sstables[i - 1] \in Sstable
        BY <2>5, <4>1 DEF TypeOK
      <4> QED BY <2>3, <2>5, <4>1, <4>2 DEF LogOrdered, TypeOK, Sstable
    <3> QED BY <3>1, <3>2
  <2>7. ASSUME NEW i \in 1..Len(sstables'), NEW j \in 1..Len(sstables'), i < j
        PROVE  /\ sstables'[j].seq < sstables'[i].seq
               /\ End(sstables'[j]) <= sstables'[i].start
    <3>1. j \in 2..Len(sstables')
      BY <2>5, <2>7
    <3>2. CASE i = 1
      BY <2>1, <2>2, <2>5, <3>1, <3>2 DEF LogOrdered
    <3>3. CASE i # 1
      <4>1. i \in 2..Len(sstables')
        BY <2>5, <3>3
      <4>2. i - 1 < j - 1
        BY <2>7
      <4> QED BY <2>5, <3>1, <4>1, <4>2 DEF LogOrdered
    <3> QED BY <3>2, <3>3
  <2>8. meta_wp' \in 1..MetaEnd
    BY <2>3 DEF LogOrdered
  <2> QED BY <2>6, <2>7, <2>8 DEF LogOrdered, End
<1>21. ASSUME ReleaseFlushVictim PROVE LogOrdered'
  BY <1>21 DEF ReleaseFlushVictim, LogOrdered, End
<1>22. ASSUME FreeVictim PROVE LogOrdered'
  BY <1>22 DEF FreeVictim, ForgetWrite, LogOrdered, End
<1>23. ASSUME ClearInFlight PROVE LogOrdered'
  BY <1>23 DEF ClearInFlight, ForgetWrite, LogOrdered, End
<1>24. ASSUME FlMaybeQueueFlush PROVE LogOrdered'
  BY <1>24 DEF FlMaybeQueueFlush, LogOrdered, End
<1>25. ASSUME FlQueueWork PROVE LogOrdered'
  BY <1>25 DEF FlQueueWork, LogOrdered, End
<1>26. CASE UNCHANGED vars
  BY <1>26 DEF vars, LogOrdered, End
<1>27. ASSUME IndexRefuses PROVE LogOrdered'
  BY <1>27 DEF IndexRefuses, LogOrdered, End
<1> QED
  BY <1>2, <1>3, <1>4, <1>5, <1>6, <1>7, <1>8, <1>9, <1>10, <1>11, <1>12, <1>13, <1>14, <1>15, <1>16, <1>17, <1>18, <1>19, <1>20, <1>21, <1>22, <1>23, <1>24, <1>25, <1>26, <1>27
  DEF Next, Write, IoContinues, FlushWorker

\* A lookup that missed the memtables keeps missing them.
LEMMA IoStep == Inv /\ [Next]_vars => IoState'
<1> SUFFICES ASSUME Inv, [Next]_vars
             PROVE  IoState'
  OBVIOUS
<1> USE DEF tableVars, queueVars, logVars, ioVars, writeVars, flVars
<1>1. TypeOK /\ HeapSafety /\ IoState /\ FlushState
  BY DEF Inv, WorkerState
<1> USE <1>1, ConstantsAssumption
<1>2. ASSUME NEW b \in LogicalBlocks, NEW p \in PhysicalSectors,
             PutInPlace(b, p)
      PROVE IoState'
  BY <1>2 DEF PutInPlace, IoState, MemLookup, InSlot, TypeOK
<1>3. ASSUME NEW b \in LogicalBlocks, NEW p \in PhysicalSectors,
             Freeze(b, p)
      PROVE IoState'
  BY <1>3 DEF Freeze, IoState, MemLookup, InSlot, TypeOK
<1>4. ASSUME NEW b \in LogicalBlocks, NEW p \in PhysicalSectors,
             CompactAndFreeze(b, p)
      PROVE IoState'
  BY <1>4 DEF CompactAndFreeze, IoState, MemLookup, InSlot, TypeOK
<1>5. ASSUME FreeDetached PROVE IoState'
  BY <1>5 DEF FreeDetached, IoState
<1>6. ASSUME IoMaybeQueueFlush PROVE IoState'
  BY <1>6 DEF IoMaybeQueueFlush, IoState, MemLookup, InSlot, TypeOK
<1>7. ASSUME IoQueueWork PROVE IoState'
  BY <1>7 DEF IoQueueWork, IoState, MemLookup, InSlot, TypeOK
<1>8. ASSUME NEW b \in LogicalBlocks, LookupMemtables(b) PROVE IoState'
  BY <1>8 DEF LookupMemtables, IoState, MemLookup, InSlot, TypeOK
<1>9. ASSUME LookupSstables PROVE IoState'
  BY <1>9 DEF LookupSstables, IoState, MemLookup, InSlot, TypeOK
<1>10. ASSUME LookupSstablesFails PROVE IoState'
  BY <1>10 DEF LookupSstablesFails, IoState, MemLookup, InSlot, TypeOK
<1>11. ASSUME StartFlush PROVE IoState'
  BY <1>11 DEF StartFlush, IoState, MemLookup, InSlot, TypeOK
<1>12. ASSUME ClaimFlushVictim PROVE IoState'
  BY <1>12 DEF ClaimFlushVictim, IoState, MemLookup, InSlot, TypeOK
<1>13. ASSUME SnapshotLog PROVE IoState'
  BY <1>13 DEF SnapshotLog, IoState, MemLookup, InSlot, TypeOK
<1>14. ASSUME SstWriteRefused PROVE IoState'
  BY <1>14 DEF SstWriteRefused, IoState, MemLookup, InSlot, TypeOK
<1>15. ASSUME WriteHeader PROVE IoState'
  BY <1>15 DEF WriteHeader, IoState, MemLookup, InSlot, TypeOK
<1>16. ASSUME WriteHeaderFails PROVE IoState'
  BY <1>16 DEF WriteHeaderFails, IoState, MemLookup, InSlot, TypeOK
<1>17. ASSUME WritePayload PROVE IoState'
  BY <1>17 DEF WritePayload, IoState, MemLookup, InSlot, TypeOK
<1>18. ASSUME WritePayloadFails PROVE IoState'
  BY <1>18 DEF WritePayloadFails, IoState, MemLookup, InSlot, TypeOK
<1>19. ASSUME AdvanceMetaWp PROVE IoState'
  BY <1>19 DEF AdvanceMetaWp, IoState, MemLookup, InSlot, TypeOK
<1>20. ASSUME PublishSstable PROVE IoState'
  BY <1>20 DEF PublishSstable, IoState, MemLookup, InSlot, TypeOK
<1>21. ASSUME ReleaseFlushVictim PROVE IoState'
  BY <1>21 DEF ReleaseFlushVictim, IoState, MemLookup, InSlot, TypeOK
<1>22. ASSUME FreeVictim PROVE IoState'
  <2>1. \A b : MemLookup(b)' = MemLookup(b)
    <3>1. \A t \in Tables \ {fl_victim} : heap'[t] = heap[t]
      BY <1>22 DEF FreeVictim, ForgetWrite, TypeOK
    <3>2. UNCHANGED <<active_memtable, immutable_memtable, flushing_memtable>>
      BY <1>22 DEF FreeVictim
    <3>3. /\ active_memtable \in Tables \ {fl_victim}
          /\ immutable_memtable \in (Tables \ {fl_victim}) \cup {NULL}
          /\ flushing_memtable = NULL
      BY <1>22 DEF FreeVictim, ForgetWrite, HeapSafety, FlushState, TypeOK
    <3> QED BY <3>1, <3>2, <3>3 DEF MemLookup, InSlot
  <2> QED BY <1>22, <2>1 DEF FreeVictim, ForgetWrite, IoState
<1>23. ASSUME ClearInFlight PROVE IoState'
  BY <1>23 DEF ClearInFlight, ForgetWrite, IoState, MemLookup, InSlot, TypeOK
<1>24. ASSUME FlMaybeQueueFlush PROVE IoState'
  BY <1>24 DEF FlMaybeQueueFlush, IoState, MemLookup, InSlot, TypeOK
<1>25. ASSUME FlQueueWork PROVE IoState'
  BY <1>25 DEF FlQueueWork, IoState, MemLookup, InSlot, TypeOK
<1>26. CASE UNCHANGED vars
  BY <1>26 DEF vars, IoState, MemLookup, InSlot
<1>27. ASSUME IndexRefuses PROVE IoState'
  BY <1>27 DEF IndexRefuses, IoState, MemLookup, InSlot, TypeOK
<1> QED
  BY <1>2, <1>3, <1>4, <1>5, <1>6, <1>7, <1>8, <1>9, <1>10, <1>11, <1>12, <1>13, <1>14, <1>15, <1>16, <1>17, <1>18, <1>19, <1>20, <1>21, <1>22, <1>23, <1>24, <1>25, <1>26, <1>27
  DEF Next, Write, IoContinues, FlushWorker

(***************************************************************************)
(* The I/O worker leaves the flush worker's locals alone, and the table it *)
(* is flushing as well: neither a write nor a compaction nor the frees     *)
(* behind it reach the victim.                                             *)
(***************************************************************************)
LEMMA VictimStable ==
    ASSUME TypeOK, HeapSafety, IoState, fl_victim # NULL,
           \/ \E b \in LogicalBlocks, p \in PhysicalSectors : Write(b, p)
           \/ FreeDetached
    PROVE  heap'[fl_victim] = heap[fl_victim]
<1>1. fl_victim \in Tables \ ({active_memtable, immutable_memtable} \cup io_detached)
  BY DEF TypeOK, HeapSafety
<1>2. fl_victim \in Referenced
  BY DEF Referenced
<1>3. ASSUME NEW b \in LogicalBlocks, NEW p \in PhysicalSectors
      PROVE  Stored(b, p)[fl_victim] = heap[fl_victim]
  <2>1. \A t \in Tables \ {active_memtable} : Stored(b, p)[t] = heap[t]
    BY <1>3, StoredType
  <2>2. fl_victim \in Tables \ {active_memtable}
    BY <1>1
  <2> QED BY <2>1, <2>2
<1>4. ASSUME NEW b \in LogicalBlocks, NEW p \in PhysicalSectors, PutInPlace(b, p)
      PROVE  heap'[fl_victim] = heap[fl_victim]
  BY <1>3, <1>4 DEF PutInPlace
<1>5. ASSUME NEW b \in LogicalBlocks, NEW p \in PhysicalSectors, Freeze(b, p)
      PROVE  heap'[fl_victim] = heap[fl_victim]
  <2>1. PICK new_active \in Tables \ Referenced :
           \A t \in Tables \ {new_active} : heap'[t] = Stored(b, p)[t]
    BY <1>5, FreezeEffect
  <2> QED BY <1>1, <1>2, <1>3, <2>1
<1>6. ASSUME NEW b \in LogicalBlocks, NEW p \in PhysicalSectors,
             CompactAndFreeze(b, p)
      PROVE  heap'[fl_victim] = heap[fl_victim]
  <2>1. PICK merged \in Tables \ Referenced, new_active \in Tables \ Referenced :
           \A t \in Tables \ {merged, new_active} : heap'[t] = Stored(b, p)[t]
    BY <1>6, CompactEffect
  <2> QED BY <1>1, <1>2, <1>3, <2>1
<1>7. ASSUME FreeDetached PROVE heap'[fl_victim] = heap[fl_victim]
  BY <1>1, <1>7 DEF FreeDetached
<1> QED BY <1>4, <1>5, <1>6, <1>7 DEF Write

\* What the flush worker relies on between its critical sections.
LEMMA FlushStep == Inv /\ [Next]_vars => FlushState'
<1> SUFFICES ASSUME Inv, [Next]_vars
             PROVE  FlushState'
  OBVIOUS
<1> USE DEF tableVars, queueVars, logVars, ioVars, writeVars, flVars
<1>1. TypeOK /\ HeapSafety /\ IoState /\ FlushState /\ LogOrdered
  BY DEF Inv, WorkerState
<1> USE <1>1, ConstantsAssumption
<1>2. ASSUME NEW b \in LogicalBlocks, NEW p \in PhysicalSectors,
             PutInPlace(b, p)
      PROVE FlushState'
  <2>1. fl_victim # NULL => heap'[fl_victim] = heap[fl_victim]
    BY <1>2, VictimStable DEF Write
  <2> QED BY <1>2, <2>1 DEF PutInPlace, FlushState, HeapSafety
<1>3. ASSUME NEW b \in LogicalBlocks, NEW p \in PhysicalSectors,
             Freeze(b, p)
      PROVE FlushState'
  <2>1. fl_victim # NULL => heap'[fl_victim] = heap[fl_victim]
    BY <1>3, VictimStable DEF Write
  <2> QED BY <1>3, <2>1 DEF Freeze, FlushState, HeapSafety
<1>4. ASSUME NEW b \in LogicalBlocks, NEW p \in PhysicalSectors,
             CompactAndFreeze(b, p)
      PROVE FlushState'
  <2>1. fl_victim # NULL => heap'[fl_victim] = heap[fl_victim]
    BY <1>4, VictimStable DEF Write
  <2> QED BY <1>4, <2>1 DEF CompactAndFreeze, FlushState, HeapSafety
<1>5. ASSUME FreeDetached PROVE FlushState'
  <2>1. fl_victim # NULL => heap'[fl_victim] = heap[fl_victim]
    BY <1>5, VictimStable
  <2> QED BY <1>5, <2>1 DEF FreeDetached, FlushState, HeapSafety
<1>6. ASSUME IoMaybeQueueFlush PROVE FlushState'
  BY <1>6 DEF IoMaybeQueueFlush, FlushState
<1>7. ASSUME IoQueueWork PROVE FlushState'
  BY <1>7 DEF IoQueueWork, FlushState
<1>8. ASSUME NEW b \in LogicalBlocks, LookupMemtables(b) PROVE FlushState'
  BY <1>8 DEF LookupMemtables, FlushState
<1>9. ASSUME LookupSstables PROVE FlushState'
  BY <1>9 DEF LookupSstables, FlushState
<1>10. ASSUME LookupSstablesFails PROVE FlushState'
  BY <1>10 DEF LookupSstablesFails, FlushState
<1>11. ASSUME StartFlush PROVE FlushState'
  BY <1>11 DEF StartFlush, FlushState
<1>12. ASSUME ClaimFlushVictim PROVE FlushState'
  BY <1>12 DEF ClaimFlushVictim, FlushState, HeapSafety, TypeOK
<1>13. ASSUME SnapshotLog PROVE FlushState'
  BY <1>13 DEF SnapshotLog, FlushState
<1>14. ASSUME SstWriteRefused PROVE FlushState'
  <2>1. heap[fl_victim] \in Contents
    BY <1>14, VictimType DEF SstWriteRefused
  <2>2. Size(heap[fl_victim]) = 0 =>
           \A b \in LogicalBlocks : heap[fl_victim][b] = NoData
    BY <2>1, SizeZero
  <2>3. fl_start + fl_consumed <= MetaEnd
    BY <1>14 DEF SstWriteRefused, FlushState, LogOrdered, TypeOK
  <2> QED BY <1>14, <2>2, <2>3 DEF SstWriteRefused, FlushState
<1>15. ASSUME WriteHeader PROVE FlushState'
  BY <1>15, VictimType DEF WriteHeader, Fits, FlushState, TypeOK
<1>16. ASSUME WriteHeaderFails PROVE FlushState'
  BY <1>16 DEF WriteHeaderFails, FlushState, LogOrdered, TypeOK
<1>17. ASSUME WritePayload PROVE FlushState'
  BY <1>17, VictimType DEF WritePayload, FlushState, TypeOK
<1>18. ASSUME WritePayloadFails PROVE FlushState'
  BY <1>18, VictimType DEF WritePayloadFails, FlushState, TypeOK
<1>19. ASSUME AdvanceMetaWp PROVE FlushState'
  BY <1>19 DEF AdvanceMetaWp, FlushState, LogOrdered, TypeOK, HeapSafety
<1>20. ASSUME PublishSstable PROVE FlushState'
  <2>1. /\ fl_pc = "publish" /\ fl_ok
        /\ fl_pc' = "release"
        /\ sstables' = <<WrittenSstable>> \o sstables
        /\ UNCHANGED <<heap, fl_victim>>
    BY <1>20 DEF PublishSstable, FlushState
  <2>2. WrittenSstable \in Sstable /\ WrittenSstable.entries = heap[fl_victim]
    BY <2>1 DEF WrittenSstable, Sstable, FlushState, TypeOK
  <2>3. ASSUME NEW b \in LogicalBlocks, heap[fl_victim][b] # NoData
        PROVE  SstLookup(sstables', b) = heap[fl_victim][b]
    BY <2>1, <2>2, <2>3, PrependLookup DEF TypeOK
  <2> QED BY <2>1, <2>3 DEF FlushState
<1>21. ASSUME ReleaseFlushVictim PROVE FlushState'
  BY <1>21 DEF ReleaseFlushVictim, FlushState, HeapSafety
<1>22. ASSUME FreeVictim PROVE FlushState'
  BY <1>22 DEF FreeVictim, ForgetWrite, FlushState, TypeOK
<1>23. ASSUME ClearInFlight PROVE FlushState'
  BY <1>23 DEF ClearInFlight, ForgetWrite, FlushState, TypeOK
<1>24. ASSUME FlMaybeQueueFlush PROVE FlushState'
  BY <1>24 DEF FlMaybeQueueFlush, FlushState
<1>25. ASSUME FlQueueWork PROVE FlushState'
  BY <1>25 DEF FlQueueWork, FlushState
<1>26. CASE UNCHANGED vars
  BY <1>26 DEF vars, FlushState
<1>27. ASSUME IndexRefuses PROVE FlushState'
  BY <1>27 DEF IndexRefuses, FlushState
<1> QED
  BY <1>2, <1>3, <1>4, <1>5, <1>6, <1>7, <1>8, <1>9, <1>10, <1>11, <1>12, <1>13, <1>14, <1>15, <1>16, <1>17, <1>18, <1>19, <1>20, <1>21, <1>22, <1>23, <1>24, <1>25, <1>26, <1>27
  DEF Next, Write, IoContinues, FlushWorker

\* zns_engine_init() establishes the invariant.
LEMMA InitInv == Init => Inv
<1> SUFFICES ASSUME Init PROVE Inv
  OBVIOUS
<1> USE ConstantsAssumption
<1>1. active_memtable \in Tables
  BY DEF Init, Alloc
<1>2. /\ heap[active_memtable] = Empty
      /\ \A t \in Tables \ {active_memtable} : heap[t] = NULL
      /\ sstables \in Seq(Sstable) /\ Len(sstables) = 0
  BY <1>1 DEF Init
<1>3. TypeOK
  <2>1. heap \in [Tables -> Contents \cup {NULL}]
    BY EmptyType DEF Init
  <2>2. /\ immutable_memtable = NULL /\ flushing_memtable = NULL
        /\ fl_victim = NULL /\ io_block = NULL
    BY DEF Init
  <2>3. got \in {<<>>} \cup (LogicalBlocks \X Values)
    BY DEF Init
  <2> QED BY <1>1, <1>2, <2>1, <2>2, <2>3, EmptyType
       DEF Init, NoWrite, TypeOK, IoPcs, FlPcs
<1>4. HeapSafety
  BY <1>1, <1>2, EmptyType, NullIsNoTable DEF Init, HeapSafety, Referenced
<1>5. WorkerState
  BY DEF Init, NoWrite, WorkerState, IoState, FlushState
<1>6. LogOrdered
  BY <1>2 DEF Init, LogOrdered
<1>7. NoLostFlush
  BY DEF Init, NoLostFlush, FlushOwned, Pending
<1> QED BY <1>3, <1>4, <1>5, <1>6, <1>7 DEF Inv

\* The invariant holds in every state the two workers can reach.
THEOREM InvHolds == Spec => []Inv
<1>1. Inv /\ [Next]_vars => Inv'
  BY TypeStep, HeapStep, IoStep, FlushStep, LogStep, FlightStep
  DEF Inv, WorkerState
<1> QED BY InitInv, <1>1, PTL DEF Spec

\* Every variable keeps its type: in particular the flush worker never reads a
\* table that has been freed.
THEOREM TypeCorrect == Spec => []TypeOK
<1>1. Inv => TypeOK
  BY DEF Inv
<1> QED BY InvHolds, <1>1, PTL

\* No memtable is used after it was freed, freed twice or leaked, whatever the
\* interleaving of put, freeze, compaction, claim and release.
THEOREM HeapSafe == Spec => []HeapSafety
<1>1. Inv => HeapSafety
  BY DEF Inv
<1> QED BY InvHolds, <1>1, PTL

\* The flush_in_flight protocol loses no frozen table while writes are taken, and
\* keeps its flag after zns_lsm_publish_write() returned early, too.
THEOREM NoFlushLost == Spec => []NoLostFlush
<1>1. Inv => NoLostFlush
  BY DEF Inv
<1> QED BY InvHolds, <1>1, PTL

\* Flushing, failed attempts included, keeps the metadata log replayable.
THEOREM LogStaysOrdered == Spec => []LogOrdered
<1>1. Inv => LogOrdered
  BY DEF Inv
<1> QED BY InvHolds, <1>1, PTL

\* What each worker relies on between its critical sections.
THEOREM WorkersConsistent == Spec => []WorkerState
<1>1. Inv => WorkerState
  BY DEF Inv
<1> QED BY InvHolds, <1>1, PTL

\* On a device whose write pointer only moves when a write succeeds, every flush
\* starts at the write pointer.
THEOREM MetaWpFollowsDevice ==
    ASSUME ~TornWrites
    PROVE  Spec => []MetaWpTracksDevice
<1>1. Init => MetaWpTracksDevice
  BY DEF Init, MetaWpTracksDevice
<1>2. Inv /\ MetaWpTracksDevice /\ [Next]_vars => MetaWpTracksDevice'
  <2> SUFFICES ASSUME Inv, MetaWpTracksDevice, [Next]_vars
               PROVE  MetaWpTracksDevice'
    OBVIOUS
  <2> USE DEF tableVars, queueVars, logVars, ioVars, writeVars, flVars,
              MetaWpTracksDevice
  <2>1. TypeOK /\ HeapSafety /\ FlushState
    BY DEF Inv, WorkerState
  <2> USE <2>1
  <2>2. ASSUME NEW b \in LogicalBlocks, NEW p \in PhysicalSectors, Write(b, p)
        PROVE  MetaWpTracksDevice'
    BY <2>2 DEF Write, PutInPlace, Freeze, CompactAndFreeze
  <2>3. ASSUME NEW b \in LogicalBlocks, LookupMemtables(b)
        PROVE  MetaWpTracksDevice'
    BY <2>3 DEF LookupMemtables
  <2>4. CASE IoContinues
    BY <2>4 DEF IoContinues, FreeDetached, IndexRefuses, IoMaybeQueueFlush,
                IoQueueWork, LookupSstables, LookupSstablesFails
  <2>5. CASE StartFlush \/ ClaimFlushVictim \/ SnapshotLog \/ PublishSstable
    BY <2>5 DEF StartFlush, ClaimFlushVictim, SnapshotLog, PublishSstable
  <2>6. CASE SstWriteRefused
    BY <2>6 DEF SstWriteRefused, FlushState, TypeOK
  <2>7. CASE WriteHeader
    BY <2>7 DEF WriteHeader, TypeOK
  <2>8. CASE WriteHeaderFails
    BY <2>8 DEF WriteHeaderFails, AfterFailure, FlushState, TypeOK
  <2>9. CASE WritePayload
    BY <2>9, VictimType DEF WritePayload, FlushState, TypeOK
  <2>10. CASE WritePayloadFails
    <3>1. PICK n \in 0 .. NrBlocks(Size(heap[fl_victim])) - 2 :
             /\ fl_consumed' = 1 + n
             /\ zone_wp' \in AfterFailure(zone_wp + n)
      BY <2>10 DEF WritePayloadFails
    <3> QED BY <2>10, <3>1, VictimType
         DEF WritePayloadFails, AfterFailure, FlushState, TypeOK
  <2>11. CASE AdvanceMetaWp
    BY <2>11 DEF AdvanceMetaWp, FlushState, TypeOK
  <2>12. CASE ReleaseFlushVictim \/ FreeVictim \/ ClearInFlight
              \/ FlMaybeQueueFlush \/ FlQueueWork
    BY <2>12 DEF ReleaseFlushVictim, FreeVictim, ClearInFlight,
                 FlMaybeQueueFlush, FlQueueWork
  <2>13. CASE UNCHANGED vars
    BY <2>13 DEF vars
  <2> QED BY <2>2, <2>3, <2>4, <2>5, <2>6, <2>7, <2>8, <2>9, <2>10, <2>11,
             <2>12, <2>13 DEF Next, FlushWorker
<1> QED BY InvHolds, <1>1, <1>2, PTL DEF Spec

(***************************************************************************)
(* Refinement: the mapping a lookup computes, Newest, is the abstract map. *)
(* Pointwise, Newest[c] depends on the slots only through MemLookup(c), so *)
(* each step is compared block by block.                                   *)
(***************************************************************************)
\* A step after which every block is found where it was changes no answer.
LEMMA NewestUnchanged ==
    ASSUME \A c \in LogicalBlocks :
              /\ MemLookup(c)' = MemLookup(c)
              /\ SstLookup(sstables', c) = SstLookup(sstables, c)
    PROVE  Newest' = Newest
BY DEF Newest

\* A write changes the mapping of its block and of no other.
LEMMA NewestStored ==
    ASSUME NEW b \in LogicalBlocks, NEW p \in PhysicalSectors,
           \A c \in LogicalBlocks :
              MemLookup(c)' = IF c = b THEN p ELSE MemLookup(c),
           sstables' = sstables
    PROVE  Newest' = [Newest EXCEPT ![b] = p]
<1>1. p # NoData
  BY ConstantsAssumption
<1> QED BY <1>1 DEF Newest

\* The three outcomes of memtable_put_active() all store the mapping.
LEMMA WriteStores ==
    ASSUME Inv, NEW b \in LogicalBlocks, NEW p \in PhysicalSectors, Write(b, p)
    PROVE  Newest' = [Newest EXCEPT ![b] = p]
<1> USE DEF tableVars, queueVars, logVars, ioVars, writeVars, flVars
<1>1. TypeOK /\ HeapSafety
  BY DEF Inv
<1>2. /\ active_memtable \in Tables
      /\ heap[active_memtable] \in Contents
      /\ immutable_memtable \in Tables \cup {NULL}
      /\ flushing_memtable \in Tables \cup {NULL}
      /\ active_memtable # immutable_memtable
      /\ active_memtable # flushing_memtable
      /\ immutable_memtable # NULL => immutable_memtable # flushing_memtable
      /\ NULL \notin Tables
  BY <1>1, ConstantsAssumption DEF TypeOK, HeapSafety, Referenced
<1>3. /\ Stored(b, p)[active_memtable] = [heap[active_memtable] EXCEPT ![b] = p]
      /\ \A t \in Tables \ {active_memtable} : Stored(b, p)[t] = heap[t]
  BY <1>1, StoredType
<1>4. \A c \in LogicalBlocks :
         Stored(b, p)[active_memtable][c] =
            IF c = b THEN p ELSE heap[active_memtable][c]
  BY <1>2, <1>3 DEF Contents
<1>5. p # NoData
  BY ConstantsAssumption
<1>6. CASE PutInPlace(b, p)
  <2>1. \A c \in LogicalBlocks :
           MemLookup(c)' = IF c = b THEN p ELSE MemLookup(c)
    BY <1>2, <1>3, <1>4, <1>5, <1>6 DEF PutInPlace, MemLookup, InSlot
  <2> QED BY <1>6, <2>1, NewestStored DEF PutInPlace
<1>7. CASE Freeze(b, p)
  <2>1. PICK new_active \in Tables \ Referenced :
           /\ active_memtable' = new_active
           /\ heap'[new_active] = Empty
           /\ \A t \in Tables \ {new_active} : heap'[t] = Stored(b, p)[t]
    BY <1>1, <1>7, FreezeEffect
  <2>2. /\ new_active # active_memtable
        /\ new_active # flushing_memtable
    BY <1>2, <2>1 DEF Referenced
  <2>3. /\ immutable_memtable = NULL
        /\ immutable_memtable' = active_memtable
        /\ flushing_memtable' = flushing_memtable
        /\ sstables' = sstables
    BY <1>7 DEF Freeze
  <2>4. ASSUME NEW c \in LogicalBlocks
        PROVE  MemLookup(c)' = IF c = b THEN p ELSE MemLookup(c)
    <3>1. heap'[new_active][c] = NoData
      BY <2>1 DEF Empty
    <3> QED BY <1>2, <1>3, <1>4, <1>5, <2>1, <2>2, <2>3, <3>1 DEF MemLookup, InSlot
  <2> QED BY <2>3, <2>4, NewestStored
<1>8. CASE CompactAndFreeze(b, p)
  <2> DEFINE both == Compact(heap[immutable_memtable],
                             Stored(b, p)[active_memtable])
  <2>1. PICK merged \in Tables \ Referenced, new_active \in Tables \ Referenced :
           /\ merged # new_active
           /\ active_memtable' = new_active
           /\ immutable_memtable' = merged
           /\ heap'[new_active] = Empty
           /\ heap'[merged] = both
           /\ \A t \in Tables \ {merged, new_active} : heap'[t] = Stored(b, p)[t]
    BY <1>1, <1>8, CompactEffect
  <2>2. flushing_memtable # merged /\ flushing_memtable # new_active
    BY <1>2, <2>1 DEF Referenced
  <2>3. /\ immutable_memtable \in Tables
        /\ flushing_memtable' = flushing_memtable
        /\ sstables' = sstables
    BY <1>2, <1>8 DEF CompactAndFreeze
  <2>4. \A c \in LogicalBlocks :
           both[c] = IF c = b THEN p
                     ELSE IF heap[active_memtable][c] # NoData
                       THEN heap[active_memtable][c] ELSE heap[immutable_memtable][c]
    BY <1>4, <1>5 DEF Compact
  <2> HIDE DEF both
  <2>5. ASSUME NEW c \in LogicalBlocks
        PROVE  MemLookup(c)' = IF c = b THEN p ELSE MemLookup(c)
    <3>1. heap'[new_active][c] = NoData
      BY <2>1 DEF Empty
    <3>2. MemLookup(c)' = IF both[c] # NoData THEN both[c]
                          ELSE InSlot(flushing_memtable, c)
      BY <1>2, <1>3, <2>1, <2>2, <2>3, <3>1 DEF MemLookup, InSlot
    <3> QED BY <1>2, <1>5, <2>3, <2>4, <3>2 DEF MemLookup, InSlot
  <2> QED BY <2>3, <2>5, NewestStored
<1> QED BY <1>6, <1>7, <1>8 DEF Write

\* Claiming moves a table from one slot to the next and no answer with it.
LEMMA ClaimKeeps ==
    ASSUME Inv, ClaimFlushVictim
    PROVE  Newest' = Newest
<1>1. TypeOK
  BY DEF Inv
<1> QED BY <1>1, ConstantsAssumption, NewestUnchanged
     DEF ClaimFlushVictim, MemLookup, InSlot, logVars, TypeOK

\* A published table answers as the victim it was written from did; the victim
\* is still in its slot.
LEMMA PublishKeeps ==
    ASSUME Inv, PublishSstable
    PROVE  Newest' = Newest
<1>1. TypeOK /\ HeapSafety /\ FlushState
  BY DEF Inv, WorkerState
<1>2. /\ fl_pc = "publish" /\ fl_ok
      /\ sstables' = <<WrittenSstable>> \o sstables
      /\ UNCHANGED tableVars
  BY <1>1 DEF PublishSstable, FlushState
<1>3. /\ WrittenSstable \in Sstable
      /\ WrittenSstable.entries = heap[fl_victim]
      /\ fl_victim = flushing_memtable /\ fl_victim # NULL
  BY <1>1, <1>2 DEF WrittenSstable, Sstable, FlushState, HeapSafety, TypeOK
<1>4. ASSUME NEW c \in LogicalBlocks
      PROVE  /\ MemLookup(c)' = MemLookup(c)
             /\ SstLookup(sstables', c) =
                   IF heap[fl_victim][c] # NoData THEN heap[fl_victim][c]
                   ELSE SstLookup(sstables, c)
  <2>1. MemLookup(c)' = MemLookup(c)
    BY <1>2 DEF MemLookup, InSlot, tableVars
  <2> QED BY <1>1, <1>2, <1>3, <2>1, PrependLookup DEF TypeOK
<1>5. ASSUME NEW c \in LogicalBlocks, heap[fl_victim][c] # NoData
      PROVE  MemLookup(c) # NoData
  BY <1>3, <1>5 DEF MemLookup, InSlot
<1> QED BY <1>4, <1>5 DEF Newest

\* Releasing the victim uncovers the table that was published before.
LEMMA ReleaseKeeps ==
    ASSUME Inv, ReleaseFlushVictim
    PROVE  Newest' = Newest
<1>1. TypeOK /\ HeapSafety /\ FlushState
  BY DEF Inv, WorkerState
<1>2. /\ fl_victim = flushing_memtable /\ fl_victim # NULL
      /\ flushing_memtable' = NULL
      /\ UNCHANGED <<heap, active_memtable, immutable_memtable, sstables>>
  BY <1>1 DEF ReleaseFlushVictim, HeapSafety, logVars
<1>3. \A c \in LogicalBlocks : heap[fl_victim][c] # NoData =>
         SstLookup(sstables, c) = heap[fl_victim][c]
  BY <1>1 DEF ReleaseFlushVictim, FlushState
<1> QED BY <1>2, <1>3 DEF Newest, MemLookup, InSlot

\* Freeing memory nobody points to changes no answer.
LEMMA FreeKeeps ==
    ASSUME Inv, FreeVictim \/ FreeDetached
    PROVE  Newest' = Newest
<1>1. TypeOK /\ HeapSafety /\ FlushState
  BY DEF Inv, WorkerState
<1> DEFINE Slots == {active_memtable, immutable_memtable, flushing_memtable} \ {NULL}
<1>2. UNCHANGED <<active_memtable, immutable_memtable, flushing_memtable, sstables>>
  BY DEF FreeVictim, FreeDetached, logVars
<1>3. ASSUME NEW t \in Slots PROVE heap'[t] = heap[t]
  <2>1. CASE FreeVictim
    BY <1>1, <2>1 DEF FreeVictim, HeapSafety, FlushState, TypeOK
  <2>2. CASE FreeDetached
    BY <1>1, <2>2 DEF FreeDetached, HeapSafety, TypeOK
  <2> QED BY <2>1, <2>2
<1>4. \A c \in LogicalBlocks : MemLookup(c)' = MemLookup(c)
  BY <1>2, <1>3 DEF MemLookup, InSlot
<1> QED BY <1>2, <1>4, NewestUnchanged

\* The LSM mapping implements the abstract mapping store: a write is a Put, a
\* lookup that returns is a Get of the current value, and everything the flush
\* worker does is invisible.
THEOREM Refinement == Spec => ImplementsMappingStore
<1>1. Init => Abstract!Init
  <2> SUFFICES ASSUME Init PROVE Abstract!Init
    OBVIOUS
  <2>1. TypeOK /\ sstables = <<>>
    BY InitInv DEF Inv, Init
  <2>2. \A c \in LogicalBlocks : MemLookup(c) = NoData
    BY ConstantsAssumption DEF Init, Alloc, MemLookup, InSlot, Empty
  <2>3. \A c \in LogicalBlocks : SstLookup(sstables, c) = NoData
    BY <2>1 DEF SstLookup, Hits
  <2> QED BY <2>2, <2>3 DEF Init, Newest, Abstract!Init
<1>2. Inv /\ [Next]_vars => [Abstract!Next]_(Abstract!vars)
  <2> SUFFICES ASSUME Inv, [Next]_vars
               PROVE  [Abstract!Next]_(Abstract!vars)
    OBVIOUS
  <2> USE DEF tableVars, queueVars, logVars, ioVars, writeVars, flVars
  <2>1. TypeOK /\ IoState
    BY DEF Inv, WorkerState
  <2>2. ASSUME NEW b \in LogicalBlocks, NEW p \in PhysicalSectors, Write(b, p)
        PROVE  Abstract!Put(b, p)
    <3>1. got' = <<>>
      BY <2>2 DEF Write, PutInPlace, Freeze, CompactAndFreeze
    <3> QED BY <2>2, <3>1, WriteStores DEF Abstract!Put
  <2>3. ASSUME UNCHANGED <<tableVars, sstables>>
        PROVE  Newest' = Newest
    BY <2>3 DEF Newest, MemLookup, InSlot
  <2>4. ASSUME NEW b \in LogicalBlocks, LookupMemtables(b)
        PROVE  Abstract!Get(b) \/ UNCHANGED Abstract!vars
    <3>1. Newest' = Newest
      BY <2>3, <2>4 DEF LookupMemtables
    <3>2. CASE MemLookup(b) # NoData
      <4>1. got' = <<b, Newest[b]>>
        BY <2>4, <3>2 DEF LookupMemtables, Newest
      <4> QED BY <3>1, <4>1 DEF Abstract!Get
    <3>3. CASE MemLookup(b) = NoData
      BY <2>4, <3>1, <3>3 DEF LookupMemtables, Abstract!vars
    <3> QED BY <3>2, <3>3
  <2>5. ASSUME LookupSstables
        PROVE  io_block \in LogicalBlocks /\ Abstract!Get(io_block)
    <3>1. Newest' = Newest
      BY <2>3, <2>5 DEF LookupSstables
    <3>2. io_block \in LogicalBlocks /\ MemLookup(io_block) = NoData
      BY <2>1, <2>5 DEF LookupSstables, IoState
    <3>3. got' = <<io_block, Newest[io_block]>>
      BY <2>5, <3>2 DEF LookupSstables, Newest
    <3> QED BY <3>1, <3>2, <3>3 DEF Abstract!Get
  <2>6. ASSUME IndexRefuses \/ IoMaybeQueueFlush \/ IoQueueWork \/ LookupSstablesFails
        PROVE  UNCHANGED Abstract!vars
    BY <2>3, <2>6 DEF IndexRefuses, IoMaybeQueueFlush, IoQueueWork,
                      LookupSstablesFails, Abstract!vars
  <2>7. ASSUME FreeDetached \/ FreeVictim
        PROVE  UNCHANGED Abstract!vars
    BY <2>7, FreeKeeps DEF FreeDetached, FreeVictim, Abstract!vars
  <2>8. ASSUME ClaimFlushVictim \/ PublishSstable \/ ReleaseFlushVictim
        PROVE  UNCHANGED Abstract!vars
    BY <2>8, ClaimKeeps, PublishKeeps, ReleaseKeeps
    DEF ClaimFlushVictim, PublishSstable, ReleaseFlushVictim, Abstract!vars
  <2>9. ASSUME \/ StartFlush \/ SnapshotLog \/ SstWriteRefused
               \/ WriteHeader \/ WriteHeaderFails
               \/ WritePayload \/ WritePayloadFails \/ AdvanceMetaWp
               \/ ClearInFlight \/ FlMaybeQueueFlush \/ FlQueueWork
        PROVE  UNCHANGED Abstract!vars
    <3>1. UNCHANGED <<tableVars, sstables, got>>
      BY <2>9 DEF StartFlush, SnapshotLog, SstWriteRefused, WriteHeader,
                  WriteHeaderFails, WritePayload, WritePayloadFails, AdvanceMetaWp,
                  ClearInFlight, FlMaybeQueueFlush, FlQueueWork
    <3> QED BY <2>3, <3>1 DEF Abstract!vars
  <2>10. ASSUME UNCHANGED vars
         PROVE  UNCHANGED Abstract!vars
    BY <2>3, <2>10 DEF vars, Abstract!vars
  <2> QED BY <2>2, <2>4, <2>5, <2>6, <2>7, <2>8, <2>9, <2>10
       DEF Next, IoContinues, FlushWorker, Abstract!Next
<1> QED BY InvHolds, <1>1, <1>2, PTL DEF Spec, ImplementsMappingStore, Abstract!Spec
=============================================================================
