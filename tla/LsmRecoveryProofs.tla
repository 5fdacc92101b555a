------------------------- MODULE LsmRecoveryProofs -------------------------
(***************************************************************************)
(* Theorems about LsmRecovery, for any number of blocks and sectors, any   *)
(* size of the metadata zone and any number of crashes and errors.         *)
(*                                                                         *)
(* The argument is about one list, the log: the complete tables that stand *)
(* back to back from the superblock on.  It ends at the write pointer or   *)
(* at a torn table, and a creation that succeeds finds it and nothing      *)
(* else.                                                                   *)
(***************************************************************************)
EXTENDS LsmRecovery, LeastNumber, FiniteSetTheorems, TLAPS

Running == engine \in {"up", "drain", "exit"}

Table == [start : 2..MetaEnd, table : Contents, seq : 1..MetaEnd]

\* The mapping of the first n tables of the list L.
FoundIn(L, n) ==
    [b \in LogicalBlocks |->
        LET hits == {i \in 1..n : L[i].table[b] # NoData}
        IN  IF hits = {} THEN NoData
            ELSE L[CHOOSE i \in hits : \A j \in hits : i <= j].table[b]]

Mapping(L) == FoundIn(L, Len(L))

\* The mapping once the generations before g are in the log.
Stage(g) ==
    IF g = 1 THEN OnDisk
    ELSE IF g = 2 THEN Over(OnDisk, tables["flushing"])
    ELSE IF g = 3 THEN Over(Over(OnDisk, tables["flushing"]), tables["immutable"])
    ELSE Over(Over(Over(OnDisk, tables["flushing"]), tables["immutable"]),
              tables["active"])

(***************************************************************************)
(* The log: a list of tables, newest first                                 *)
(***************************************************************************)
\* The block behind the list L.
End(L) == IF L = <<>> THEN 2 ELSE L[1].start + NrBlocks(L[1].table)

\* The tables stand back to back from block 2 on, and their sequence numbers grow.
Chained(L) ==
    /\ L # <<>> => L[Len(L)].start = 2
    /\ \A i \in 2..Len(L) : L[i].start + NrBlocks(L[i].table) = L[i - 1].start
    /\ \A i, j \in 1..Len(L) : i < j => L[j].seq < L[i].seq

\* Each of them is on the media with all of its payload.
Stored(L) ==
    \A i \in 1..Len(L) :
        /\ zone[L[i].start] = Header(L[i].table, L[i].seq)
        /\ L[i].start + NrBlocks(L[i].table) <= Len(zone) + 1
        /\ Intact(L[i])
        /\ Entries(L[i].table) \subseteq zone[1].blocks

\* Either the log is all there is ...
Whole(L) ==
    /\ zone = <<>> => L = <<>>
    /\ zone # <<>> => End(L) = (IF engine = "down" THEN Len(zone) + 1 ELSE meta_wp)
    /\ Running => /\ Mapping(L) = Stage(fl_gen)
                  /\ \A i \in 1..Len(L) : L[i].seq < next_sst_seq

\* ... or it ends for good at a table that a fault has torn.
Broken(L) ==
    /\ Torn(End(L))
    /\ engine # "down" => End(L) < meta_wp
    /\ crashes > 0 \/ errors > 0

\* The tables found so far are the oldest of the log, or a torn one is among them.
Scanned(L) ==
    engine \in {"scan", "rebuild"} =>
        \/ /\ Len(sstables) <= Len(L)
           /\ \A i \in 1..Len(sstables) :
                 sstables[i] = L[Len(L) - Len(sstables) + i]
           /\ engine = "rebuild" => Len(sstables) = Len(L)
        \/ /\ Broken(L)
           /\ \E i \in 1..Len(sstables) : ~Intact(sstables[i])

\* A mapping of written sectors, no two blocks at one.
Valid(m) ==
    \A b \in LogicalBlocks : m[b] # NoData =>
        /\ m[b] \in written
        /\ \A c \in LogicalBlocks \ {b} : m[c] # m[b]

\* No two blocks are at one sector.
Apart(m) ==
    \A b \in LogicalBlocks : m[b] # NoData => \A c \in LogicalBlocks \ {b} : m[c] # m[b]

\* What the requests make, with a location that was refused only after an error.
Placed(m) ==
    /\ Apart(m)
    /\ errors = 0 => Valid(m)

\* What the requests left is what the log has, or was appended behind its end.
Owed(L) ==
    /\ kept => (Mapping(L) = acked /\ Placed(acked)) \/ Broken(L)
    /\ Running => Newest = acked \/ (cursor = End(L) /\ Broken(L))
    /\ Mapping(L) \in past

LogInv(L) ==
    /\ Chained(L)
    /\ Stored(L)
    /\ Whole(L) \/ Broken(L)
    /\ Scanned(L)
    /\ Owed(L)

(***************************************************************************)
(* The rest of the inductive invariant                                     *)
(***************************************************************************)
\* The superblock comes first, and a header's number is below its block's.
ZoneOK ==
    /\ zone = <<>> => engine = "down"
    /\ zone # <<>> => zone[1].kind = "super"
    /\ engine # "down" => target \in Targets /\ zone[1] = Super(target)
    /\ \A i \in 1..Len(zone) : zone[i].kind = "header" => zone[i].seq < i

\* What an instance that does not run yet has in memory.
StartOK ==
    /\ ~Running => fl_pc = "idle" /\ tables = NoTables
    /\ engine = "down" => sstables = <<>> /\ cursor = 2 /\ next_sst_seq = 1
    /\ engine \in {"scan", "rebuild"} =>
          /\ meta_wp = Len(zone) + 1
          /\ cursor = End(sstables) /\ cursor <= meta_wp
          /\ next_sst_seq < cursor
          /\ \A i \in 1..Len(sstables) :
                sstables[i].start + NrBlocks(sstables[i].table) <= meta_wp
    /\ engine \in {"down", "scan"} => restored = 0 /\ latest = Empty
    /\ engine = "rebuild" =>
          /\ latest = FoundIn(sstables, restored)
          /\ \A i \in 1..restored : Intact(sstables[i])

\* Where the thread that serializes a table is.
WriterOK ==
    /\ engine # "exit" => fl_gen = 1 /\ fl_pc # "next"
    /\ engine = "exit" => fl_pc \notin {"idle", "claim"}
    /\ fl_pc # "next" => fl_gen <= 3
    /\ Running /\ fl_pc # "payload" => meta_wp = Len(zone) + 1
    /\ fl_pc = "payload" =>
          /\ meta_wp + fl_page = Len(zone)
          /\ zone[meta_wp] = Header(Victim, next_sst_seq)
          /\ \A k \in 1..fl_page : zone[meta_wp + k] = Payload(Victim, k)
          /\ fl_page < NrBlocks(Victim)
          /\ meta_wp + NrBlocks(Victim) <= MetaEnd + 1

\* Sequence numbers of a running instance, and the blocks it writes.
InstanceOK ==
    /\ engine # "down" => \A i \in 1..Len(sstables) : sstables[i].seq < next_sst_seq
    /\ Running => /\ next_sst_seq < meta_wp
                  /\ SequencesGrow
                  /\ \A g \in {"flushing", "immutable", "active"} :
                        Entries(tables[g]) \subseteq target

HistoryOK ==
    /\ IF Running THEN Placed(Newest) ELSE Valid(latest)
    /\ Running => ~kept /\ ~refused
    /\ Running => \A g \in 1..4 : Stage(g) \in past
    /\ Running => writes_stopped \/ Valid(Newest)
    /\ RefusedOnlyIfTorn
    /\ MaxCrashes = 0 /\ MaxErrors = 0 => CleanlyRemovedOpens

Inv ==
    /\ TypeOK
    /\ ZoneOK
    /\ StartOK
    /\ WriterOK
    /\ InstanceOK
    /\ HistoryOK
    /\ \E L \in Seq(Table) : LogInv(L)

(***************************************************************************)
(* Tables and lists of tables                                              *)
(***************************************************************************)
\* The header is always there, however many entries a table has.
LEMMA NrBlocksFacts ==
    ASSUME NEW m
    PROVE  NrBlocks(m) \in Nat /\ NrBlocks(m) >= 1
<1> DEFINE S == {b \in LogicalBlocks : m[b] # NoData}
<1>1. Cardinality(S) \in Nat
  <2>1. IsFiniteSet(S)
    BY RecoveryAssumption, FS_Subset
  <2> HIDE DEF S
  <2> QED BY <2>1, FS_CardinalityType
<1> DEFINE n == Cardinality(S) + EntriesPerBlock - 1
<1>2. n \in Nat /\ EntriesPerBlock \in Nat \ {0}
  <2> HIDE DEF S
  <2> QED BY <1>1, RecoveryAssumption
<1>3. NrBlocks(m) = 1 + (n \div EntriesPerBlock)
  BY DEF NrBlocks, Size
<1> HIDE DEF n
<1>4. n \div EntriesPerBlock \in Nat
  BY <1>2
<1> QED BY <1>3, <1>4

\* What the constants are.
LEMMA ConstantFacts ==
    /\ MetaEnd \in Nat /\ MetaEnd >= 1
    /\ MaxCrashes \in Nat /\ MaxErrors \in Nat
    /\ NoData \notin PhysicalSectors
    /\ Empty \in Contents
    /\ NoTables \in [{"flushing", "immutable", "active"} -> Contents]
BY RecoveryAssumption DEF Empty, Contents, NoTables

\* Tables over tables.
LEMMA OverFacts ==
    ASSUME NEW x \in Contents, NEW y \in Contents, NEW z \in Contents
    PROVE  /\ Over(x, y) \in Contents
           /\ Over(x, Empty) = x
           /\ Over(Empty, x) = x
           /\ Over(Over(x, y), z) = Over(x, Over(y, z))
<1>1. Over(x, y) \in Contents
  BY DEF Over, Contents
<1>2. Over(x, Empty) = x
  BY DEF Over, Contents, Empty
<1>3. Over(Empty, x) = x
  BY DEF Over, Contents, Empty
<1>4. Over(Over(x, y), z) = Over(x, Over(y, z))
  BY DEF Over, Contents
<1> QED BY <1>1, <1>2, <1>3, <1>4

\* Of the first n tables of a list the first one that has the block decides.
LEMMA FirstTable ==
    ASSUME NEW L, NEW n \in Nat, NEW b \in LogicalBlocks
    PROVE  \/ /\ \A i \in 1..n : L[i].table[b] = NoData
              /\ FoundIn(L, n)[b] = NoData
           \/ \E i \in 1..n :
                 /\ L[i].table[b] # NoData
                 /\ \A j \in 1..n : L[j].table[b] # NoData => i <= j
                 /\ FoundIn(L, n)[b] = L[i].table[b]
<1> DEFINE hits == {i \in 1..n : L[i].table[b] # NoData}
           first == CHOOSE i \in hits : \A j \in hits : i <= j
<1>1. FoundIn(L, n)[b] = IF hits = {} THEN NoData ELSE L[first].table[b]
  BY DEF FoundIn
<1>2. CASE hits = {}
  BY <1>1, <1>2
<1>3. CASE hits # {}
  <2>1. \E i \in hits : \A j \in hits : i <= j
    <3>1. hits \in SUBSET Nat
      OBVIOUS
    <3> HIDE DEF hits
    <3> QED BY <1>3, <3>1, LeastExists
  <2>2. first \in hits /\ \A j \in hits : first <= j
    <3> HIDE DEF hits
    <3> QED BY <2>1
  <2> HIDE DEF first
  <2> QED BY <1>1, <1>3, <2>2
<1> QED BY <1>2, <1>3

\* No two tables can be the first.
LEMMA FirstTableDecides ==
    ASSUME NEW L, NEW n \in Nat, NEW b \in LogicalBlocks, NEW i \in 1..n,
           L[i].table[b] # NoData, \A j \in 1 .. i - 1 : L[j].table[b] = NoData
    PROVE  FoundIn(L, n)[b] = L[i].table[b]
<1>1. PICK k \in 1..n : /\ L[k].table[b] # NoData
                        /\ \A j \in 1..n : L[j].table[b] # NoData => k <= j
                        /\ FoundIn(L, n)[b] = L[k].table[b]
  BY FirstTable
<1>2. k <= i /\ ~(k < i)
  BY <1>1
<1> QED BY <1>1, <1>2

\* A mapping found in a list is one.
LEMMA FoundType ==
    ASSUME NEW L \in Seq(Table), NEW n \in Nat, n <= Len(L)
    PROVE  FoundIn(L, n) \in Contents
<1>1. ASSUME NEW b \in LogicalBlocks PROVE FoundIn(L, n)[b] \in PhysicalSectors \cup {NoData}
  <2>1. \A i \in 1..n : L[i] \in Table
    OBVIOUS
  <2>2. \A i \in 1..n : L[i].table \in Contents
    BY <2>1 DEF Table
  <2> QED BY <2>2, FirstTable DEF Contents
<1>2. FoundIn(L, n) = [b \in LogicalBlocks |-> FoundIn(L, n)[b]]
  BY DEF FoundIn
<1> QED BY <1>1, <1>2 DEF Contents

\* Nothing is found in no table.
LEMMA FoundNothing ==
    ASSUME NEW L
    PROVE  FoundIn(L, 0) = Empty
BY DEF FoundIn, Empty

\* One table more, at the end: it decides where no table before it does.
LEMMA FoundNext ==
    ASSUME NEW L \in Seq(Table), NEW n \in Nat, n < Len(L)
    PROVE  FoundIn(L, n + 1) = Over(L[n + 1].table, FoundIn(L, n))
<1>1. ASSUME NEW b \in LogicalBlocks
      PROVE  FoundIn(L, n + 1)[b] =
                IF FoundIn(L, n)[b] # NoData THEN FoundIn(L, n)[b] ELSE L[n + 1].table[b]
  <2>1. CASE \A i \in 1..n : L[i].table[b] = NoData
    <3>1. FoundIn(L, n)[b] = NoData
      BY <2>1, FirstTable
    <3>2. CASE L[n + 1].table[b] = NoData
      <4>1. n + 1 \in Nat /\ \A i \in 1 .. n + 1 : L[i].table[b] = NoData
        BY <2>1, <3>2
      <4>2. FoundIn(L, n + 1)[b] = NoData
        BY <4>1, FirstTable
      <4> QED BY <3>1, <3>2, <4>2
    <3>3. CASE L[n + 1].table[b] # NoData
      <4>1. n + 1 \in Nat /\ n + 1 \in 1 .. n + 1
        OBVIOUS
      <4>2. \A j \in 1 .. (n + 1) - 1 : L[j].table[b] = NoData
        BY <2>1
      <4> QED BY <3>1, <3>3, <4>1, <4>2, FirstTableDecides
    <3> QED BY <3>2, <3>3
  <2>2. CASE \E i \in 1..n : L[i].table[b] # NoData
    <3>1. PICK i \in 1..n : /\ L[i].table[b] # NoData
                            /\ \A j \in 1..n : L[j].table[b] # NoData => i <= j
                            /\ FoundIn(L, n)[b] = L[i].table[b]
      BY <2>2, FirstTable
    <3>2. n + 1 \in Nat /\ i \in 1 .. n + 1 /\ \A j \in 1 .. i - 1 : L[j].table[b] = NoData
      BY <3>1
    <3>3. FoundIn(L, n + 1)[b] = L[i].table[b]
      BY <3>1, <3>2, FirstTableDecides
    <3> QED BY <3>1, <3>3
  <2> QED BY <2>1, <2>2
<1>2. FoundIn(L, n + 1) = [b \in LogicalBlocks |-> FoundIn(L, n + 1)[b]]
  BY DEF FoundIn
<1> QED BY <1>1, <1>2 DEF Over

\* One table more, at the head: list_add().
LEMMA FoundCons ==
    ASSUME NEW L \in Seq(Table), NEW t \in Table
    PROVE  /\ <<t>> \o L \in Seq(Table) /\ Len(<<t>> \o L) = Len(L) + 1
           /\ (<<t>> \o L)[1] = t
           /\ \A i \in 2 .. Len(L) + 1 : (<<t>> \o L)[i] = L[i - 1]
           /\ Mapping(<<t>> \o L) = Over(Mapping(L), t.table)
<1> DEFINE M == <<t>> \o L
<1>1. M \in Seq(Table) /\ Len(M) = Len(L) + 1 /\ M[1] = t
  OBVIOUS
<1>2. \A i \in 2 .. Len(L) + 1 : M[i] = L[i - 1]
  OBVIOUS
<1> HIDE DEF M
<1>3. ASSUME NEW b \in LogicalBlocks
      PROVE  Mapping(M)[b] = IF t.table[b] # NoData THEN t.table[b] ELSE Mapping(L)[b]
  <2>1. Len(M) \in Nat /\ Len(L) \in Nat
    BY <1>1
  <2>2. CASE t.table[b] # NoData
    <3>1. 1 \in 1..Len(M) /\ M[1].table[b] # NoData
      BY <1>1, <2>1, <2>2
    <3>2. \A j \in 1 .. 1 - 1 : M[j].table[b] = NoData
      OBVIOUS
    <3> QED BY <1>1, <2>1, <2>2, <3>1, <3>2, FirstTableDecides DEF Mapping
  <2>3. CASE t.table[b] = NoData
    <3>1. CASE \A i \in 1..Len(L) : L[i].table[b] = NoData
      <4>1. \A i \in 1..Len(M) : M[i].table[b] = NoData
        <5> SUFFICES ASSUME NEW i \in 1..Len(M) PROVE M[i].table[b] = NoData
          OBVIOUS
        <5>1. CASE i = 1
          BY <1>1, <2>3, <5>1
        <5>2. CASE i # 1
          <6>1. i \in 2 .. Len(L) + 1 /\ i - 1 \in 1..Len(L)
            BY <1>1, <2>1, <5>2
          <6> QED BY <1>2, <3>1, <6>1
        <5> QED BY <5>1, <5>2
      <4>2. Mapping(M)[b] = NoData
        BY <2>1, <4>1, FirstTable DEF Mapping
      <4>3. Mapping(L)[b] = NoData
        BY <2>1, <3>1, FirstTable DEF Mapping
      <4> QED BY <2>3, <4>2, <4>3
    <3>2. CASE \E i \in 1..Len(L) : L[i].table[b] # NoData
      <4>1. PICK i \in 1..Len(L) : /\ L[i].table[b] # NoData
                                   /\ \A j \in 1..Len(L) : L[j].table[b] # NoData => i <= j
                                   /\ Mapping(L)[b] = L[i].table[b]
        BY <2>1, <3>2, FirstTable DEF Mapping
      <4>2. i + 1 \in 1..Len(M) /\ M[i + 1] = L[i]
        <5>1. i + 1 \in 2 .. Len(L) + 1 /\ (i + 1) - 1 = i
          BY <2>1
        <5> QED BY <1>1, <1>2, <5>1
      <4>3. \A j \in 1 .. (i + 1) - 1 : M[j].table[b] = NoData
        <5> SUFFICES ASSUME NEW j \in 1 .. (i + 1) - 1 PROVE M[j].table[b] = NoData
          OBVIOUS
        <5>1. CASE j = 1
          BY <1>1, <2>3, <5>1
        <5>2. CASE j # 1
          <6>1. j \in 2 .. Len(L) + 1 /\ j - 1 \in 1..Len(L) /\ ~(i <= j - 1)
            BY <2>1, <5>2
          <6> QED BY <1>2, <4>1, <6>1
        <5> QED BY <5>1, <5>2
      <4>4. Mapping(M)[b] = M[i + 1].table[b]
        BY <2>1, <4>1, <4>2, <4>3, FirstTableDecides DEF Mapping
      <4> QED BY <2>3, <4>1, <4>2, <4>4
    <3> QED BY <3>1, <3>2
  <2> QED BY <2>2, <2>3
<1>4. Mapping(M) = [b \in LogicalBlocks |-> Mapping(M)[b]]
  BY DEF Mapping, FoundIn
<1>5. Mapping(M) = Over(Mapping(L), t.table)
  BY <1>3, <1>4 DEF Over
<1> QED BY <1>1, <1>2, <1>5 DEF M

\* OnDisk is the mapping of the list of SSTables.
LEMMA OnDiskIsMapping == OnDisk = Mapping(sstables)
BY DEF OnDisk, Hits, Mapping, FoundIn

(***************************************************************************)
(* The state                                                               *)
(***************************************************************************)
\* A header on the media carries a table and a number.
LEMMA BlockFacts ==
    ASSUME zone \in Seq(Block)
    PROVE  /\ Len(zone) \in Nat
           /\ \A i \in 1..Len(zone) : zone[i].kind = "header" =>
                 /\ zone[i] = Header(zone[i].table, zone[i].seq)
                 /\ zone[i].table \in Contents /\ zone[i].seq \in 1..MetaEnd
           /\ \A m, s, k : Header(m, s).kind = "header" /\ Payload(m, k).kind = "payload"
           /\ \A T : Super(T).kind = "super" /\ Super(T).blocks = T
           /\ \A m, s : Header(m, s).table = m /\ Header(m, s).seq = s
<1>1. \A x \in Block : x.kind = "header" =>
         /\ x = Header(x.table, x.seq) /\ x.table \in Contents /\ x.seq \in 1..MetaEnd
  BY DEF Block, Header, Payload, Super
<1>2. \A i \in 1..Len(zone) : zone[i] \in Block
  OBVIOUS
<1>3. /\ \A m, s, k : Header(m, s).kind = "header" /\ Payload(m, k).kind = "payload"
      /\ \A T : Super(T).kind = "super" /\ Super(T).blocks = T
      /\ \A m, s : Header(m, s).table = m /\ Header(m, s).seq = s
  BY DEF Header, Payload, Super
<1> QED BY <1>1, <1>2, <1>3

\* What is written to the zone is a block.
LEMMA BlockTypes ==
    /\ \A T \in Targets : Super(T) \in Block
    /\ \A m \in Contents, s \in 1..MetaEnd : Header(m, s) \in Block
    /\ \A m \in Contents, k \in 1..MetaEnd : Payload(m, k) \in Block
BY DEF Block

\* A block appended to the zone leaves the others where they are.
LEMMA AppendFacts ==
    ASSUME zone \in Seq(Block), NEW x, zone' = Append(zone, x)
    PROVE  /\ Len(zone') = Len(zone) + 1 /\ Len(zone) \in Nat
           /\ zone'[Len(zone) + 1] = x
           /\ \A i \in 1..Len(zone) : zone'[i] = zone[i]
           /\ x \in Block => zone' \in Seq(Block)
OBVIOUS

\* A table stays torn once a header stands where its payload should.
LEMMA TornKeeps ==
    ASSUME zone \in Seq(Block), NEW x, zone' = Append(zone, x), NEW c \in Nat, Torn(c),
           \/ x.kind = "header"
           \/ \E w \in Nat : c < w /\ w <= Len(zone) /\ zone[w].kind = "header"
    PROVE  Torn(c)'
<1> DEFINE n == NrBlocks(zone[c].table)
<1>1. c \in 1..Len(zone) /\ zone[c].kind = "header" /\ zone'[c] = zone[c]
  BY AppendFacts DEF Torn
<1>2. PICK k \in 1 .. n - 1 : c + k > Len(zone) \/ zone[c + k] # Payload(zone[c].table, k)
  BY DEF Torn
<1>3. n \in Nat /\ n >= 1
  BY NrBlocksFacts
<1>4. \E j \in 1 .. n - 1 :
         c + j > Len(zone') \/ zone'[c + j] # Payload(zone[c].table, j)
  <2> HIDE DEF n
  <2>1. CASE c + k <= Len(zone)
    <3>1. c + k \in 1..Len(zone)
      BY <1>1, <1>3, <2>1
    <3>2. zone'[c + k] = zone[c + k] /\ zone[c + k] # Payload(zone[c].table, k)
      BY <1>2, <2>1, <3>1, AppendFacts, <1>1, <1>3
    <3> QED BY <3>2
  <2>2. CASE c + k > Len(zone) + 1
    BY <2>2, AppendFacts
  <2>3. CASE c + k = Len(zone) + 1
    <3>1. CASE x.kind = "header"
      <4>1. zone'[c + k] = x /\ Payload(zone[c].table, k).kind = "payload"
        BY <2>3, AppendFacts, BlockFacts
      <4> QED BY <3>1, <4>1
    <3>2. CASE \E w \in Nat : c < w /\ w <= Len(zone) /\ zone[w].kind = "header"
      <4>1. PICK w \in Nat : c < w /\ w <= Len(zone) /\ zone[w].kind = "header"
        BY <3>2
      <4>2. w - c \in 1 .. n - 1 /\ c + (w - c) = w /\ w \in 1..Len(zone)
        BY <1>1, <1>3, <2>3, <4>1
      <4>3. zone'[w] = zone[w] /\ Payload(zone[c].table, w - c).kind = "payload"
        BY <4>2, AppendFacts, BlockFacts
      <4> QED BY <4>1, <4>2, <4>3
    <3> QED BY <3>1, <3>2
  <2>4. c + k <= Len(zone) \/ c + k = Len(zone) + 1 \/ c + k > Len(zone) + 1
    <3>1. k \in Int /\ Len(zone) \in Nat
      BY <1>1, <1>3
    <3> QED BY <3>1
  <2> QED BY <2>1, <2>2, <2>3, <2>4
<1>5. c \in 1..Len(zone')
  BY <1>1, AppendFacts
<1> QED BY <1>1, <1>4, <1>5 DEF Torn

\* An appended block tears no table, and cuts none.
LEMMA StoredKeeps ==
    ASSUME zone \in Seq(Block), NEW x, zone' = Append(zone, x), zone # <<>>,
           NEW L \in Seq(Table), Stored(L)
    PROVE  Stored(L)'
<1> SUFFICES ASSUME NEW i \in 1..Len(L)
             PROVE  /\ zone'[L[i].start] = Header(L[i].table, L[i].seq)
                    /\ L[i].start + NrBlocks(L[i].table) <= Len(zone') + 1
                    /\ \A k \in 1 .. NrBlocks(L[i].table) - 1 :
                          zone'[L[i].start + k] = Payload(L[i].table, k)
                    /\ Entries(L[i].table) \subseteq zone'[1].blocks
  BY DEF Stored, Intact
<1>1. /\ zone[L[i].start] = Header(L[i].table, L[i].seq)
      /\ L[i].start + NrBlocks(L[i].table) <= Len(zone) + 1
      /\ \A k \in 1 .. NrBlocks(L[i].table) - 1 :
            zone[L[i].start + k] = Payload(L[i].table, k)
      /\ Entries(L[i].table) \subseteq zone[1].blocks
  BY DEF Stored, Intact
<1>2. L[i].start \in Nat /\ L[i].start >= 2
  <2>1. L[i] \in Table
    OBVIOUS
  <2>2. L[i].start \in 2..MetaEnd
    BY <2>1 DEF Table
  <2> QED BY <2>2, ConstantFacts
<1>3. NrBlocks(L[i].table) \in Nat /\ NrBlocks(L[i].table) >= 1 /\ Len(zone) \in Nat
  BY NrBlocksFacts
<1>4. L[i].start \in 1..Len(zone) /\ 1 \in 1..Len(zone)
  BY <1>1, <1>2, <1>3
<1>5. \A k \in 1 .. NrBlocks(L[i].table) - 1 : L[i].start + k \in 1..Len(zone)
  BY <1>1, <1>2, <1>3
<1>6. Len(zone') + 1 = Len(zone) + 2
  BY AppendFacts
<1>7. L[i].start + NrBlocks(L[i].table) <= Len(zone') + 1
  BY <1>1, <1>2, <1>3, <1>6
<1> QED BY <1>1, <1>4, <1>5, <1>7, AppendFacts

\* The mappings TypeOK makes of the tables.
LEMMA TypeFacts ==
    ASSUME TypeOK
    PROVE  /\ sstables \in Seq(Table) /\ Len(sstables) \in Nat
           /\ OnDisk \in Contents
           /\ tables["flushing"] \in Contents /\ tables["immutable"] \in Contents
           /\ tables["active"] \in Contents
           /\ zone \in Seq(Block) /\ Len(zone) \in Nat /\ Len(zone) <= MetaEnd
           /\ meta_wp \in Nat /\ next_sst_seq \in Nat /\ cursor \in Nat /\ fl_page \in Nat
           /\ restored \in Nat /\ restored <= Len(sstables)
           /\ crashes \in Nat /\ errors \in Nat
<1>1. sstables \in Seq(Table) /\ Len(sstables) \in Nat
  BY DEF TypeOK, Table
<1>2. OnDisk \in Contents
  BY <1>1, OnDiskIsMapping, FoundType DEF Mapping
<1> QED BY <1>1, <1>2, ConstantFacts DEF TypeOK

\* The stages lie over each other, and the last one is what a lookup finds.
LEMMA StageFacts ==
    ASSUME TypeOK
    PROVE  /\ \A g \in 1..4 : Stage(g) \in Contents
           /\ \A g \in 1..3 : /\ tables[Generations[g]] \in Contents
                              /\ Stage(g + 1) = Over(Stage(g), tables[Generations[g]])
           /\ Newest = Stage(4)
           /\ Stage(1) = OnDisk
<1> DEFINE f == tables["flushing"]  i == tables["immutable"]  a == tables["active"]
<1>1. f \in Contents /\ i \in Contents /\ a \in Contents /\ OnDisk \in Contents
  BY TypeFacts
<1>2. /\ Stage(1) = OnDisk /\ Stage(2) = Over(OnDisk, f)
      /\ Stage(3) = Over(Stage(2), i) /\ Stage(4) = Over(Stage(3), a)
  BY DEF Stage
<1>3. Generations[1] = "flushing" /\ Generations[2] = "immutable" /\ Generations[3] = "active"
  BY DEF Generations
<1> HIDE DEF f, i, a
<1>4. Stage(2) \in Contents /\ Stage(3) \in Contents /\ Stage(4) \in Contents
  BY <1>1, <1>2, OverFacts
<1>5. Stage(4) = Over(OnDisk, Over(f, Over(i, a)))
  <2>1. Over(f, i) \in Contents /\ Over(i, a) \in Contents
    BY <1>1, OverFacts
  <2>2. Stage(4) = Over(Over(Over(OnDisk, f), i), a)
    BY <1>2
  <2>3. Over(Over(OnDisk, f), i) = Over(OnDisk, Over(f, i))
    BY <1>1, OverFacts
  <2>4. Over(Over(OnDisk, Over(f, i)), a) = Over(OnDisk, Over(Over(f, i), a))
    BY <1>1, <2>1, OverFacts
  <2>5. Over(Over(f, i), a) = Over(f, Over(i, a))
    BY <1>1, OverFacts
  <2> QED BY <2>2, <2>3, <2>4, <2>5
<1>6. Newest = Stage(4)
  BY <1>5 DEF Newest, f, i, a
<1>7. ASSUME NEW g \in 1..3
      PROVE  /\ tables[Generations[g]] \in Contents
             /\ Stage(g + 1) = Over(Stage(g), tables[Generations[g]])
  <2>1. g = 1 \/ g = 2 \/ g = 3
    OBVIOUS
  <2> QED BY <1>1, <1>2, <1>3, <2>1 DEF f, i, a
<1>8. \A g \in 1..4 : g = 1 \/ g = 2 \/ g = 3 \/ g = 4
  OBVIOUS
<1> QED BY <1>1, <1>2, <1>4, <1>6, <1>7, <1>8

\* A lookup finds the last stage.
LEMMA NewestIsStaged == TypeOK => Newest = Stage(4)
BY StageFacts

\* And after a step.
LEMMA NewestIsStagedNext == TypeOK' => (Newest = Stage(4))'
BY NewestIsStaged, PTL

\* The stages depend on the tables only.
LEMMA StageKeeps ==
    ASSUME UNCHANGED <<tables, sstables>>
    PROVE  OnDisk' = OnDisk /\ Newest' = Newest /\ \A g : Stage(g)' = Stage(g)
<1>1. OnDisk' = OnDisk
  BY DEF OnDisk, Hits
<1> QED BY <1>1 DEF Stage, Newest, Over

(***************************************************************************)
(* Each step keeps the invariant: a running instance                       *)
(***************************************************************************)
\* A mapping the indexes can hold stays one.
LEMMA PlacedKeeps ==
    ASSUME TypeOK, UNCHANGED <<written, acked>>, errors' \in 0..MaxErrors, errors' >= errors
    PROVE  Placed(acked) => Placed(acked)'
<1>1. errors' = 0 => errors = 0
  BY ConstantFacts DEF TypeOK
<1> QED BY <1>1 DEF Placed, Apart, Valid

\* What is said of the media does not change with anything but the zone.
LEMMA MediaKeeps ==
    ASSUME UNCHANGED zone
    PROVE  /\ \A t : Intact(t)' = Intact(t)
           /\ \A c : Torn(c)' = Torn(c)
           /\ \A L : Stored(L)' = Stored(L)
<1>1. \A t : Intact(t)' = Intact(t)
  BY DEF Intact
<1>2. \A c : Torn(c)' = Torn(c)
  BY DEF Torn
<1>3. \A L : Stored(L)' = Stored(L)
  BY <1>1 DEF Stored
<1> QED BY <1>1, <1>2, <1>3

\* Why a creation was refused stays the reason until one succeeds.
LEMMA RefusalKeeps ==
    ASSUME UNCHANGED <<written, acked, kept, refused>>, zone' = zone \/ zone = <<>>,
           zone \in Seq(Block), RefusedOnlyIfTorn
    PROVE  RefusedOnlyIfTorn'
<1> SUFFICES ASSUME kept, refused, NEW c \in 1..Len(zone), Torn(c)
             PROVE  \E e \in 1..Len(zone') : Torn(e)'
  BY DEF RefusedOnlyIfTorn
<1>1. zone' = zone
  BY DEF Torn
<1>2. Torn(c)'
  BY <1>1, MediaKeeps
<1> QED BY <1>1, <1>2

\* A step of a running instance that writes nothing to the zone and keeps the
\* numbers of the log leaves the log what it is.
LEMMA QuietStep ==
    ASSUME Running, Running', UNCHANGED <<zone, meta_wp, next_sst_seq, cursor>>,
           crashes' >= crashes, errors' >= errors, TypeOK, TypeOK',
           NEW L \in Seq(Table), LogInv(L),
           Stage(fl_gen)' = Stage(fl_gen),
           past \subseteq past', ~kept',
           Newest = acked => Newest' = acked'
    PROVE  LogInv(L)'
<1>1. Chained(L)' /\ Mapping(L)' = Mapping(L)
  BY DEF LogInv
<1>2. Stored(L)'
  BY MediaKeeps DEF LogInv
<1>3. Scanned(L)'
  BY DEF Scanned, Running
<1>4. Broken(L) => Broken(L)'
  <2>1. Torn(End(L))' = Torn(End(L))
    BY MediaKeeps
  <2>2. crashes > 0 \/ errors > 0 => crashes' > 0 \/ errors' > 0
    <3>1. crashes \in Nat /\ errors \in Nat /\ crashes' \in Nat /\ errors' \in Nat
      BY ConstantFacts DEF TypeOK
    <3> QED BY <3>1
  <2> QED BY <2>1, <2>2 DEF Broken, Running
<1>5. Whole(L) => Whole(L)'
  BY DEF Whole, Running
<1>6. Owed(L)'
  BY <1>1, <1>4 DEF Owed, LogInv
<1> QED BY <1>1, <1>2, <1>3, <1>4, <1>5, <1>6 DEF LogInv

\* A write changes one block of the newest mapping; what the older stages hold
\* stays, or the freeze brings a stage up to the newest.
LEMMA PutStages ==
    ASSUME TypeOK, NEW b \in LogicalBlocks, NEW p \in PhysicalSectors, Put(b, p)
    PROVE  /\ tables' \in [{"flushing", "immutable", "active"} -> Contents]
           /\ tables'["flushing"] = tables["flushing"]
           /\ Stage(1)' = Stage(1) /\ Stage(2)' = Stage(2)
           /\ Stage(3)' = Stage(3) \/ Stage(3)' = Stage(4)'
           /\ Stage(4)' = [Stage(4) EXCEPT ![b] = p]
           /\ \A g \in {"flushing", "immutable", "active"} :
                 Entries(tables'[g]) \subseteq
                    {b} \cup Entries(tables["flushing"]) \cup Entries(tables["immutable"])
                        \cup Entries(tables["active"])
<1> DEFINE f == tables["flushing"]  i == tables["immutable"]  a == tables["active"]
           m == [a EXCEPT ![b] = p]
<1>1. f \in Contents /\ i \in Contents /\ a \in Contents /\ OnDisk \in Contents
  BY TypeFacts
<1>2. m \in Contents
  BY <1>1 DEF Contents
<1>3. /\ tables \in [{"flushing", "immutable", "active"} -> Contents]
      /\ \/ tables' = [tables EXCEPT !["active"] = m]
         \/ tables' = [tables EXCEPT !["active"] = Empty, !["immutable"] = Over(i, m)]
  BY DEF TypeOK, Put, AfterPut
<1>4. \/ tables'["flushing"] = f /\ tables'["immutable"] = i /\ tables'["active"] = m
      \/ tables'["flushing"] = f /\ tables'["immutable"] = Over(i, m) /\ tables'["active"] = Empty
  BY <1>3
<1>5. OnDisk' = OnDisk
  BY DEF OnDisk, Hits, Put, logVars
<1>6. tables' \in [{"flushing", "immutable", "active"} -> Contents]
  <2>1. Over(i, m) \in Contents /\ Empty \in Contents
    BY <1>1, <1>2, OverFacts, ConstantFacts
  <2> HIDE DEF i, m
  <2> QED BY <1>2, <1>3, <2>1
<1> DEFINE d == Over(OnDisk, f)
<1>7. d \in Contents /\ Over(d, i) \in Contents /\ Over(Over(d, i), a) \in Contents
  BY <1>1, OverFacts
<1>8. Over(Over(d, i), m) = [Over(Over(d, i), a) EXCEPT ![b] = p]
  <2> DEFINE e == Over(d, i)
  <2> HIDE DEF d, e, a
  <2>1. NoData # p
    BY ConstantFacts
  <2> QED BY <1>1, <1>7, <2>1 DEF Over, Contents, e
<1>9. /\ Stage(1) = OnDisk /\ Stage(2) = d /\ Stage(3) = Over(d, i)
      /\ Stage(4) = Over(Over(d, i), a)
  BY DEF Stage
<1>10. Stage(1)' = OnDisk /\ Stage(2)' = d
  BY <1>4, <1>5 DEF Stage, Over
<1>11. /\ Stage(3)' = Over(d, tables'["immutable"])
       /\ Stage(4)' = Over(Over(d, tables'["immutable"]), tables'["active"])
  <2>1. /\ Stage(3)' = Over(Over(OnDisk', tables'["flushing"]), tables'["immutable"])
        /\ Stage(4)' = Over(Over(Over(OnDisk', tables'["flushing"]), tables'["immutable"]), tables'["active"])
    BY DEF Stage, Over
  <2> QED BY <2>1, <1>4, <1>5
<1>12. Over(d, Over(i, m)) = Over(Over(d, i), m)
  <2> HIDE DEF d, i, m
  <2> QED BY <1>1, <1>2, <1>7, OverFacts
<1>13. Over(Over(Over(d, i), m), Empty) = Over(Over(d, i), m)
  <2>1. Over(Over(d, i), m) \in Contents
    BY <1>2, <1>7, OverFacts
  <2> HIDE DEF d, i, m
  <2> QED BY <2>1, OverFacts
<1>14. \A g \in {"flushing", "immutable", "active"} :
          Entries(tables'[g]) \subseteq {b} \cup Entries(f) \cup Entries(i) \cup Entries(a)
  <2>1. Entries(m) \subseteq {b} \cup Entries(a)
    <3> HIDE DEF a
    <3> QED BY <1>1 DEF Entries, Contents
  <2>2. Entries(Over(i, m)) \subseteq Entries(i) \cup Entries(m) /\ Entries(Empty) = {}
    <3> HIDE DEF i, m
    <3> QED BY <1>1, <1>2 DEF Entries, Over, Empty
  <2> HIDE DEF i, m, f, a
  <2> QED BY <1>4, <2>1, <2>2
<1> HIDE DEF d, m
<1> QED BY <1>4, <1>6, <1>8, <1>9, <1>10, <1>11, <1>12, <1>13, <1>14

\* A host write or a relocation, accepted by the indexes or refused.
LEMMA PublishKeeps ==
    ASSUME Inv, NEW b \in LogicalBlocks, NEW p \in PhysicalSectors,
           PublishWrite(b, p) \/ PublishRefused(b, p)
    PROVE  Inv'
<1> USE DEF Inv
<1>0. Put(b, p)
  BY DEF PublishWrite, PublishRefused
<1>1. /\ engine = "up" /\ engine' = "up" /\ Running /\ Running'
      /\ fl_gen = 1 /\ fl_gen' = 1
      /\ UNCHANGED <<target, zone, engine, sstables, meta_wp, next_sst_seq, fl_gen, fl_page,
                     cursor, latest, restored, kept, refused, crashes>>
  BY <1>0 DEF PublishWrite, PublishRefused, Put, Running, WriterOK, logVars, recoveryVars, faults
<1>2. /\ Stage(1)' = Stage(1) /\ Stage(2)' = Stage(2)
      /\ Stage(3)' = Stage(3) \/ Stage(3)' = Stage(4)'
      /\ Stage(4)' = [Stage(4) EXCEPT ![b] = p]
      /\ tables' \in [{"flushing", "immutable", "active"} -> Contents]
      /\ tables'["flushing"] = tables["flushing"]
  BY <1>0, PutStages
<1>3. Newest = Stage(4) /\ Stage(4) \in Contents
  BY StageFacts
<1>4. /\ errors' \in 0..MaxErrors /\ errors' >= errors
      /\ errors' = 0 => errors = 0 /\ written' = written \cup {p}
      /\ written' \subseteq PhysicalSectors /\ writes_stopped' \in BOOLEAN
  <2>1. errors \in Nat /\ errors \in 0..MaxErrors /\ MaxErrors \in Nat
        /\ written \subseteq PhysicalSectors /\ writes_stopped \in BOOLEAN
    BY TypeFacts, ConstantFacts DEF TypeOK
  <2>2. CASE PublishWrite(b, p)
    BY <2>1, <2>2 DEF PublishWrite, faults
  <2>3. CASE PublishRefused(b, p)
    BY <2>1, <2>3 DEF PublishRefused
  <2> QED BY <2>2, <2>3
<1>5. TypeOK'
  <2>1. [Newest EXCEPT ![b] = p] \in Contents /\ [acked EXCEPT ![b] = p] \in Contents
    BY <1>3 DEF Contents, TypeOK
  <2>2. acked' \in Contents /\ past' \subseteq Contents
    BY <1>0, <2>1 DEF Put, TypeOK
  <2>3. fl_pc' \in {"idle", "claim", "header", "payload", "next"}
    BY DEF PublishWrite, PublishRefused, TypeOK
  <2> QED BY <1>1, <1>2, <1>4, <2>2, <2>3 DEF TypeOK
<1>6. Newest' = Stage(4)'
  BY <1>5, NewestIsStagedNext
<1>7. ZoneOK' /\ StartOK'
  BY <1>1 DEF ZoneOK, StartOK
<1>8. Victim' = Victim
  BY <1>1, <1>2 DEF Victim, Generations
<1>9. WriterOK'
  <2>1. /\ fl_pc' = "payload" <=> fl_pc = "payload"
        /\ fl_pc' # "next"
    BY <1>1 DEF PublishWrite, PublishRefused, WriterOK
  <2> QED BY <1>1, <1>8, <2>1 DEF WriterOK
<1>10. InstanceOK'
  <2>1. \A g \in {"flushing", "immutable", "active"} : Entries(tables'[g]) \subseteq target
    <3>1. b \in target /\ Entries(tables["flushing"]) \subseteq target
          /\ Entries(tables["immutable"]) \subseteq target /\ Entries(tables["active"]) \subseteq target
      BY <1>0, <1>1 DEF InstanceOK, Put
    <3> QED BY <1>0, <3>1, PutStages
  <2>2. SequencesGrow'
    BY <1>1 DEF SequencesGrow, InstanceOK
  <2> QED BY <1>1, <2>1, <2>2 DEF InstanceOK, Entries
<1>11. HistoryOK'
  <2>1. Placed(Newest)' /\ (writes_stopped' \/ Valid(Newest)')
    <3>1. /\ Newest \in Contents /\ Newest' = [Newest EXCEPT ![b] = p]
          /\ p \notin written /\ p # NoData
      BY <1>0, <1>2, <1>3, <1>6, ConstantFacts DEF Put
    <3>2. Valid(Newest)
      BY <1>0, <1>1 DEF HistoryOK, Put
    <3>3. Apart(Newest)'
      BY <3>1, <3>2 DEF Valid, Apart, Contents
    <3>4. written' = written \cup {p} => Valid(Newest)'
      BY <3>1, <3>2 DEF Valid, Contents
    <3>5. written' = written \cup {p} \/ writes_stopped'
      BY DEF PublishWrite, PublishRefused
    <3> QED BY <1>4, <3>3, <3>4, <3>5 DEF Placed
  <2>2. \A g \in 1..4 : Stage(g)' \in past'
    <3>1. \A g \in 1..4 : Stage(g) \in past
      BY <1>1 DEF HistoryOK
    <3>2. past' = past \cup {Stage(4)'}
      BY <1>0, <1>2, <1>3 DEF Put
    <3>3. \A g \in 1..4 : g = 1 \/ g = 2 \/ g = 3 \/ g = 4
      OBVIOUS
    <3> QED BY <1>2, <3>1, <3>2, <3>3
  <2> QED BY <1>1, <2>1, <2>2 DEF HistoryOK, CleanlyRemovedOpens, RefusedOnlyIfTorn
<1>12. \E L \in Seq(Table) : LogInv(L)'
  <2>1. PICK L \in Seq(Table) : LogInv(L)
    OBVIOUS
  <2>2. Newest = acked => Newest' = acked'
    BY <1>0, <1>2, <1>3, <1>6 DEF Put
  <2>3. past \subseteq past' /\ ~kept'
    BY <1>0, <1>1 DEF Put, HistoryOK
  <2>4. crashes' >= crashes /\ errors' >= errors
    BY <1>1, <1>4, TypeFacts
  <2>5. LogInv(L)'
    BY <1>1, <1>2, <1>5, <2>1, <2>2, <2>3, <2>4, QuietStep
  <2> QED BY <2>5
<1> QED BY <1>5, <1>7, <1>9, <1>10, <1>11, <1>12

\* Garbage collection resets a zone without a live block.
LEMMA ResetZoneKeeps ==
    ASSUME Inv, NEW p \in PhysicalSectors, ResetZone(p)
    PROVE  Inv'
<1> USE DEF Inv
<1>1. /\ engine = "up" /\ Running /\ Running'
      /\ UNCHANGED <<target, writes_stopped, zone, engine, tables, sstables, meta_wp,
                     next_sst_seq, fl_pc, fl_gen, fl_page, cursor, latest, restored,
                     acked, past, kept, refused, crashes, errors>>
  BY DEF ResetZone, Running, logVars, flushVars, recoveryVars, history, faults
<1>2. OnDisk' = OnDisk /\ Newest' = Newest /\ Stage(fl_gen)' = Stage(fl_gen)
      /\ \A g : Stage(g)' = Stage(g)
  BY <1>1, StageKeeps DEF Stage
<1>3. TypeOK'
  BY <1>1 DEF TypeOK, ResetZone
<1>4. ZoneOK' /\ StartOK'
  BY <1>1 DEF ZoneOK, StartOK
<1>5. WriterOK'
  BY <1>1 DEF WriterOK, Victim
<1>6. InstanceOK'
  BY <1>1 DEF InstanceOK, SequencesGrow, Entries
<1>7. HistoryOK'
  <2>1. Placed(Newest)' /\ Valid(Newest)'
    BY <1>1, <1>2 DEF Placed, Apart, Valid, HistoryOK, ResetZone
  <2> QED BY <1>1, <1>2, <2>1 DEF HistoryOK, CleanlyRemovedOpens, RefusedOnlyIfTorn
<1>8. \E L \in Seq(Table) : LogInv(L)'
  <2>1. PICK L \in Seq(Table) : LogInv(L)
    OBVIOUS
  <2>2. ~kept' /\ past \subseteq past'
    BY <1>1 DEF HistoryOK
  <2>3. crashes' >= crashes /\ errors' >= errors
    BY <1>1, TypeFacts
  <2>4. LogInv(L)'
    BY <1>1, <1>2, <1>3, <2>1, <2>2, <2>3, QuietStep
  <2> QED BY <2>4
<1> QED BY <1>3, <1>4, <1>5, <1>6, <1>7, <1>8

\* The flush worker takes the generation that waits, unless one is left over.
LEMMA ClaimKeeps ==
    ASSUME Inv, ClaimFlushVictim
    PROVE  Inv'
<1> USE DEF Inv
<1>1. /\ engine \in {"up", "drain"} /\ Running /\ Running' /\ fl_gen = 1 /\ fl_gen' = 1
      /\ fl_pc = "claim" /\ fl_pc' \in {"idle", "header"}
      /\ UNCHANGED <<target, writes_stopped, zone, written, engine, sstables, meta_wp,
                     next_sst_seq, fl_page, cursor, latest, restored, acked, past, kept,
                     refused, crashes, errors>>
  BY DEF ClaimFlushVictim, Running, logVars, deviceVars, recoveryVars, history, faults,
         StartOK, WriterOK, TypeOK
<1> DEFINE f == tables["flushing"]  i == tables["immutable"]  a == tables["active"]
           d == OnDisk
<1>2. f \in Contents /\ i \in Contents /\ a \in Contents /\ d \in Contents /\ Empty \in Contents
  BY TypeFacts, ConstantFacts
<1>3. /\ tables \in [{"flushing", "immutable", "active"} -> Contents]
      /\ \/ tables' = tables
         \/ f = Empty /\ tables' = [tables EXCEPT !["flushing"] = i, !["immutable"] = Empty]
  BY DEF TypeOK, ClaimFlushVictim
<1>4. \/ tables' = tables
      \/ f = Empty /\ tables'["flushing"] = i /\ tables'["immutable"] = Empty /\ tables'["active"] = a
  BY <1>3
<1>5. tables' \in [{"flushing", "immutable", "active"} -> Contents]
  BY <1>2, <1>3
<1>6. TypeOK'
  BY <1>1, <1>5 DEF TypeOK
<1>7. /\ Stage(1)' = Stage(1) /\ (Stage(2)' = Stage(2) \/ Stage(2)' = Stage(3))
      /\ Stage(3)' = Stage(3) /\ Stage(4)' = Stage(4)
  <2>1. CASE tables' = tables
    BY <1>1, <2>1, StageKeeps
  <2>2. CASE f = Empty /\ tables'["flushing"] = i /\ tables'["immutable"] = Empty /\ tables'["active"] = a
    <3>1. OnDisk' = d
      BY <1>1 DEF OnDisk, Hits
    <3>2. /\ Stage(1)' = d /\ Stage(2)' = Over(d, i) /\ Stage(3)' = Over(Over(d, i), Empty)
          /\ Stage(4)' = Over(Over(Over(d, i), Empty), a)
      <4>1. /\ Stage(1)' = OnDisk' /\ Stage(2)' = Over(OnDisk', tables'["flushing"])
            /\ Stage(3)' = Over(Over(OnDisk', tables'["flushing"]), tables'["immutable"])
            /\ Stage(4)' = Over(Over(Over(OnDisk', tables'["flushing"]), tables'["immutable"]),
                                tables'["active"])
        BY DEF Stage, Over
      <4> QED BY <2>2, <3>1, <4>1
    <3>3. /\ Stage(1) = d /\ Stage(2) = Over(d, Empty) /\ Stage(3) = Over(Over(d, Empty), i)
          /\ Stage(4) = Over(Over(Over(d, Empty), i), a)
      BY <2>2 DEF Stage
    <3>4. Over(d, Empty) = d /\ Over(Over(d, i), Empty) = Over(d, i)
      <4> HIDE DEF d, i
      <4> QED BY <1>2, OverFacts
    <3> QED BY <3>2, <3>3, <3>4
  <2> QED BY <1>4, <2>1, <2>2
<1>8. Newest' = Newest
  BY <1>6, <1>7, NewestIsStaged, NewestIsStagedNext
<1>9. ZoneOK' /\ StartOK'
  BY <1>1 DEF ZoneOK, StartOK
<1>10. WriterOK'
  BY <1>1 DEF WriterOK
<1>11. InstanceOK'
  <2>1. Entries(Empty) = {}
    BY DEF Entries, Empty
  <2>2. \A g \in {"flushing", "immutable", "active"} : Entries(tables'[g]) \subseteq target
    BY <1>1, <1>4, <2>1 DEF InstanceOK
  <2> QED BY <1>1, <2>2 DEF InstanceOK, SequencesGrow, Entries
<1>12. HistoryOK'
  <2>1. \A g \in 1..4 : Stage(g)' \in past'
    <3>1. \A g \in 1..4 : Stage(g) \in past
      BY <1>1 DEF HistoryOK
    <3>2. \A g \in 1..4 : g = 1 \/ g = 2 \/ g = 3 \/ g = 4
      OBVIOUS
    <3> QED BY <1>1, <1>7, <3>1, <3>2
  <2> QED BY <1>1, <1>8, <2>1
          DEF HistoryOK, CleanlyRemovedOpens, RefusedOnlyIfTorn, Placed, Apart, Valid
<1>13. \E L \in Seq(Table) : LogInv(L)'
  <2>1. PICK L \in Seq(Table) : LogInv(L)
    OBVIOUS
  <2>2. ~kept' /\ past \subseteq past'
    BY <1>1 DEF HistoryOK
  <2>3. crashes' >= crashes /\ errors' >= errors
    BY <1>1, TypeFacts
  <2>4. Stage(fl_gen)' = Stage(fl_gen)
    BY <1>1, <1>7
  <2>5. LogInv(L)'
    BY <1>1, <1>6, <1>8, <2>1, <2>2, <2>3, <2>4, QuietStep
  <2> QED BY <2>5
<1> QED BY <1>6, <1>9, <1>10, <1>11, <1>12, <1>13

\* The target is removed.
LEMMA DetachKeeps ==
    ASSUME Inv, Detach
    PROVE  Inv'
<1> USE DEF Inv
<1>1. /\ engine = "up" /\ engine' = "drain" /\ Running /\ Running'
      /\ UNCHANGED <<target, writes_stopped, zone, written, tables, sstables, meta_wp,
                     next_sst_seq, fl_pc, fl_gen, fl_page, cursor, latest, restored,
                     acked, past, kept, refused, crashes, errors>>
  BY DEF Detach, Running, logVars, flushVars, recoveryVars, history, faults, deviceVars
<1>2. OnDisk' = OnDisk /\ Newest' = Newest /\ Stage(fl_gen)' = Stage(fl_gen)
      /\ \A g : Stage(g)' = Stage(g)
  BY <1>1, StageKeeps DEF Stage
<1>3. TypeOK'
  BY <1>1 DEF TypeOK
<1>4. ZoneOK' /\ StartOK'
  BY <1>1 DEF ZoneOK, StartOK
<1>5. WriterOK'
  BY <1>1 DEF WriterOK, Victim
<1>6. InstanceOK'
  BY <1>1 DEF InstanceOK, SequencesGrow, Entries
<1>7. HistoryOK'
  BY <1>1, <1>2 DEF HistoryOK, CleanlyRemovedOpens, RefusedOnlyIfTorn, Placed, Apart, Valid
<1>8. \E L \in Seq(Table) : LogInv(L)'
  <2>1. PICK L \in Seq(Table) : LogInv(L)
    OBVIOUS
  <2>2. ~kept' /\ past \subseteq past'
    BY <1>1 DEF HistoryOK
  <2>3. crashes' >= crashes /\ errors' >= errors
    BY <1>1, TypeFacts
  <2>4. LogInv(L)'
    BY <1>1, <1>2, <1>3, <2>1, <2>2, <2>3, QuietStep
  <2> QED BY <2>4
<1> QED BY <1>3, <1>4, <1>5, <1>6, <1>7, <1>8

\* The last flush begins, or goes on to a generation or past an empty one.
LEMMA LastFlushKeeps ==
    ASSUME Inv, FlushAllSync \/ NextGeneration
    PROVE  Inv'
<1> USE DEF Inv
<1>1. /\ engine \in {"drain", "exit"} /\ engine' = "exit" /\ Running /\ Running'
      /\ fl_pc \in {"idle", "next"} /\ fl_pc' \in {"next", "header"}
      /\ UNCHANGED <<target, writes_stopped, zone, written, tables, sstables, meta_wp,
                     next_sst_seq, fl_page, cursor, latest, restored, acked, past, kept,
                     refused, crashes, errors>>
  BY DEF FlushAllSync, NextGeneration, Running, WriterOK, logVars, flushVars, recoveryVars,
         history, faults, deviceVars
<1>2. /\ fl_gen \in 1..4 /\ fl_gen' \in 1..4
      /\ fl_pc' # "next" => fl_gen' <= 3
      /\ \/ fl_gen' = fl_gen
         \/ fl_gen \in 1..3 /\ fl_gen' = fl_gen + 1 /\ tables[Generations[fl_gen]] = Empty
  <2>1. fl_gen \in 1..4
    BY DEF TypeOK
  <2>2. CASE FlushAllSync
    BY <2>1, <2>2 DEF FlushAllSync, WriterOK
  <2>3. CASE NextGeneration
    BY <2>1, <2>3 DEF NextGeneration, Victim
  <2> QED BY <2>1, <2>2, <2>3
<1>3. OnDisk' = OnDisk /\ Newest' = Newest /\ \A g : Stage(g)' = Stage(g)
  BY <1>1, StageKeeps DEF Stage
<1>4. Stage(fl_gen)' = Stage(fl_gen)
  <2>1. Stage(fl_gen') = Stage(fl_gen)
    <3>1. ASSUME fl_gen \in 1..3, fl_gen' = fl_gen + 1, tables[Generations[fl_gen]] = Empty
          PROVE  Stage(fl_gen') = Stage(fl_gen)
      <4>1. Stage(fl_gen + 1) = Over(Stage(fl_gen), Empty) /\ Stage(fl_gen) \in Contents
        BY <1>2, <3>1, StageFacts
      <4> QED BY <3>1, <4>1, OverFacts
    <3> QED BY <1>2, <3>1
  <2>2. Stage(fl_gen)' = Stage(fl_gen')
    BY <1>1, <1>3 DEF Stage, Over
  <2> QED BY <2>1, <2>2
<1>5. TypeOK'
  BY <1>1, <1>2 DEF TypeOK
<1>6. ZoneOK' /\ StartOK'
  BY <1>1 DEF ZoneOK, StartOK
<1>7. WriterOK'
  BY <1>1, <1>2 DEF WriterOK
<1>8. InstanceOK'
  BY <1>1 DEF InstanceOK, SequencesGrow, Entries
<1>9. HistoryOK'
  BY <1>1, <1>3 DEF HistoryOK, CleanlyRemovedOpens, RefusedOnlyIfTorn, Placed, Apart, Valid
<1>10. \E L \in Seq(Table) : LogInv(L)'
  <2>1. PICK L \in Seq(Table) : LogInv(L)
    OBVIOUS
  <2>2. ~kept' /\ past \subseteq past'
    BY <1>1 DEF HistoryOK
  <2>3. crashes' >= crashes /\ errors' >= errors
    BY <1>1, TypeFacts
  <2>4. LogInv(L)'
    BY <1>1, <1>3, <1>4, <1>5, <2>1, <2>2, <2>3, QuietStep
  <2> QED BY <2>4
<1> QED BY <1>5, <1>6, <1>7, <1>8, <1>9, <1>10

\* A block appended by a running instance, a header or one behind the header at
\* meta_wp, leaves the log what it is.
LEMMA AppendStep ==
    ASSUME Inv, Running, NEW x, zone' = Append(zone, x),
           UNCHANGED <<engine, tables, sstables, meta_wp, next_sst_seq, fl_gen, cursor,
                       acked, past, kept, crashes, errors>>,
           x.kind = "header" \/ (meta_wp <= Len(zone) /\ zone[meta_wp].kind = "header"),
           NEW L \in Seq(Table), LogInv(L)
    PROVE  LogInv(L)'
<1> USE DEF Inv
<1>1. zone # <<>> /\ zone' # <<>> /\ engine # "down" /\ Running'
  <2>1. zone # <<>> /\ engine # "down" /\ Running'
    BY DEF ZoneOK, Running
  <2>2. Len(zone') # 0
    BY TypeFacts, AppendFacts
  <2> QED BY <2>1, <2>2
<1>2. Chained(L)' /\ Mapping(L)' = Mapping(L) /\ End(L)' = End(L)
  BY DEF LogInv
<1>3. Stored(L)'
  BY <1>1, TypeFacts, StoredKeeps DEF LogInv
<1>4. Scanned(L)'
  BY <1>1 DEF Scanned, Running
<1>5. Broken(L) => Broken(L)'
  <2> SUFFICES ASSUME Broken(L) PROVE Broken(L)'
    OBVIOUS
  <2>1. Torn(End(L)) /\ End(L) < meta_wp /\ End(L) \in Nat
    <3>1. Torn(End(L)) /\ End(L) < meta_wp
      BY <1>1 DEF Broken
    <3>2. End(L) \in 1..Len(zone)
      BY <3>1 DEF Torn
    <3> QED BY <3>1, <3>2
  <2>2. x.kind = "header" \/ \E w \in Nat : End(L) < w /\ w <= Len(zone) /\ zone[w].kind = "header"
    BY <2>1, TypeFacts
  <2>3. \A c \in Nat : Torn(c) /\ (c = End(L)) => Torn(c)'
    BY <2>2, TypeFacts, TornKeeps
  <2>4. Torn(End(L))'
    BY <2>1, <2>3
  <2> QED BY <2>1, <2>4 DEF Broken
<1>6. \A g : Stage(g)' = Stage(g)
  BY StageKeeps
<1>7. Newest' = Newest /\ Stage(fl_gen)' = Stage(fl_gen)
  BY <1>6, StageKeeps DEF Stage
<1>8. Whole(L) => Whole(L)'
  BY <1>1, <1>7 DEF Whole
<1>9. Owed(L)'
  BY <1>2, <1>5, <1>7 DEF Owed, LogInv, Running, HistoryOK
<1> QED BY <1>2, <1>3, <1>4, <1>5, <1>8, <1>9 DEF LogInv

\* A step of zns_sst_write(): what it leaves as it is.
LEMMA WriteKeeps ==
    ASSUME Inv, WriteHeader \/ WritePage
    PROVE  Inv'
<1> USE DEF Inv
<1>1. /\ Running /\ Running' /\ engine' = engine /\ fl_pc \in {"header", "payload"}
      /\ fl_pc' = "payload"
      /\ UNCHANGED <<target, writes_stopped, written, tables, sstables, meta_wp,
                     next_sst_seq, fl_gen, cursor, latest, restored, acked, past, kept,
                     refused, crashes, errors>>
  BY DEF WriteHeader, WritePage, Running, StartOK, TypeOK, logVars, recoveryVars, history, faults
<1>2. Victim' = Victim /\ Victim \in Contents /\ NrBlocks(Victim) \in Nat /\ NrBlocks(Victim) >= 1
  <2>1. Victim' = Victim
    BY <1>1 DEF Victim
  <2>2. fl_gen \in 1..3
    BY <1>1 DEF WriterOK, TypeOK
  <2>3. Victim \in Contents
    BY <2>2, StageFacts DEF Victim
  <2> QED BY <2>1, <2>3, NrBlocksFacts
<1>3. zone # <<>> /\ zone[1] = Super(target) /\ target \in Targets
  BY <1>1 DEF ZoneOK, Running
<1>4. 1 \in 1..Len(zone)
  <2>1. Len(zone) # 0
    BY <1>3, TypeFacts
  <2> QED BY <2>1, TypeFacts
<1>5. next_sst_seq < meta_wp /\ next_sst_seq >= 1
  BY <1>1 DEF InstanceOK, TypeOK
<1>num. /\ meta_wp \in Nat /\ next_sst_seq \in Nat /\ fl_page \in Nat /\ Len(zone) \in Nat
        /\ MetaEnd \in Nat /\ zone \in Seq(Block)
  BY TypeFacts, ConstantFacts
<1>6. \E x : /\ zone' = Append(zone, x)
             /\ x \in Block
             /\ x.kind = "header" => x.seq < Len(zone) + 1
             /\ x.kind = "header" \/ (meta_wp <= Len(zone) /\ zone[meta_wp].kind = "header")
             /\ Len(zone) + 1 <= MetaEnd
             /\ fl_page' \in 0..MetaEnd
             /\ WriterOK'
  <2>1. CASE WriteHeader
    <3> DEFINE x == Header(Victim, next_sst_seq)
    <3>1. /\ zone' = Append(zone, x) /\ fl_page' = 0 /\ meta_wp = Len(zone) + 1
          /\ meta_wp <= MetaEnd /\ meta_wp + NrBlocks(Victim) <= MetaEnd + 1
      BY <1>2, <2>1, TypeFacts, ConstantFacts DEF WriteHeader, Fits, DeviceWp
    <3>2. next_sst_seq \in 1..MetaEnd
      BY <1>5, <3>1, TypeFacts, ConstantFacts
    <3>3. x \in Block /\ x.kind = "header" /\ x.seq = next_sst_seq
      BY <1>2, <3>2, BlockFacts, BlockTypes, TypeFacts
    <3>4. Len(zone') = Len(zone) + 1 /\ zone'[meta_wp] = x
      <4> HIDE DEF x
      <4> QED BY <3>1, TypeFacts, AppendFacts
    <3>5. WriterOK'
      <4>1. meta_wp' + fl_page' = Len(zone') /\ 0 < NrBlocks(Victim)
        BY <1>1, <1>2, <3>1, <3>4, TypeFacts
      <4>2. \A k \in 1..fl_page' : FALSE
        BY <3>1
      <4>3. (engine # "exit" => fl_gen = 1) /\ fl_gen <= 3
        BY <1>1 DEF WriterOK
      <4> QED BY <1>1, <1>2, <3>1, <3>4, <4>1, <4>2, <4>3 DEF WriterOK
    <3> QED BY <1>5, <3>1, <3>3, <3>5, ConstantFacts
  <2>2. CASE WritePage
    <3> DEFINE x == Payload(Victim, fl_page + 1)
    <3>1. /\ zone' = Append(zone, x) /\ fl_page' = fl_page + 1 /\ fl_pc = "payload"
          /\ fl_page + 1 < NrBlocks(Victim)
      BY <2>2 DEF WritePage
    <3>2. /\ meta_wp + fl_page = Len(zone)
          /\ zone[meta_wp] = Header(Victim, next_sst_seq)
          /\ \A k \in 1..fl_page : zone[meta_wp + k] = Payload(Victim, k)
          /\ meta_wp + NrBlocks(Victim) <= MetaEnd + 1
          /\ engine # "exit" => fl_gen = 1
          /\ fl_gen <= 3
      BY <3>1 DEF WriterOK
    <3>3. /\ fl_page + 1 \in 1..MetaEnd /\ Len(zone) + 1 <= MetaEnd /\ meta_wp <= Len(zone)
          /\ meta_wp \in 1..Len(zone) /\ fl_page' \in 0..MetaEnd
      <4> HIDE DEF Inv
      <4> QED BY <1>2, <1>5, <1>num, <3>1, <3>2
    <3>4. x \in Block /\ x.kind = "payload" /\ zone[meta_wp].kind = "header"
      BY <1>2, <3>2, <3>3, BlockTypes DEF Header, Payload
    <3>5. /\ Len(zone') = Len(zone) + 1 /\ zone'[Len(zone) + 1] = x
          /\ \A i \in 1..Len(zone) : zone'[i] = zone[i]
      <4> HIDE DEF x
      <4> QED BY <3>1, TypeFacts, AppendFacts
    <3>6. WriterOK'
      <4>1. meta_wp' + fl_page' = Len(zone') /\ fl_page' < NrBlocks(Victim)
        <5>1. meta_wp' = meta_wp /\ fl_page' = fl_page + 1 /\ meta_wp + fl_page = Len(zone)
              /\ Len(zone') = Len(zone) + 1
          BY <1>1, <3>1, <3>2, <3>5
        <5>2. fl_page' < NrBlocks(Victim)
          BY <3>1
        <5> HIDE DEF Inv
        <5> QED BY <1>num, <5>1, <5>2
      <4>2. zone'[meta_wp] = Header(Victim, next_sst_seq)
        BY <3>2, <3>3, <3>5
      <4>3. \A k \in 1..fl_page' : zone'[meta_wp + k] = Payload(Victim, k)
        <5> SUFFICES ASSUME NEW k \in 1..fl_page' PROVE zone'[meta_wp + k] = Payload(Victim, k)
          OBVIOUS
        <5>1. CASE k = fl_page + 1
          <6>1. meta_wp + k = Len(zone) + 1
            BY <1>num, <3>2, <5>1
          <6> QED BY <3>5, <5>1, <6>1
        <5>2. CASE k # fl_page + 1
          <6>1. k \in 1..fl_page /\ meta_wp + k \in 1..Len(zone)
            BY <1>5, <1>num, <3>1, <3>2, <5>2
          <6> QED BY <3>2, <3>5, <6>1
        <5> QED BY <5>1, <5>2
      <4> QED BY <1>1, <1>2, <3>1, <3>2, <4>1, <4>2, <4>3 DEF WriterOK
    <3> QED BY <3>1, <3>3, <3>4, <3>6
  <2> QED BY <2>1, <2>2
<1>7. PICK x : /\ zone' = Append(zone, x)
               /\ x \in Block
               /\ x.kind = "header" => x.seq < Len(zone) + 1
               /\ x.kind = "header" \/ (meta_wp <= Len(zone) /\ zone[meta_wp].kind = "header")
               /\ Len(zone) + 1 <= MetaEnd
               /\ fl_page' \in 0..MetaEnd
               /\ WriterOK'
  BY <1>6
<1>8. /\ Len(zone') = Len(zone) + 1 /\ Len(zone) \in Nat /\ zone'[Len(zone) + 1] = x
      /\ \A i \in 1..Len(zone) : zone'[i] = zone[i]
      /\ zone' \in Seq(Block)
  BY <1>7, TypeFacts, AppendFacts
<1>9. TypeOK'
  <2>1. zone' \in Seq(Block) /\ Len(zone') <= MetaEnd
    BY <1>7, <1>8
  <2> QED BY <1>1, <1>7, <2>1 DEF TypeOK
<1>10. ZoneOK'
  <2>1. zone'[1] = zone[1] /\ zone' # <<>>
    <3>1. Len(zone') # 0
      BY <1>8
    <3> QED BY <1>4, <1>8, <3>1
  <2>2. \A i \in 1..Len(zone') : zone'[i].kind = "header" => zone'[i].seq < i
    <3> SUFFICES ASSUME NEW i \in 1..Len(zone'), zone'[i].kind = "header"
                 PROVE  zone'[i].seq < i
      OBVIOUS
    <3>1. CASE i = Len(zone) + 1
      BY <1>7, <1>8, <3>1
    <3>2. CASE i # Len(zone) + 1
      <4>1. i \in 1..Len(zone) /\ zone'[i] = zone[i]
        BY <1>8, <3>2
      <4> QED BY <4>1 DEF ZoneOK
    <3> QED BY <3>1, <3>2
  <2> QED BY <1>1, <1>3, <2>1, <2>2, BlockFacts, TypeFacts DEF ZoneOK
<1>11. StartOK'
  BY <1>1 DEF StartOK, Running
<1>12. InstanceOK'
  BY <1>1 DEF InstanceOK, SequencesGrow, Entries
<1>13. HistoryOK'
  <2>1. Newest' = Newest /\ \A g : Stage(g)' = Stage(g)
    BY <1>1, StageKeeps
  <2> QED BY <1>1, <2>1 DEF HistoryOK, CleanlyRemovedOpens, RefusedOnlyIfTorn, Placed, Apart, Valid
<1>14. \E L \in Seq(Table) : LogInv(L)'
  <2>1. PICK L \in Seq(Table) : LogInv(L)
    OBVIOUS
  <2>2. LogInv(L)'
    BY <1>1, <1>7, <2>1, AppendStep
  <2> QED BY <2>2
<1> QED BY <1>7, <1>9, <1>10, <1>11, <1>12, <1>13, <1>14

(***************************************************************************)
(* The table being written                                                 *)
(***************************************************************************)
InProgress == Sstable(meta_wp, Header(Victim, next_sst_seq))

\* A table behind the end of the log makes it longer by one.
LEMMA ChainedCons ==
    ASSUME NEW L \in Seq(Table), NEW t \in Table, Chained(L), End(L) = t.start,
           \A i \in 1..Len(L) : L[i].seq < t.seq
    PROVE  Chained(<<t>> \o L) /\ End(<<t>> \o L) = t.start + NrBlocks(t.table)
<1> DEFINE M == <<t>> \o L
<1>1. /\ M \in Seq(Table) /\ Len(M) = Len(L) + 1 /\ M[1] = t
      /\ \A i \in 2 .. Len(L) + 1 : M[i] = L[i - 1]
  BY FoundCons
<1> HIDE DEF M
<1>2. Len(L) \in Nat
  OBVIOUS
<1>3. M # <<>>
  <2>1. Len(M) # 0
    BY <1>1, <1>2
  <2> QED BY <2>1
<1>4. End(M) = t.start + NrBlocks(t.table)
  BY <1>1, <1>3 DEF End
<1>5. M[Len(M)].start = 2
  <2>1. CASE L = <<>>
    BY <1>1, <2>1 DEF End
  <2>2. CASE L # <<>>
    <3>1. Len(L) # 0
      BY <2>2
    <3>2. Len(M) \in 2 .. Len(L) + 1 /\ Len(M) - 1 = Len(L)
      BY <1>1, <1>2, <3>1
    <3> QED BY <1>1, <2>2, <3>2 DEF Chained
  <2> QED BY <2>1, <2>2
<1>6. ASSUME NEW i \in 2..Len(M)
      PROVE  M[i].start + NrBlocks(M[i].table) = M[i - 1].start
  <2>1. i \in 2 .. Len(L) + 1 /\ M[i] = L[i - 1]
    BY <1>1
  <2>2. CASE i = 2
    <3>1. L # <<>> /\ M[i] = L[1] /\ M[i - 1] = t
      BY <1>1, <1>2, <2>1, <2>2
    <3> QED BY <3>1 DEF End
  <2>3. CASE i # 2
    <3>1. i - 1 \in 2 .. Len(L) + 1 /\ i - 1 \in 2..Len(L) /\ M[i - 1] = L[(i - 1) - 1]
      BY <1>1, <1>2, <2>1, <2>3
    <3> QED BY <2>1, <3>1 DEF Chained
  <2> QED BY <2>2, <2>3
<1>7. ASSUME NEW i \in 1..Len(M), NEW j \in 1..Len(M), i < j
      PROVE  M[j].seq < M[i].seq
  <2>1. j \in 2 .. Len(L) + 1 /\ j - 1 \in 1..Len(L) /\ M[j] = L[j - 1]
    BY <1>1, <1>2, <1>7
  <2>2. CASE i = 1
    BY <1>1, <2>1, <2>2
  <2>3. CASE i # 1
    <3>1. i \in 2 .. Len(L) + 1 /\ i - 1 \in 1..Len(L) /\ i - 1 < j - 1 /\ M[i] = L[i - 1]
      BY <1>1, <1>2, <1>7, <2>3
    <3> QED BY <2>1, <3>1 DEF Chained
  <2> QED BY <2>2, <2>3
<1>8. Chained(M)
  BY <1>5, <1>6, <1>7 DEF Chained
<1> QED BY <1>4, <1>8 DEF M

\* With all of its payload it is stored as the others are.
LEMMA StoredCons ==
    ASSUME NEW L \in Seq(Table), NEW t \in Table, Stored(L),
           zone[t.start] = Header(t.table, t.seq),
           t.start + NrBlocks(t.table) <= Len(zone) + 1,
           Intact(t), Entries(t.table) \subseteq zone[1].blocks
    PROVE  Stored(<<t>> \o L)
<1> DEFINE M == <<t>> \o L
<1>1. /\ M \in Seq(Table) /\ Len(M) = Len(L) + 1 /\ M[1] = t
      /\ \A i \in 2 .. Len(L) + 1 : M[i] = L[i - 1]
  BY FoundCons
<1> HIDE DEF M
<1> SUFFICES ASSUME NEW i \in 1..Len(M)
             PROVE  /\ zone[M[i].start] = Header(M[i].table, M[i].seq)
                    /\ M[i].start + NrBlocks(M[i].table) <= Len(zone) + 1
                    /\ Intact(M[i])
                    /\ Entries(M[i].table) \subseteq zone[1].blocks
  BY DEF Stored, M
<1>2. CASE i = 1
  BY <1>1, <1>2
<1>3. CASE i # 1
  <2>1. i \in 2 .. Len(L) + 1 /\ i - 1 \in 1..Len(L) /\ M[i] = L[i - 1]
    BY <1>1, <1>3
  <2> QED BY <2>1 DEF Stored
<1> QED BY <1>2, <1>3

\* A step or a crash finds the table being written torn, or complete and ready
\* to be the newest of the log.
LEMMA InProgressFacts ==
    ASSUME Inv, fl_pc = "payload"
    PROVE  /\ Running /\ fl_gen \in 1..3
           /\ Victim = tables[Generations[fl_gen]] /\ Victim \in Contents
           /\ NrBlocks(Victim) \in Nat /\ NrBlocks(Victim) >= 1
           /\ InProgress \in Table /\ InProgress.start = meta_wp
           /\ InProgress.table = Victim /\ InProgress.seq = next_sst_seq
           /\ meta_wp >= 2 /\ meta_wp + NrBlocks(Victim) <= MetaEnd + 1
           /\ fl_page + 1 # NrBlocks(Victim) => Torn(meta_wp)
           /\ fl_page + 1 = NrBlocks(Victim) =>
                 /\ meta_wp + NrBlocks(Victim) = Len(zone) + 1
                 /\ \A L \in Seq(Table) : LogInv(L) /\ Whole(L) =>
                       /\ Chained(<<InProgress>> \o L)
                       /\ Stored(<<InProgress>> \o L)
                       /\ End(<<InProgress>> \o L) = Len(zone) + 1
                       /\ Mapping(<<InProgress>> \o L) = Stage(fl_gen + 1)
                       /\ \A i \in 1..Len(<<InProgress>> \o L) :
                             (<<InProgress>> \o L)[i].seq < next_sst_seq + 1
<1> USE DEF Inv
<1>1. Running /\ fl_gen \in 1..3
  <2>1. Running /\ fl_gen <= 3
    BY DEF StartOK, WriterOK
  <2> QED BY <2>1 DEF TypeOK
<1>2. Victim = tables[Generations[fl_gen]] /\ Victim \in Contents
  BY <1>1, StageFacts DEF Victim
<1> DEFINE n == NrBlocks(Victim)
<1>3. n \in Nat /\ n >= 1
  BY NrBlocksFacts
<1>4. /\ meta_wp + fl_page = Len(zone)
      /\ zone[meta_wp] = Header(Victim, next_sst_seq)
      /\ \A k \in 1..fl_page : zone[meta_wp + k] = Payload(Victim, k)
      /\ fl_page < n
      /\ meta_wp + n <= MetaEnd + 1
  BY DEF WriterOK
<1>5. next_sst_seq < meta_wp /\ next_sst_seq \in Nat /\ next_sst_seq >= 1
  BY <1>1 DEF InstanceOK, TypeOK
<1>6. /\ InProgress.start = meta_wp /\ InProgress.table = Victim
      /\ InProgress.seq = next_sst_seq
      /\ InProgress = [start |-> meta_wp, table |-> Victim, seq |-> next_sst_seq]
  BY DEF InProgress, Sstable, Header
<1>7. InProgress \in Table
  <2>1. meta_wp \in 2..MetaEnd /\ next_sst_seq \in 1..MetaEnd
    <3> HIDE DEF n
    <3> QED BY <1>3, <1>4, <1>5, TypeFacts, ConstantFacts
  <2> QED BY <1>2, <1>6, <2>1 DEF Table
<1>8. meta_wp \in Nat /\ fl_page \in Nat /\ meta_wp >= 2 /\ Len(zone) \in Nat
  BY <1>5, TypeFacts
<1>9. ASSUME fl_page + 1 # n PROVE Torn(meta_wp)
  <2>1. meta_wp \in 1..Len(zone) /\ fl_page + 1 \in 1 .. n - 1
        /\ meta_wp + (fl_page + 1) > Len(zone)
    <3> HIDE DEF n
    <3> QED BY <1>3, <1>4, <1>8, <1>9
  <2>2. zone[meta_wp].kind = "header" /\ zone[meta_wp].table = Victim
    BY <1>4 DEF Header
  <2> QED BY <2>1, <2>2 DEF Torn
<1>10. ASSUME fl_page + 1 = n, NEW L \in Seq(Table), LogInv(L), Whole(L)
       PROVE  /\ Chained(<<InProgress>> \o L)
              /\ Stored(<<InProgress>> \o L)
              /\ End(<<InProgress>> \o L) = Len(zone) + 1
              /\ Mapping(<<InProgress>> \o L) = Stage(fl_gen + 1)
              /\ \A i \in 1..Len(<<InProgress>> \o L) :
                    (<<InProgress>> \o L)[i].seq < next_sst_seq + 1
  <2> DEFINE t == InProgress
  <2>1. zone # <<>> /\ zone[1].blocks = target /\ engine # "down"
    <3>1. zone # <<>> /\ zone[1] = Super(target) /\ engine # "down"
      BY <1>1 DEF ZoneOK, Running
    <3> QED BY <3>1, BlockFacts, TypeFacts
  <2>2. /\ End(L) = meta_wp /\ Mapping(L) = Stage(fl_gen)
        /\ \A i \in 1..Len(L) : L[i].seq < next_sst_seq
    BY <1>1, <1>10, <2>1 DEF Whole
  <2>3. t.start + NrBlocks(t.table) = Len(zone) + 1
    <3>1. t.start + NrBlocks(t.table) = meta_wp + n
      BY <1>6
    <3> HIDE DEF n, t
    <3> QED BY <1>4, <1>8, <1>10, <3>1
  <2>4. Chained(<<t>> \o L) /\ End(<<t>> \o L) = Len(zone) + 1
    <3>1. End(L) = t.start /\ \A i \in 1..Len(L) : L[i].seq < t.seq
      BY <1>6, <2>2
    <3> HIDE DEF t
    <3> QED BY <1>7, <1>10, <2>3, <3>1, ChainedCons DEF LogInv, t
  <2>5. Stored(<<t>> \o L)
    <3>1. Intact(t)
      <4>1. \A k \in 1 .. n - 1 : zone[meta_wp + k] = Payload(Victim, k)
        <5>1. n - 1 = fl_page
          <6> HIDE DEF n
          <6> QED BY <1>3, <1>8, <1>10
        <5> QED BY <1>4, <5>1
      <4> QED BY <1>6, <4>1 DEF Intact
    <3>2. Entries(t.table) \subseteq zone[1].blocks
      <4>1. Generations[fl_gen] \in {"flushing", "immutable", "active"}
        BY <1>1 DEF Generations
      <4> QED BY <1>1, <1>2, <1>6, <2>1, <4>1 DEF InstanceOK
    <3>3. zone[t.start] = Header(t.table, t.seq) /\ t.start + NrBlocks(t.table) <= Len(zone) + 1
      BY <1>4, <1>6, <1>8, <2>3
    <3>4. Stored(L)
      BY <1>10 DEF LogInv
    <3> HIDE DEF t
    <3> QED BY <1>7, <3>1, <3>2, <3>3, <3>4, StoredCons DEF t
  <2>6. Mapping(<<t>> \o L) = Stage(fl_gen + 1)
    <3>1. Mapping(<<t>> \o L) = Over(Mapping(L), t.table)
      BY <1>7, FoundCons
    <3> QED BY <1>1, <1>2, <1>6, <2>2, <3>1, StageFacts
  <2>7. \A i \in 1..Len(<<t>> \o L) : (<<t>> \o L)[i].seq < next_sst_seq + 1
    <3> DEFINE M == <<t>> \o L
    <3>1. Len(M) = Len(L) + 1 /\ M[1] = t /\ \A i \in 2 .. Len(L) + 1 : M[i] = L[i - 1]
      BY <1>7, FoundCons
    <3> HIDE DEF M
    <3> SUFFICES ASSUME NEW i \in 1..Len(M) PROVE M[i].seq < next_sst_seq + 1
      BY DEF M
    <3>2. CASE i = 1
      BY <1>5, <1>6, <3>1, <3>2
    <3>3. CASE i # 1
      <4>1. Len(L) \in Nat
        OBVIOUS
      <4>2. i - 1 \in 1..Len(L) /\ M[i] = L[i - 1]
        BY <3>1, <3>3, <4>1
      <4>3. L[i - 1] \in Table
        BY <4>2
      <4>4. L[i - 1].seq \in Nat
        BY <4>3, ConstantFacts DEF Table
      <4>5. L[i - 1].seq < next_sst_seq
        BY <2>2, <4>2
      <4> QED BY <1>5, <4>2, <4>4, <4>5
    <3> QED BY <3>2, <3>3
  <2> QED BY <2>4, <2>5, <2>6, <2>7
<1>11. ASSUME fl_page + 1 = n PROVE meta_wp + n = Len(zone) + 1
  <2> HIDE DEF n
  <2> QED BY <1>3, <1>4, <1>8, <1>11
<1> QED BY <1>1, <1>2, <1>3, <1>4, <1>6, <1>7, <1>8, <1>9, <1>10, <1>11

\* A table is complete: the worker puts it at the head of the list, the last
\* flush goes on to the next generation.
LEMMA TableWrittenStages ==
    ASSUME Inv, TableWritten
    PROVE  /\ TypeOK'
           /\ Newest' = Newest
           /\ Stage(fl_gen)' = Stage(fl_gen + 1)
           /\ \A g \in 1..4 : \E h \in 1..4 : Stage(g)' = Stage(h)
           /\ InstanceOK'
<1> USE DEF Inv
<1> DEFINE n == NrBlocks(Victim)
<1>1. /\ fl_pc = "payload" /\ fl_page + 1 = n
      /\ meta_wp' = meta_wp + n /\ next_sst_seq' = next_sst_seq + 1
      /\ UNCHANGED <<target, writes_stopped, zone, written, engine, fl_page, cursor,
                     latest, restored, acked, past, kept, refused, crashes, errors>>
  BY DEF TableWritten, deviceVars, recoveryVars, history, faults
<1>2. /\ Running /\ fl_gen \in 1..3
      /\ Victim = tables[Generations[fl_gen]] /\ Victim \in Contents
      /\ n \in Nat /\ n >= 1
      /\ InProgress \in Table /\ InProgress.table = Victim /\ InProgress.seq = next_sst_seq
      /\ meta_wp >= 2 /\ meta_wp + n <= MetaEnd + 1
  BY <1>1, InProgressFacts
<1>3. next_sst_seq < meta_wp /\ next_sst_seq >= 1
  BY <1>2 DEF InstanceOK, TypeOK
<1>4. /\ meta_wp' \in 1 .. MetaEnd + 1 /\ next_sst_seq' \in 1 .. MetaEnd + 1
      /\ next_sst_seq' < meta_wp'
  <2>1. meta_wp \in Nat /\ next_sst_seq \in Nat /\ MetaEnd \in Nat
    BY TypeFacts, ConstantFacts
  <2>2. meta_wp' = meta_wp + n /\ next_sst_seq' = next_sst_seq + 1
    BY <1>1
  <2>3. n \in Nat /\ n >= 1 /\ meta_wp + n <= MetaEnd + 1
    BY <1>2
  <2> HIDE DEF n, Inv
  <2> QED BY <1>3, <2>1, <2>2, <2>3
<1> HIDE DEF n
<1>num. meta_wp \in Nat /\ next_sst_seq \in Nat /\ Len(sstables) \in Nat
  BY TypeFacts
<1>5. \A i \in 1..Len(sstables) : sstables[i].seq \in Nat /\ sstables[i].seq < next_sst_seq
  <2>1. \A i \in 1..Len(sstables) : sstables[i] \in Table
    BY TypeFacts
  <2>2. \A i \in 1..Len(sstables) : sstables[i].seq \in Nat
    BY <2>1, ConstantFacts DEF Table
  <2> QED BY <1>2, <2>2 DEF InstanceOK, Running
<1>6. CASE engine = "exit"
  <2>1. UNCHANGED <<tables, sstables>> /\ fl_gen' = fl_gen + 1 /\ fl_pc' = "next"
    BY <1>6 DEF TableWritten
  <2>2. Newest' = Newest /\ \A g : Stage(g)' = Stage(g)
    BY <2>1, StageKeeps
  <2>3. Stage(fl_gen)' = Stage(fl_gen + 1)
    BY <2>1, StageKeeps DEF Stage, Over
  <2>4. fl_gen' \in 1..4
    BY <1>2, <2>1
  <2>5. TypeOK'
    BY <1>1, <1>4, <2>1, <2>4 DEF TypeOK
  <2>6. \A i \in 1..Len(sstables') : sstables'[i].seq < next_sst_seq'
    <3>1. next_sst_seq \in Nat /\ next_sst_seq' = next_sst_seq + 1 /\ sstables' = sstables
      BY <1>1, <2>1, TypeFacts
    <3> HIDE DEF Inv
    <3> QED BY <1>5, <3>1
  <2>7. InstanceOK'
    BY <1>1, <1>2, <1>4, <2>1, <2>6 DEF InstanceOK, SequencesGrow, Entries, Running
  <2> QED BY <2>2, <2>3, <2>5, <2>7
<1>7. CASE engine # "exit"
  <2> DEFINE f == tables["flushing"]  i == tables["immutable"]  a == tables["active"]
             S == <<InProgress>> \o sstables
  <2>1. /\ sstables' = S /\ tables' = [tables EXCEPT !["flushing"] = Empty]
        /\ fl_pc' = "claim" /\ fl_gen' = fl_gen /\ fl_gen = 1
    BY <1>7 DEF TableWritten, InProgress, WriterOK
  <2>2. f \in Contents /\ i \in Contents /\ a \in Contents /\ OnDisk \in Contents
        /\ Empty \in Contents /\ Victim = f
        /\ tables \in [{"flushing", "immutable", "active"} -> Contents]
    BY <1>2, <2>1, TypeFacts, ConstantFacts DEF Generations, TypeOK
  <2>3. tables'["flushing"] = Empty /\ tables'["immutable"] = i /\ tables'["active"] = a
        /\ tables' \in [{"flushing", "immutable", "active"} -> Contents]
    BY <2>1, <2>2
  <2>4. /\ S \in Seq(Table) /\ Len(S) = Len(sstables) + 1 /\ S[1] = InProgress
        /\ \A j \in 2 .. Len(sstables) + 1 : S[j] = sstables[j - 1]
        /\ Mapping(S) = Over(Mapping(sstables), InProgress.table)
    BY <1>2, TypeFacts, FoundCons
  <2> HIDE DEF S
  <2>5. TypeOK'
    <3>1. restored' \in 0..Len(sstables')
      BY <1>1, <2>1, <2>4, TypeFacts
    <3>2. sstables' \in Seq([start : 2..MetaEnd, table : Contents, seq : 1..MetaEnd])
      BY <2>1, <2>4 DEF Table
    <3>3. fl_gen' \in 1..4 /\ fl_pc' \in {"idle", "claim", "header", "payload", "next"}
      BY <2>1
    <3> QED BY <1>1, <1>4, <2>3, <3>1, <3>2, <3>3 DEF TypeOK
  <2>6. OnDisk' = Over(OnDisk, f)
    <3>1. OnDisk' = Mapping(S)
      BY <2>1 DEF OnDisk, Hits, Mapping, FoundIn
    <3> QED BY <1>2, <2>2, <2>4, <3>1, OnDiskIsMapping
  <2> DEFINE d == Over(OnDisk, f)
  <2>7. d \in Contents
    BY <2>2, OverFacts
  <2>8. /\ Stage(1)' = d /\ Stage(2)' = Over(d, Empty)
        /\ Stage(3)' = Over(Over(d, Empty), i)
        /\ Stage(4)' = Over(Over(Over(d, Empty), i), a)
    <3>1. /\ Stage(1)' = OnDisk' /\ Stage(2)' = Over(OnDisk', tables'["flushing"])
          /\ Stage(3)' = Over(Over(OnDisk', tables'["flushing"]), tables'["immutable"])
          /\ Stage(4)' = Over(Over(Over(OnDisk', tables'["flushing"]), tables'["immutable"]),
                              tables'["active"])
      BY DEF Stage, Over
    <3> QED BY <2>3, <2>6, <3>1
  <2>9. Stage(2) = d /\ Stage(3) = Over(d, i) /\ Stage(4) = Over(Over(d, i), a)
    BY DEF Stage
  <2>10. Over(d, Empty) = d
    <3> HIDE DEF d
    <3> QED BY <2>7, OverFacts
  <2>11. Stage(1)' = Stage(2) /\ Stage(2)' = Stage(2) /\ Stage(3)' = Stage(3) /\ Stage(4)' = Stage(4)
    BY <2>8, <2>9, <2>10
  <2>12. Newest' = Newest
    BY <2>5, <2>11, NewestIsStaged, NewestIsStagedNext
  <2>13. Stage(fl_gen)' = Stage(fl_gen + 1)
    <3>1. Stage(fl_gen)' = Stage(1)'
      BY <2>1 DEF Stage
    <3> QED BY <2>1, <2>11, <3>1
  <2>14. \A g \in 1..4 : \E h \in 1..4 : Stage(g)' = Stage(h)
    <3>1. \A g \in 1..4 : g = 1 \/ g = 2 \/ g = 3 \/ g = 4
      OBVIOUS
    <3>2. 2 \in 1..4 /\ 3 \in 1..4 /\ 4 \in 1..4
      OBVIOUS
    <3> QED BY <2>11, <3>1, <3>2
  <2>15. ASSUME NEW j \in 1..Len(S)
         PROVE  S[j].seq < next_sst_seq'
    <3> HIDE DEF Inv
    <3>1. CASE j = 1
      BY <1>1, <1>2, <1>num, <2>4, <3>1
    <3>2. CASE j # 1
      <4>1. j - 1 \in 1..Len(sstables) /\ S[j] = sstables[j - 1]
        BY <1>num, <2>4, <3>2
      <4>2. sstables[j - 1].seq \in Nat /\ sstables[j - 1].seq < next_sst_seq
        BY <1>5, <4>1
      <4> QED BY <1>1, <1>num, <4>1, <4>2
    <3> QED BY <1>num, <3>1, <3>2
  <2>16. ASSUME NEW j \in 1..Len(S), NEW k \in 1..Len(S), j < k
         PROVE  S[k].seq < S[j].seq
    <3>1. k - 1 \in 1..Len(sstables) /\ S[k] = sstables[k - 1]
      BY <2>4, <2>16, TypeFacts
    <3>2. CASE j = 1
      BY <1>2, <1>5, <2>4, <3>1, <3>2
    <3>3. CASE j # 1
      <4>1. j - 1 \in 1..Len(sstables) /\ j - 1 < k - 1 /\ S[j] = sstables[j - 1]
        BY <2>4, <2>16, <3>3, TypeFacts
      <4> QED BY <1>2, <3>1, <4>1 DEF InstanceOK, SequencesGrow
    <3> QED BY <3>2, <3>3
  <2>17. InstanceOK'
    <3>1. Entries(Empty) = {}
      BY DEF Entries, Empty
    <3>2. \A g \in {"flushing", "immutable", "active"} : Entries(tables'[g]) \subseteq target
      BY <1>2, <2>3, <3>1 DEF InstanceOK
    <3>3. SequencesGrow'
      BY <2>1, <2>16 DEF SequencesGrow
    <3> QED BY <1>1, <1>2, <1>4, <2>1, <2>15, <3>2, <3>3 DEF InstanceOK, Entries
  <2> QED BY <2>5, <2>12, <2>13, <2>14, <2>17
<1> QED BY <1>6, <1>7

\* A complete table becomes the newest of the log, unless the log ended before it.
LEMMA TableWrittenKeeps ==
    ASSUME Inv, TableWritten
    PROVE  Inv'
<1> USE DEF Inv
<1> DEFINE n == NrBlocks(Victim)
<1>1. /\ fl_pc = "payload" /\ fl_page + 1 = n
      /\ meta_wp' = meta_wp + n /\ next_sst_seq' = next_sst_seq + 1
      /\ UNCHANGED <<target, writes_stopped, zone, written, engine, fl_page, cursor,
                     latest, restored, acked, past, kept, refused, crashes, errors>>
      /\ \/ engine = "exit" /\ fl_pc' = "next"
         \/ engine # "exit" /\ fl_pc' = "claim" /\ fl_gen' = fl_gen
  BY DEF TableWritten, deviceVars, recoveryVars, history, faults
<1>2. /\ Running /\ Running' /\ fl_gen \in 1..3 /\ n \in Nat /\ n >= 1
      /\ meta_wp + n = Len(zone) + 1 /\ InProgress \in Table
  BY <1>1, InProgressFacts DEF Running
<1>3. /\ TypeOK' /\ Newest' = Newest /\ Stage(fl_gen)' = Stage(fl_gen + 1)
      /\ \A g \in 1..4 : \E h \in 1..4 : Stage(g)' = Stage(h)
      /\ InstanceOK'
  BY TableWrittenStages
<1> HIDE DEF n
<1>4. ZoneOK' /\ StartOK'
  BY <1>1, <1>2 DEF ZoneOK, StartOK, Running
<1>5. WriterOK'
  BY <1>1, <1>2 DEF WriterOK
<1>6. HistoryOK'
  <2>1. \A g \in 1..4 : Stage(g)' \in past'
    BY <1>1, <1>2, <1>3 DEF HistoryOK
  <2> QED BY <1>1, <1>2, <1>3, <2>1
          DEF HistoryOK, CleanlyRemovedOpens, RefusedOnlyIfTorn, Placed, Apart, Valid
<1>7. \E L \in Seq(Table) : LogInv(L)'
  <2>1. PICK L \in Seq(Table) : LogInv(L)
    OBVIOUS
  <2>2. ~kept' /\ ~kept /\ engine # "down" /\ zone # <<>>
    BY <1>1, <1>2 DEF HistoryOK, ZoneOK, Running
  <2>3. CASE Whole(L)
    <3> DEFINE M == <<InProgress>> \o L
    <3>1. /\ Chained(M) /\ Stored(M) /\ End(M) = Len(zone) + 1
          /\ Mapping(M) = Stage(fl_gen + 1)
          /\ \A i \in 1..Len(M) : M[i].seq < next_sst_seq + 1
      BY <1>1, <2>1, <2>3, InProgressFacts DEF n
    <3>2. M \in Seq(Table)
      BY <1>2, <2>1, FoundCons
    <3> HIDE DEF M
    <3>3. PICK N \in Seq(Table) : N = M
      BY <3>2
    <3>4. Chained(N)' /\ Stored(N)' /\ End(N)' = Len(zone) + 1
          /\ Mapping(N)' = Stage(fl_gen)' /\ Mapping(N)' = Stage(fl_gen + 1)
          /\ \A i \in 1..Len(N) : N[i].seq < next_sst_seq'
      BY <1>1, <1>3, <3>1, <3>3, MediaKeeps
    <3>5. Whole(N)'
      BY <1>1, <1>2, <2>2, <3>4 DEF Whole
    <3>6. Scanned(N)'
      BY <1>2 DEF Scanned, Running
    <3>7. Newest = acked
      <4>1. ~Broken(L)
        <5>1. End(L) = meta_wp
          BY <2>2, <2>3 DEF Whole
        <5> QED BY <2>2, <5>1, TypeFacts DEF Broken
      <4> QED BY <1>2, <2>1, <4>1 DEF LogInv, Owed
    <3>8. Owed(N)'
      <4>1. Stage(fl_gen + 1) \in past
        <5>1. fl_gen + 1 \in 1..4
          BY <1>2
        <5> QED BY <1>2, <5>1 DEF HistoryOK
      <4> QED BY <1>1, <1>3, <2>2, <3>4, <3>7, <4>1 DEF Owed
    <3>9. LogInv(N)'
      BY <3>4, <3>5, <3>6, <3>8 DEF LogInv
    <3> QED BY <3>9
  <2>4. CASE Broken(L)
    <3>1. Broken(L)'
      <4>1. Torn(End(L))'
        BY <1>1, <2>4, MediaKeeps DEF Broken
      <4>2. End(L) < meta_wp'
        <5>1. End(L) < meta_wp /\ End(L) \in Int
          BY <2>2, <2>4, TypeFacts DEF Broken, Torn
        <5>2. meta_wp \in Nat
          BY TypeFacts
        <5> QED BY <1>1, <1>2, <5>1, <5>2
      <4> QED BY <1>1, <2>4, <4>1, <4>2 DEF Broken
    <3>2. Chained(L)' /\ Stored(L)' /\ Mapping(L)' = Mapping(L)
      BY <1>1, <2>1, MediaKeeps DEF LogInv
    <3>3. Scanned(L)'
      BY <1>2 DEF Scanned, Running
    <3>4. Owed(L)'
      BY <1>1, <1>2, <1>3, <2>1, <2>2, <3>1 DEF Owed, LogInv
    <3>5. LogInv(L)'
      BY <3>1, <3>2, <3>3, <3>4 DEF LogInv
    <3> QED BY <3>5
  <2> QED BY <2>1, <2>3, <2>4 DEF LogInv
<1> QED BY <1>3, <1>4, <1>5, <1>6, <1>7

\* A flush of the worker fails: the log goes on, or has found its end.
LEMMA FlushFailsKeeps ==
    ASSUME Inv, FlushFails
    PROVE  Inv'
<1> USE DEF Inv
<1>1. /\ fl_pc \in {"header", "payload"} /\ fl_pc' = "idle" /\ engine # "exit"
      /\ meta_wp' = meta_wp + Consumed
      /\ UNCHANGED <<target, writes_stopped, zone, written, engine, tables, sstables,
                     next_sst_seq, fl_gen, fl_page, cursor, latest, restored, acked,
                     past, kept, refused, crashes>>
  BY DEF FlushFails, WriteFails, deviceVars, recoveryVars, history
<1>2. /\ Running /\ Running' /\ fl_gen = 1 /\ engine # "down" /\ zone # <<>>
      /\ ~kept /\ ~refused
  BY <1>1 DEF StartOK, WriterOK, Running, ZoneOK, HistoryOK
<1>3. /\ errors' \in 0..MaxErrors /\ errors' >= errors
      /\ fl_pc = "payload" => errors' > 0 /\ fl_page + 1 < NrBlocks(Victim)
  BY ConstantFacts DEF FlushFails, WriteFails, TypeOK
<1>4. /\ meta_wp' = Len(zone) + 1 /\ meta_wp' >= meta_wp
      /\ fl_pc = "header" => meta_wp' = meta_wp
      /\ fl_pc = "payload" => meta_wp' > meta_wp
  <2>1. CASE fl_pc = "header"
    BY <1>1, <1>2, <2>1, TypeFacts DEF Consumed, WriterOK
  <2>2. CASE fl_pc = "payload"
    <3>1. meta_wp + fl_page = Len(zone) /\ Consumed = 1 + fl_page
      BY <2>2 DEF WriterOK, Consumed
    <3>2. meta_wp \in Nat /\ fl_page \in Nat
      BY TypeFacts
    <3> QED BY <1>1, <2>2, <3>1, <3>2
  <2> QED BY <1>1, <2>1, <2>2
<1>5. TypeOK'
  <2>1. meta_wp' \in 1 .. MetaEnd + 1
    BY <1>4, TypeFacts, ConstantFacts
  <2> QED BY <1>1, <1>3, <2>1 DEF TypeOK
<1>6. ZoneOK' /\ StartOK'
  BY <1>1, <1>2 DEF ZoneOK, StartOK, Running
<1>7. WriterOK'
  BY <1>1, <1>2, <1>4 DEF WriterOK
<1>8. InstanceOK'
  <2>1. next_sst_seq' < meta_wp'
    BY <1>1, <1>2, <1>4, TypeFacts DEF InstanceOK
  <2> QED BY <1>1, <1>2, <2>1 DEF InstanceOK, SequencesGrow, Entries
<1>9. /\ Newest' = Newest /\ Stage(fl_gen)' = Stage(fl_gen)
      /\ \A g : Stage(g)' = Stage(g)
  BY <1>1, StageKeeps DEF Stage
<1>10. HistoryOK'
  <2>1. \A g \in 1..4 : Stage(g)' \in past'
    BY <1>1, <1>2, <1>9 DEF HistoryOK
  <2>2. errors' = 0 => errors = 0
    BY <1>3, TypeFacts
  <2>3. Placed(Newest)' /\ (writes_stopped' \/ Valid(Newest)')
    BY <1>1, <1>2, <1>9, <2>2 DEF HistoryOK, Placed, Apart, Valid
  <2> QED BY <1>1, <1>2, <2>1, <2>3 DEF HistoryOK, CleanlyRemovedOpens, RefusedOnlyIfTorn
<1>11. \E L \in Seq(Table) : LogInv(L)'
  <2>1. PICK L \in Seq(Table) : LogInv(L)
    OBVIOUS
  <2>2. CASE fl_pc = "header"
    <3>1. LogInv(L)'
      BY <1>1, <1>2, <1>3, <1>4, <1>5, <1>9, <2>1, <2>2, TypeFacts, QuietStep
    <3> QED BY <3>1
  <2>3. CASE fl_pc = "payload"
    <3>1. Torn(End(L)) /\ End(L) < meta_wp'
      <4>1. CASE Whole(L)
        <5>1. End(L) = meta_wp
          BY <1>2, <4>1 DEF Whole
        <5>2. Torn(meta_wp)
          <6>1. fl_page + 1 # NrBlocks(Victim)
            BY <1>3, <2>3, TypeFacts, NrBlocksFacts
          <6> QED BY <2>3, <6>1, InProgressFacts
        <5> QED BY <1>4, <2>3, <5>1, <5>2, TypeFacts
      <4>2. CASE Broken(L)
        <5>1. Torn(End(L)) /\ End(L) < meta_wp /\ End(L) \in Int
          BY <1>2, <4>2, TypeFacts DEF Broken, Torn
        <5> QED BY <1>4, <5>1, TypeFacts
      <4> QED BY <2>1, <4>1, <4>2 DEF LogInv
    <3>2. Broken(L)'
      <4>1. Torn(End(L))'
        BY <1>1, <3>1, MediaKeeps
      <4> QED BY <1>3, <2>3, <3>1, <4>1 DEF Broken
    <3>3. Chained(L)' /\ Stored(L)' /\ Mapping(L)' = Mapping(L)
      BY <1>1, <2>1, MediaKeeps DEF LogInv
    <3>4. Scanned(L)'
      BY <1>2 DEF Scanned, Running
    <3>5. Owed(L)'
      BY <1>1, <1>2, <1>9, <2>1, <3>2 DEF Owed, LogInv
    <3>6. LogInv(L)'
      BY <3>2, <3>3, <3>4, <3>5 DEF LogInv
    <3> QED BY <3>6
  <2> QED BY <1>1, <2>2, <2>3
<1> QED BY <1>5, <1>6, <1>7, <1>8, <1>10, <1>11

(***************************************************************************)
(* Each step keeps the invariant: the end of an instance                   *)
(***************************************************************************)
\* Nothing but the zone and the history is left of an instance.
LEMMA ForgetKeeps ==
    ASSUME Inv, Forget, UNCHANGED <<zone, written, acked, past>>,
           kept' \in BOOLEAN, refused' \in BOOLEAN,
           crashes' \in 0..MaxCrashes, errors' \in 0..MaxErrors, errors' >= errors,
           MaxCrashes = 0 /\ MaxErrors = 0 => (kept' => ~refused'),
           kept' /\ refused' =>
               \/ \E c \in 1..Len(zone) : Torn(c)
               \/ \E b \in LogicalBlocks : acked[b] # NoData /\ acked[b] \notin written,
           NEW L \in Seq(Table), Chained(L), Stored(L), Mapping(L) \in past,
           \/ zone = <<>> /\ L = <<>>
           \/ zone # <<>> /\ End(L) = Len(zone) + 1
           \/ Torn(End(L)) /\ (crashes' > 0 \/ errors' > 0),
           kept' => \/ Mapping(L) = acked /\ Placed(acked)
                    \/ Torn(End(L)) /\ (crashes' > 0 \/ errors' > 0)
    PROVE  Inv'
<1> USE DEF Inv
<1>1. /\ engine' = "down" /\ target' = {} /\ writes_stopped' = FALSE
      /\ tables' = NoTables /\ sstables' = <<>>
      /\ meta_wp' = 1 /\ next_sst_seq' = 1 /\ fl_pc' = "idle" /\ fl_gen' = 1 /\ fl_page' = 0
      /\ cursor' = 2 /\ latest' = Empty /\ restored' = 0 /\ ~Running'
  BY DEF Forget, Running
<1>2. TypeOK'
  <2>1. /\ 1 \in 1 .. MetaEnd + 1 /\ 2 \in 2 .. MetaEnd + 1 /\ 0 \in 0..MetaEnd
        /\ 1 \in 1..4 /\ 0 \in 0..Len(<<>>) /\ Empty \in Contents
        /\ <<>> \in Seq([start : 2..MetaEnd, table : Contents, seq : 1..MetaEnd])
        /\ NoTables \in [{"flushing", "immutable", "active"} -> Contents]
    BY ConstantFacts
  <2> QED BY <1>1, <2>1 DEF TypeOK
<1>3. ZoneOK'
  BY <1>1 DEF ZoneOK
<1>4. StartOK'
  BY <1>1 DEF StartOK
<1>5. WriterOK'
  BY <1>1 DEF WriterOK
<1>6. InstanceOK'
  BY <1>1 DEF InstanceOK
<1>7. HistoryOK'
  <2>1. Valid(latest)'
    BY <1>1 DEF Valid, Empty
  <2>2. RefusedOnlyIfTorn'
    BY MediaKeeps DEF RefusedOnlyIfTorn
  <2> QED BY <1>1, <2>1, <2>2 DEF HistoryOK, CleanlyRemovedOpens
<1>8. LogInv(L)'
  <2>1. Chained(L)' /\ Stored(L)' /\ Mapping(L)' = Mapping(L) /\ End(L)' = End(L)
    BY MediaKeeps
  <2>2. Torn(End(L))' = Torn(End(L))
    BY MediaKeeps
  <2>3. Torn(End(L)) /\ (crashes' > 0 \/ errors' > 0) => Broken(L)'
    BY <1>1, <2>2 DEF Broken
  <2>4. Whole(L)' \/ Broken(L)'
    <3>1. CASE zone = <<>> /\ L = <<>>
      BY <1>1, <3>1 DEF Whole
    <3>2. CASE zone # <<>> /\ End(L) = Len(zone) + 1
      BY <1>1, <3>2 DEF Whole
    <3>3. CASE Torn(End(L)) /\ (crashes' > 0 \/ errors' > 0)
      BY <2>3, <3>3
    <3> QED BY <3>1, <3>2, <3>3
  <2>5. Scanned(L)'
    BY <1>1 DEF Scanned
  <2>6. Owed(L)'
    <3>1. Placed(acked) => Placed(acked)'
      BY PlacedKeeps
    <3> QED BY <1>1, <2>1, <2>3, <3>1 DEF Owed
  <2> QED BY <2>1, <2>4, <2>5, <2>6 DEF LogInv
<1> QED BY <1>2, <1>3, <1>4, <1>5, <1>6, <1>7, <1>8

\* What is known of the log of an instance that writes no table.
LEMMA LogAtRest ==
    ASSUME Inv, NEW L \in Seq(Table), LogInv(L), fl_pc # "payload", engine # "down"
    PROVE  /\ zone # <<>> /\ Chained(L) /\ Stored(L) /\ Mapping(L) \in past
           /\ Whole(L) => zone # <<>> /\ End(L) = Len(zone) + 1
           /\ Broken(L) => Torn(End(L)) /\ (crashes > 0 \/ errors > 0)
           /\ Whole(L) \/ Broken(L)
<1>1. zone # <<>> /\ meta_wp = Len(zone) + 1
  BY DEF Inv, ZoneOK, WriterOK, StartOK, Running, TypeOK
<1> QED BY <1>1 DEF LogInv, Owed, Whole, Broken

\* The last flush has written every generation.
LEMMA ExitedKeeps ==
    ASSUME Inv, Exited
    PROVE  Inv'
<1>1. /\ engine = "exit" /\ fl_pc = "next" /\ fl_gen = 4 /\ Forget /\ kept' = TRUE
      /\ UNCHANGED <<zone, written, acked, past, refused, crashes, errors>>
      /\ Running /\ engine # "down" /\ ~refused
  BY DEF Inv, Exited, WriterOK, HistoryOK, Running, deviceVars, faults
<1>2. PICK L \in Seq(Table) : LogInv(L)
  BY DEF Inv
<1>3. /\ zone # <<>> /\ Chained(L) /\ Stored(L) /\ Mapping(L) \in past
      /\ Whole(L) => zone # <<>> /\ End(L) = Len(zone) + 1
      /\ Broken(L) => Torn(End(L)) /\ (crashes > 0 \/ errors > 0)
      /\ Whole(L) \/ Broken(L)
  BY <1>1, <1>2, LogAtRest
<1>4. Whole(L) => Mapping(L) = Newest
  BY <1>1, NewestIsStaged DEF Whole, Inv
<1>5. (Newest = acked /\ Placed(acked)) \/ Broken(L)
  BY <1>1, <1>2 DEF LogInv, Owed, Inv, HistoryOK, Placed, Apart, Valid
<1>6. /\ crashes' \in 0..MaxCrashes /\ errors' \in 0..MaxErrors /\ errors' >= errors
      /\ refused' \in BOOLEAN /\ kept' \in BOOLEAN /\ ~refused'
  BY <1>1, TypeFacts DEF Inv, TypeOK
<1> QED BY <1>1, <1>2, <1>3, <1>4, <1>5, <1>6, ForgetKeeps

\* The last flush stops at a failure, or the machine does.
LEMMA CutShortKeeps ==
    ASSUME Inv, LastFlushStops \/ Crash
    PROVE  Inv'
<1>1. /\ engine # "down" /\ Forget
      /\ UNCHANGED <<zone, written, acked, past, refused>>
      /\ kept' \in BOOLEAN /\ refused' \in BOOLEAN
  BY DEF Inv, TypeOK, LastFlushStops, Crash, deviceVars
<1>2. /\ crashes' \in 0..MaxCrashes /\ errors' \in 0..MaxErrors /\ errors' >= errors
      /\ crashes > 0 \/ errors > 0 => crashes' > 0 \/ errors' > 0
      /\ fl_pc = "payload" => crashes' > 0 \/ errors' > 0
  <2>1. crashes \in Nat /\ errors \in Nat /\ crashes <= MaxCrashes /\ errors <= MaxErrors
        /\ MaxCrashes \in Nat /\ MaxErrors \in Nat
    BY ConstantFacts DEF Inv, TypeOK
  <2>2. CASE LastFlushStops
    <3>1. crashes' = crashes /\ (errors' = errors \/ (errors' = errors + 1 /\ errors < MaxErrors))
          /\ (fl_pc = "payload" => errors' = errors + 1)
      BY <2>2 DEF LastFlushStops, WriteFails
    <3> QED BY <2>1, <3>1
  <2>3. CASE Crash
    <3>1. crashes < MaxCrashes /\ crashes' = crashes + 1 /\ errors' = errors
      BY <2>3 DEF Crash
    <3> QED BY <2>1, <3>1
  <2> QED BY <2>2, <2>3
<1>3. kept' => kept /\ engine \in {"scan", "rebuild"} /\ MaxCrashes # 0
  <2>1. crashes \in Nat /\ MaxCrashes \in Nat
    BY ConstantFacts, TypeFacts DEF Inv
  <2>2. CASE LastFlushStops
    BY <2>2 DEF LastFlushStops
  <2>3. CASE Crash
    <3>1. crashes < MaxCrashes
      BY <2>3 DEF Crash
    <3>2. MaxCrashes # 0
      BY <2>1, <3>1
    <3>3. kept' => kept /\ engine \in {"scan", "rebuild"}
      BY <2>3, Zenon DEF Crash
    <3> QED BY <3>2, <3>3
  <2> QED BY <2>2, <2>3
<1>4. PICK L \in Seq(Table) : LogInv(L)
  BY DEF Inv
<1>5. kept' => (Mapping(L) = acked /\ Placed(acked)) \/ Broken(L)
  BY <1>3, <1>4 DEF LogInv, Owed
<1>6. Broken(L) => Torn(End(L)) /\ (crashes' > 0 \/ errors' > 0)
  BY <1>2 DEF Broken
<1>7. Chained(L) /\ Stored(L) /\ Mapping(L) \in past /\ (Whole(L) \/ Broken(L))
  BY <1>4 DEF LogInv, Owed
<1>8. kept' /\ refused' =>
          \/ \E c \in 1..Len(zone) : Torn(c)
          \/ \E b \in LogicalBlocks : acked[b] # NoData /\ acked[b] \notin written
  BY <1>1, <1>3 DEF Inv, HistoryOK, RefusedOnlyIfTorn
<1>9. CASE fl_pc # "payload"
  <2>1. Whole(L) => zone # <<>> /\ End(L) = Len(zone) + 1
    BY <1>1, <1>4, <1>9, LogAtRest
  <2> QED BY <1>1, <1>2, <1>3, <1>4, <1>5, <1>6, <1>7, <2>1, <1>8, ForgetKeeps
<1>10. CASE fl_pc = "payload"
  <2>1. Running /\ ~kept /\ ~kept' /\ zone # <<>> /\ fl_gen \in 1..3
    <3>1. Running /\ fl_gen \in 1..3
      BY <1>10, InProgressFacts
    <3> QED BY <1>1, <1>3, <3>1 DEF Inv, HistoryOK, ZoneOK
  <2>2. CASE Broken(L)
    BY <1>1, <1>2, <1>3, <1>4, <1>6, <1>7, <2>1, <2>2, <1>8, ForgetKeeps
  <2>3. CASE Whole(L) /\ fl_page + 1 # NrBlocks(Victim)
    <3>1. End(L) = meta_wp
      BY <1>1, <2>1, <2>3 DEF Whole
    <3>2. Torn(End(L))
      BY <1>10, <2>3, <3>1, InProgressFacts
    <3> QED BY <1>1, <1>2, <1>3, <1>4, <1>7, <1>10, <2>1, <3>2, <1>8, ForgetKeeps
  <2>4. CASE Whole(L) /\ fl_page + 1 = NrBlocks(Victim)
    <3> DEFINE M == <<InProgress>> \o L
    <3>1. /\ Chained(M) /\ Stored(M) /\ End(M) = Len(zone) + 1
          /\ Mapping(M) = Stage(fl_gen + 1)
      BY <1>4, <1>10, <2>4, InProgressFacts
    <3>2. M \in Seq(Table)
      BY <1>4, <1>10, FoundCons, InProgressFacts
    <3>3. Mapping(M) \in past
      <4>1. fl_gen + 1 \in 1..4
        BY <2>1
      <4> QED BY <2>1, <3>1, <4>1 DEF Inv, HistoryOK
    <3> HIDE DEF M
    <3>4. PICK N \in Seq(Table) : N = M
      BY <3>2
    <3>5. Chained(N) /\ Stored(N) /\ End(N) = Len(zone) + 1 /\ Mapping(N) \in past
      BY <3>1, <3>3, <3>4
    <3> QED BY <1>1, <1>2, <1>3, <2>1, <3>5, <1>8, ForgetKeeps
  <2> QED BY <1>7, <2>2, <2>3, <2>4
<1> QED BY <1>9, <1>10

(***************************************************************************)
(* Each step keeps the invariant: the start of an instance                 *)
(***************************************************************************)
\* The metadata zone is formatted, or its superblock matches.
LEMMA OpenMetadataKeeps ==
    ASSUME Inv, NEW T \in Targets, OpenMetadata(T)
    PROVE  Inv'
<1> USE DEF Inv
<1>1. /\ engine = "down" /\ engine' = "scan" /\ target' = T /\ ~Running /\ ~Running'
      /\ meta_wp' = Len(zone') + 1
      /\ UNCHANGED <<written, writes_stopped, tables, sstables, next_sst_seq, fl_pc,
                     fl_gen, fl_page, cursor, latest, restored, acked, past, kept,
                     refused, crashes, errors>>
  BY DEF OpenMetadata, Running, flushVars, recoveryVars, history, faults
<1>2. /\ fl_pc = "idle" /\ fl_gen = 1 /\ tables = NoTables /\ sstables = <<>> /\ cursor = 2
      /\ next_sst_seq = 1 /\ restored = 0 /\ latest = Empty /\ Valid(latest)
  BY <1>1 DEF StartOK, WriterOK, HistoryOK
<1>3. \/ zone = <<>> /\ zone' = <<Super(T)>>
      \/ zone # <<>> /\ zone' = zone /\ zone[1] = Super(T)
  BY DEF OpenMetadata, Matches
<1>4. /\ zone' # <<>> /\ zone'[1] = Super(T) /\ zone' \in Seq(Block) /\ Len(zone') \in Nat
      /\ Len(zone') >= 1 /\ Len(zone') <= MetaEnd
      /\ \A i \in 1..Len(zone') : zone'[i].kind = "header" => zone'[i].seq < i
  <2>1. CASE zone = <<>> /\ zone' = <<Super(T)>>
    <3>1. Super(T) \in Block /\ Super(T).kind = "super"
      BY BlockTypes DEF Super
    <3>2. Len(zone') = 1 /\ zone'[1] = Super(T) /\ zone' # <<>>
      BY <2>1
    <3>3. zone' \in Seq(Block)
      BY <2>1, <3>1
    <3>4. \A i \in 1..Len(zone') : i = 1
      BY <3>2
    <3> QED BY <3>1, <3>2, <3>3, <3>4, ConstantFacts
  <2>2. CASE zone # <<>> /\ zone' = zone /\ zone[1] = Super(T)
    <3>1. Len(zone) # 0
      BY <2>2, TypeFacts
    <3> QED BY <2>2, <3>1, TypeFacts DEF ZoneOK
  <2> QED BY <1>3, <2>1, <2>2
<1>5. TypeOK'
  <2>1. meta_wp' \in 1 .. MetaEnd + 1
    BY <1>1, <1>4, ConstantFacts
  <2> QED BY <1>1, <1>4, <2>1 DEF TypeOK
<1>6. ZoneOK'
  BY <1>1, <1>4 DEF ZoneOK, Super
<1>7. StartOK'
  <2>1. cursor' = End(sstables)' /\ cursor' <= meta_wp' /\ next_sst_seq' < cursor'
    BY <1>1, <1>2, <1>4 DEF End
  <2>2. \A i \in 1..Len(sstables') : FALSE
    BY <1>1, <1>2
  <2> QED BY <1>1, <1>2, <2>1, <2>2 DEF StartOK
<1>8. WriterOK'
  BY <1>1, <1>2 DEF WriterOK
<1>9. InstanceOK'
  <2>1. \A i \in 1..Len(sstables') : FALSE
    BY <1>1, <1>2
  <2> QED BY <1>1, <2>1 DEF InstanceOK
<1>10. HistoryOK'
  <2>1. RefusedOnlyIfTorn'
    BY <1>1, <1>3, RefusalKeeps, TypeFacts DEF HistoryOK
  <2> QED BY <1>1, <1>2, <2>1 DEF HistoryOK, CleanlyRemovedOpens, Valid
<1>11. \E L \in Seq(Table) : LogInv(L)'
  <2>1. PICK L \in Seq(Table) : LogInv(L)
    OBVIOUS
  <2>2. Chained(L)' /\ Mapping(L)' = Mapping(L) /\ End(L)' = End(L)
    BY <2>1 DEF LogInv
  <2>3. Broken(L) => Broken(L)' /\ zone # <<>>
    <3> SUFFICES ASSUME Broken(L) PROVE Broken(L)' /\ zone # <<>>
      OBVIOUS
    <3>1. Torn(End(L)) /\ End(L) \in 1..Len(zone)
      BY DEF Broken, Torn
    <3>2. zone # <<>>
      BY <3>1
    <3>3. zone' = zone
      BY <1>3, <3>2
    <3>4. Torn(End(L))'
      BY <3>1, <3>3, MediaKeeps
    <3>5. End(L) < meta_wp'
      BY <1>1, <3>1, <3>3, TypeFacts
    <3> QED BY <1>1, <3>2, <3>4, <3>5 DEF Broken
  <2>4. zone = <<>> => L = <<>>
    BY <2>1, <2>3 DEF LogInv, Whole
  <2>5. Stored(L)'
    <3>1. CASE zone = <<>>
      BY <2>4, <3>1 DEF Stored
    <3>2. CASE zone # <<>>
      BY <1>3, <2>1, <3>2, MediaKeeps DEF LogInv
    <3> QED BY <3>1, <3>2
  <2>6. Whole(L) => Whole(L)'
    <3>1. CASE zone = <<>>
      <4>1. End(L) = 2 /\ Len(zone') = 1
        BY <1>3, <2>4, <3>1 DEF End
      <4> QED BY <1>1, <1>4, <4>1 DEF Whole
    <3>2. CASE zone # <<>>
      BY <1>1, <1>3, <1>4, <3>2 DEF Whole
    <3> QED BY <3>1, <3>2
  <2>7. Scanned(L)'
    <3>1. Len(sstables') = 0 /\ Len(L) \in Nat
      BY <1>1, <1>2
    <3>2. \A i \in 1..Len(sstables') : FALSE
      BY <3>1
    <3> QED BY <1>1, <3>1, <3>2 DEF Scanned
  <2>8. Owed(L)'
    <3>1. Placed(acked)' = Placed(acked)
      BY <1>1 DEF Placed, Apart, Valid
    <3> QED BY <1>1, <2>1, <2>2, <2>3, <3>1 DEF Owed, LogInv
  <2>9. LogInv(L)'
    BY <2>1, <2>2, <2>3, <2>5, <2>6, <2>7, <2>8 DEF LogInv
  <2> QED BY <2>9
<1> QED BY <1>5, <1>6, <1>7, <1>8, <1>9, <1>10, <1>11

\* The superblock cannot be written or read.
LEMMA OpenMetadataFailsKeeps ==
    ASSUME Inv, OpenMetadataFails
    PROVE  Inv'
<1> USE DEF Inv
<1>1. /\ engine = "down" /\ engine' = "down" /\ ~Running /\ ~Running'
      /\ UNCHANGED <<zone, written, target, writes_stopped, tables, sstables, meta_wp,
                     next_sst_seq, fl_pc, fl_gen, fl_page, cursor, latest, restored,
                     acked, past, kept, refused, crashes>>
  BY DEF OpenMetadataFails, Running, flushVars, recoveryVars, history, deviceVars, logVars
<1>2. errors' \in 0..MaxErrors /\ errors' > 0 /\ errors' >= errors
  <2>1. errors \in Nat /\ errors < MaxErrors /\ errors' = errors + 1
    BY TypeFacts DEF OpenMetadataFails
  <2> QED BY <2>1, ConstantFacts
<1>3. TypeOK'
  BY <1>1, <1>2 DEF TypeOK
<1>4. ZoneOK' /\ StartOK' /\ WriterOK' /\ InstanceOK'
  <2>1. ZoneOK' /\ StartOK'
    BY <1>1 DEF ZoneOK, StartOK
  <2>2. fl_pc = "idle"
    BY <1>1 DEF StartOK
  <2>3. WriterOK'
    BY <1>1, <2>2 DEF WriterOK
  <2> QED BY <1>1, <2>1, <2>3 DEF InstanceOK
<1>5. HistoryOK'
  <2>1. RefusedOnlyIfTorn'
    BY <1>1, RefusalKeeps, TypeFacts DEF HistoryOK
  <2> QED BY <1>1, <2>1 DEF HistoryOK, CleanlyRemovedOpens, Valid
<1>6. \E L \in Seq(Table) : LogInv(L)'
  <2>1. PICK L \in Seq(Table) : LogInv(L)
    OBVIOUS
  <2>2. Chained(L)' /\ Mapping(L)' = Mapping(L) /\ End(L)' = End(L) /\ Stored(L)'
        /\ Torn(End(L))' = Torn(End(L))
    BY <1>1, <2>1, MediaKeeps DEF LogInv
  <2>3. Broken(L) => Broken(L)'
    BY <1>1, <1>2, <2>2 DEF Broken
  <2>4. Whole(L) => Whole(L)'
    BY <1>1, <2>2 DEF Whole
  <2>5. Scanned(L)'
    BY <1>1 DEF Scanned
  <2>6. Owed(L)'
    <3>1. Placed(acked) => Placed(acked)'
      BY <1>1, <1>2, PlacedKeeps
    <3> QED BY <1>1, <2>1, <2>2, <2>3, <3>1 DEF Owed, LogInv
  <2>7. LogInv(L)'
    BY <2>1, <2>2, <2>3, <2>4, <2>5, <2>6 DEF LogInv
  <2> QED BY <2>7
<1> QED BY <1>3, <1>4, <1>5, <1>6

\* As long as tables of the log are missing from the list, the scan stands at
\* the next of them and loads it.
LEMMA ScanFindsNext ==
    ASSUME Inv, engine = "scan", NEW L \in Seq(Table), LogInv(L),
           Len(sstables) < Len(L),
           \A i \in 1..Len(sstables) : sstables[i] = L[Len(L) - Len(sstables) + i]
    PROVE  /\ Loadable
           /\ Sstable(cursor, zone[cursor]) = L[Len(L) - Len(sstables)]
<1> DEFINE j == Len(L) - Len(sstables)
<1>1. Len(L) \in Nat /\ Len(sstables) \in Nat /\ j \in 1..Len(L)
  <2>1. Len(sstables) \in Nat
    BY TypeFacts DEF Inv
  <2> QED BY <2>1
<1> HIDE DEF j
<1>2. L[j] \in Table
  BY <1>1
<1>3. L[j].start \in Nat /\ L[j] = [start |-> L[j].start, table |-> L[j].table, seq |-> L[j].seq]
  BY <1>2, ConstantFacts DEF Table
<1>4. /\ cursor = End(sstables) /\ meta_wp = Len(zone) + 1
      /\ zone \in Seq(Block) /\ Len(zone) \in Nat
  BY TypeFacts DEF Inv, StartOK
<1>5. cursor = L[j].start
  <2>1. CASE sstables = <<>>
    <3>1. j = Len(L) /\ L # <<>>
      BY <1>1, <2>1 DEF j
    <3> QED BY <1>4, <2>1, <3>1 DEF End, LogInv, Chained
  <2>2. CASE sstables # <<>>
    <3>1. Len(sstables) # 0
      BY <2>2, TypeFacts DEF Inv
    <3>2. 1 \in 1..Len(sstables) /\ Len(L) - Len(sstables) + 1 = j + 1 /\ j + 1 \in 2..Len(L)
      BY <1>1, <3>1 DEF j
    <3>3. sstables[1] = L[j + 1]
      BY <3>2
    <3>4. L[j + 1].start + NrBlocks(L[j + 1].table) = L[(j + 1) - 1].start
      BY <3>2 DEF LogInv, Chained
    <3>5. (j + 1) - 1 = j
      BY <1>1
    <3> QED BY <1>4, <2>2, <3>3, <3>4, <3>5 DEF End
  <2> QED BY <2>1, <2>2
<1>6. /\ zone[cursor] = Header(L[j].table, L[j].seq)
      /\ L[j].start + NrBlocks(L[j].table) <= Len(zone) + 1
  BY <1>1, <1>5 DEF LogInv, Stored
<1>7. Header(L[j].table, L[j].seq).kind = "header" /\ zone[cursor].table = L[j].table
      /\ zone[cursor].seq = L[j].seq
  BY <1>6 DEF Header
<1>8. Loadable
  <2>1. NrBlocks(L[j].table) \in Nat /\ NrBlocks(L[j].table) >= 1
    BY NrBlocksFacts
  <2>2. cursor < meta_wp /\ NrBlocks(L[j].table) <= meta_wp - cursor
    BY <1>3, <1>4, <1>5, <1>6, <2>1
  <2> QED BY <1>6, <1>7, <2>2 DEF Loadable
<1>9. Sstable(cursor, zone[cursor]) = L[j]
  BY <1>3, <1>5, <1>7 DEF Sstable
<1> QED BY <1>8, <1>9 DEF j

\* A list with all the tables of the log is the log.
LEMMA ScannedAll ==
    ASSUME NEW L \in Seq(Table), sstables \in Seq(Table), Len(sstables) = Len(L),
           \A i \in 1..Len(sstables) : sstables[i] = L[Len(L) - Len(sstables) + i]
    PROVE  sstables = L
<1>1. Len(L) \in Nat
  OBVIOUS
<1>2. \A i \in 1..Len(L) : Len(L) - Len(L) + i = i
  BY <1>1
<1>3. \A i \in 1..Len(L) : sstables[i] = L[i]
  BY <1>2
<1>4. sstables = [i \in 1..Len(L) |-> sstables[i]] /\ L = [i \in 1..Len(L) |-> L[i]]
  OBVIOUS
<1> QED BY <1>3, <1>4

\* The scan adopts the table it stands at.
LEMMA LoadSstableKeeps ==
    ASSUME Inv, LoadSstable
    PROVE  Inv'
<1> USE DEF Inv
<1> DEFINE h == zone[cursor]  t == Sstable(cursor, h)  n == NrBlocks(h.table)
           S == <<t>> \o sstables
<1>1. /\ engine = "scan" /\ engine' = "scan" /\ ~Running /\ ~Running' /\ sstables' = S
      /\ next_sst_seq' = IF h.seq >= next_sst_seq THEN h.seq + 1 ELSE next_sst_seq
      /\ cursor' = cursor + n
      /\ UNCHANGED <<target, writes_stopped, zone, written, tables, meta_wp, fl_pc,
                     fl_gen, fl_page, latest, restored, acked, past, kept, refused,
                     crashes, errors>>
  BY DEF LoadSstable, Running, deviceVars, flushVars, history, faults
<1>2. /\ meta_wp = Len(zone) + 1 /\ cursor = End(sstables) /\ next_sst_seq < cursor
      /\ \A i \in 1..Len(sstables) :
            sstables[i].start + NrBlocks(sstables[i].table) <= meta_wp
      /\ restored = 0 /\ latest = Empty /\ fl_pc = "idle" /\ tables = NoTables
  BY <1>1 DEF StartOK
<1>3. /\ cursor < meta_wp /\ h.kind = "header" /\ n <= meta_wp - cursor
      /\ n \in Nat /\ n >= 1
  BY NrBlocksFacts DEF LoadSstable, Loadable
<1>4. /\ cursor \in Nat /\ cursor >= 2 /\ meta_wp \in Nat /\ next_sst_seq \in Nat
      /\ next_sst_seq >= 1 /\ Len(zone) \in Nat /\ Len(zone) <= MetaEnd /\ MetaEnd \in Nat
  BY TypeFacts, ConstantFacts DEF TypeOK
<1> HIDE DEF n
<1>5. cursor \in 1..Len(zone) /\ cursor \in 2..MetaEnd
  BY <1>2, <1>3, <1>4
<1>6. h.table \in Contents /\ h.seq \in 1..MetaEnd /\ h.seq < cursor
  BY <1>3, <1>5, BlockFacts, TypeFacts DEF ZoneOK
<1>7. t \in Table /\ t.start = cursor /\ t.table = h.table /\ t.seq = h.seq
  BY <1>5, <1>6 DEF Sstable, Table
<1> HIDE DEF t, h
<1>8. /\ S \in Seq(Table) /\ Len(S) = Len(sstables) + 1 /\ S[1] = t
      /\ \A i \in 2 .. Len(sstables) + 1 : S[i] = sstables[i - 1]
      /\ Len(sstables) \in Nat
  BY <1>7, TypeFacts, FoundCons
<1> HIDE DEF S
<1>9. /\ next_sst_seq' \in Nat /\ next_sst_seq' >= next_sst_seq /\ next_sst_seq' > h.seq
      /\ next_sst_seq' <= cursor
  BY <1>1, <1>2, <1>4, <1>6
<1>10. /\ cursor' \in 2 .. MetaEnd + 1 /\ cursor' <= meta_wp /\ next_sst_seq' < cursor'
       /\ next_sst_seq' \in 1 .. MetaEnd + 1
  <2>1. cursor' = cursor + n
    BY <1>1
  <2> HIDE DEF Inv
  <2> QED BY <1>2, <1>3, <1>4, <1>9, <2>1
<1>11. TypeOK'
  <2>1. sstables' \in Seq([start : 2..MetaEnd, table : Contents, seq : 1..MetaEnd])
    BY <1>1, <1>8 DEF Table
  <2>2. restored' \in 0..Len(sstables')
    BY <1>1, <1>2, <1>8
  <2> QED BY <1>1, <1>10, <2>1, <2>2 DEF TypeOK
<1>12. ZoneOK'
  BY <1>1 DEF ZoneOK
<1>13. \A i \in 1..Len(S) : i = 1 \/ (i - 1 \in 1..Len(sstables) /\ S[i] = sstables[i - 1])
  BY <1>8
<1>14. StartOK'
  <2>1. cursor' = End(sstables)'
    <3>1. S # <<>>
      BY <1>8
    <3> QED BY <1>1, <1>7, <1>8, <3>1 DEF End, n
  <2>2. \A i \in 1..Len(S) : S[i].start + NrBlocks(S[i].table) <= meta_wp
    <3>1. S[1].start + NrBlocks(S[1].table) = cursor'
      BY <1>1, <1>7, <1>8 DEF n
    <3> QED BY <1>2, <1>10, <1>13, <3>1
  <2> QED BY <1>1, <1>2, <1>10, <2>1, <2>2 DEF StartOK
<1>15. WriterOK'
  BY <1>1, <1>2 DEF WriterOK
<1>16. InstanceOK'
  <2>1. \A i \in 1..Len(S) : S[i].seq < next_sst_seq'
    <3> SUFFICES ASSUME NEW i \in 1..Len(S) PROVE S[i].seq < next_sst_seq'
      OBVIOUS
    <3>1. CASE i = 1
      BY <1>7, <1>8, <1>9, <3>1
    <3>2. CASE i - 1 \in 1..Len(sstables) /\ S[i] = sstables[i - 1]
      <4>1. sstables[i - 1] \in Table
        BY <3>2, TypeFacts
      <4>2. sstables[i - 1].seq \in Nat
        BY <4>1, ConstantFacts DEF Table
      <4>3. sstables[i - 1].seq < next_sst_seq
        BY <1>1, <3>2 DEF InstanceOK
      <4> QED BY <1>4, <1>9, <3>2, <4>2, <4>3
    <3> QED BY <1>13, <3>1, <3>2
  <2> QED BY <1>1, <2>1 DEF InstanceOK
<1>17. HistoryOK'
  <2>1. RefusedOnlyIfTorn'
    BY <1>1, RefusalKeeps, TypeFacts DEF HistoryOK
  <2> QED BY <1>1, <2>1 DEF HistoryOK, CleanlyRemovedOpens, Valid
<1>18. \E L \in Seq(Table) : LogInv(L)'
  <2>1. PICK L \in Seq(Table) : LogInv(L)
    OBVIOUS
  <2>2. Chained(L)' /\ Mapping(L)' = Mapping(L) /\ End(L)' = End(L) /\ Stored(L)'
        /\ Torn(End(L))' = Torn(End(L))
    BY <1>1, <2>1, MediaKeeps DEF LogInv
  <2>3. Broken(L) => Broken(L)'
    BY <1>1, <2>2 DEF Broken
  <2>4. Whole(L) => Whole(L)'
    BY <1>1, <2>2 DEF Whole
  <2>5. Owed(L)'
    <3>1. Placed(acked)' = Placed(acked)
      BY <1>1 DEF Placed, Apart, Valid
    <3> QED BY <1>1, <2>1, <2>2, <2>3, <3>1 DEF Owed, LogInv
  <2>6. Scanned(L)'
    <3>1. \A x : Intact(x)' = Intact(x)
      BY <1>1, MediaKeeps
    <3>2. CASE /\ Len(sstables) < Len(L)
               /\ \A i \in 1..Len(sstables) : sstables[i] = L[Len(L) - Len(sstables) + i]
      <4>1. t = L[Len(L) - Len(sstables)]
        BY <1>1, <2>1, <3>2, ScanFindsNext DEF t, h
      <4>2. Len(S) <= Len(L)
        BY <1>8, <3>2
      <4>3. ASSUME NEW i \in 1..Len(S) PROVE S[i] = L[Len(L) - Len(S) + i]
        <5>1. CASE i = 1
          <6>1. Len(L) - Len(S) + i = Len(L) - Len(sstables)
            BY <1>8, <5>1
          <6> QED BY <1>8, <4>1, <5>1, <6>1
        <5>2. CASE i - 1 \in 1..Len(sstables) /\ S[i] = sstables[i - 1]
          <6>1. Len(L) - Len(S) + i = Len(L) - Len(sstables) + (i - 1)
            BY <1>8, <5>2
          <6> QED BY <3>2, <5>2, <6>1
        <5> QED BY <1>13, <5>1, <5>2
      <4> QED BY <1>1, <4>2, <4>3 DEF Scanned
    <3>3. CASE /\ Len(sstables) = Len(L)
               /\ \A i \in 1..Len(sstables) : sstables[i] = L[Len(L) - Len(sstables) + i]
      <4>1. sstables = L
        BY <2>1, <3>3, TypeFacts, ScannedAll
      <4>2. cursor = End(L) /\ cursor < meta_wp
        BY <1>2, <1>3, <4>1
      <4>3. Broken(L)
        <5>1. Whole(L) => End(L) = meta_wp
          <6>1. zone # <<>>
            BY <1>1 DEF ZoneOK
          <6> QED BY <1>1, <6>1 DEF Whole
        <5> QED BY <1>4, <2>1, <4>2, <5>1 DEF LogInv
      <4>4. ~Intact(t)
        <5>1. PICK k \in 1 .. n - 1 : cursor + k > Len(zone) \/ zone[cursor + k] # Payload(h.table, k)
          BY <4>2, <4>3 DEF Broken, Torn, h, n
        <5>2. ~(cursor + k > Len(zone))
          BY <1>2, <1>3, <1>4
        <5> QED BY <1>7, <5>1, <5>2 DEF Intact, n
      <4>5. 1 \in 1..Len(S) /\ ~Intact(S[1])
        BY <1>8, <4>4
      <4> QED BY <1>1, <2>3, <3>1, <4>3, <4>5 DEF Scanned
    <3>4. CASE Broken(L) /\ \E i \in 1..Len(sstables) : ~Intact(sstables[i])
      <4>1. PICK i \in 1..Len(sstables) : ~Intact(sstables[i])
        BY <3>4
      <4>2. i + 1 \in 2 .. Len(sstables) + 1 /\ i + 1 \in 1..Len(S) /\ (i + 1) - 1 = i
        BY <1>8
      <4>3. ~Intact(S[i + 1])
        BY <1>8, <4>1, <4>2
      <4> QED BY <1>1, <2>3, <3>1, <3>4, <4>2, <4>3 DEF Scanned
    <3>5. Len(sstables) <= Len(L) => Len(sstables) < Len(L) \/ Len(sstables) = Len(L)
      BY <1>8
    <3> QED BY <1>1, <2>1, <3>2, <3>3, <3>4, <3>5 DEF Scanned, LogInv
  <2>7. LogInv(L)'
    BY <2>1, <2>2, <2>3, <2>4, <2>5, <2>6 DEF LogInv
  <2> QED BY <2>7
<1> QED BY <1>11, <1>12, <1>14, <1>15, <1>16, <1>17, <1>18

\* The scan ends at the end of the log, or behind a torn table it adopted.
LEMMA EndScanKeeps ==
    ASSUME Inv, EndScan
    PROVE  Inv'
<1> USE DEF Inv
<1>1. /\ engine = "scan" /\ engine' = "rebuild" /\ ~Running /\ ~Running' /\ ~Loadable
      /\ UNCHANGED <<target, writes_stopped, zone, written, tables, sstables, meta_wp,
                     next_sst_seq, fl_pc, fl_gen, fl_page, cursor, latest, restored,
                     acked, past, kept, refused, crashes, errors>>
  BY DEF EndScan, Running, deviceVars, logVars, flushVars, recoveryVars, history, faults
<1>2. TypeOK'
  BY <1>1 DEF TypeOK
<1>3. ZoneOK'
  BY <1>1 DEF ZoneOK
<1>4. StartOK'
  <2>1. restored = 0 /\ latest = Empty
    BY <1>1 DEF StartOK
  <2>2. latest' = FoundIn(sstables, restored)'
    BY <1>1, <2>1, FoundNothing DEF FoundIn
  <2>3. \A i \in 1..restored' : FALSE
    BY <1>1, <2>1
  <2>4. End(sstables)' = End(sstables)
    BY <1>1 DEF End
  <2> QED BY <1>1, <2>2, <2>3, <2>4 DEF StartOK
<1>5. WriterOK' /\ InstanceOK'
  BY <1>1 DEF WriterOK, InstanceOK, StartOK
<1>6. HistoryOK'
  <2>1. RefusedOnlyIfTorn'
    BY <1>1, RefusalKeeps, TypeFacts DEF HistoryOK
  <2> QED BY <1>1, <2>1 DEF HistoryOK, CleanlyRemovedOpens, Valid
<1>7. \E L \in Seq(Table) : LogInv(L)'
  <2>1. PICK L \in Seq(Table) : LogInv(L)
    OBVIOUS
  <2>2. Chained(L)' /\ Mapping(L)' = Mapping(L) /\ End(L)' = End(L) /\ Stored(L)'
        /\ Torn(End(L))' = Torn(End(L))
    BY <1>1, <2>1, MediaKeeps DEF LogInv
  <2>3. Broken(L) => Broken(L)'
    BY <1>1, <2>2 DEF Broken
  <2>4. Whole(L) => Whole(L)'
    BY <1>1, <2>2 DEF Whole
  <2>5. Owed(L)'
    <3>1. Placed(acked)' = Placed(acked)
      BY <1>1 DEF Placed, Apart, Valid
    <3> QED BY <1>1, <2>1, <2>2, <2>3, <3>1 DEF Owed, LogInv
  <2>6. Scanned(L)'
    <3>1. \A x : Intact(x)' = Intact(x)
      BY <1>1, MediaKeeps
    <3>2. CASE /\ Len(sstables) <= Len(L)
               /\ \A i \in 1..Len(sstables) : sstables[i] = L[Len(L) - Len(sstables) + i]
      <4>1. ~(Len(sstables) < Len(L))
        BY <1>1, <2>1, <3>2, ScanFindsNext
      <4>2. Len(sstables) = Len(L)
        <5>1. Len(sstables) \in Nat /\ Len(L) \in Nat
          BY TypeFacts
        <5> QED BY <3>2, <4>1, <5>1
      <4> QED BY <1>1, <3>2, <4>2 DEF Scanned
    <3>3. CASE Broken(L) /\ \E i \in 1..Len(sstables) : ~Intact(sstables[i])
      BY <1>1, <2>3, <3>1, <3>3 DEF Scanned
    <3> QED BY <1>1, <2>1, <3>2, <3>3 DEF Scanned, LogInv
  <2>7. LogInv(L)'
    BY <2>1, <2>2, <2>3, <2>4, <2>5, <2>6 DEF LogInv
  <2> QED BY <2>7
<1> QED BY <1>2, <1>3, <1>4, <1>5, <1>6, <1>7

\* A table goes into the index where no newer one has the block.
LEMMA RebuildTableKeeps ==
    ASSUME Inv, RebuildTable
    PROVE  Inv'
<1> USE DEF Inv
<1> DEFINE sst == sstables[restored + 1]
<1>1. /\ engine = "rebuild" /\ engine' = "rebuild" /\ ~Running /\ ~Running'
      /\ restored < Len(sstables) /\ Intact(sst) /\ Restorable(sst.table)
      /\ latest' = Over(sst.table, latest) /\ restored' = restored + 1
      /\ UNCHANGED <<target, writes_stopped, zone, written, tables, sstables, meta_wp,
                     next_sst_seq, fl_pc, fl_gen, fl_page, cursor, acked, past, kept,
                     refused, crashes, errors>>
  BY DEF RebuildTable, Running, deviceVars, logVars, flushVars, history, faults
<1>2. /\ restored \in Nat /\ Len(sstables) \in Nat /\ sstables \in Seq(Table)
      /\ restored + 1 \in 1..Len(sstables)
  BY <1>1, TypeFacts
<1>3. sst \in Table /\ sst.table \in Contents
  <2>1. sst \in Table
    BY <1>2
  <2> QED BY <2>1 DEF Table
<1>4. latest = FoundIn(sstables, restored) /\ latest \in Contents
      /\ \A i \in 1..restored : Intact(sstables[i])
  BY <1>1 DEF StartOK, TypeOK
<1>5. latest' = FoundIn(sstables, restored + 1)
  BY <1>1, <1>2, <1>4, FoundNext
<1>6. TypeOK'
  <2>1. latest' \in Contents
    BY <1>1, <1>3, <1>4, OverFacts
  <2>2. restored' \in 0..Len(sstables')
    BY <1>1, <1>2
  <2> QED BY <1>1, <2>1, <2>2 DEF TypeOK
<1>7. ZoneOK'
  BY <1>1 DEF ZoneOK
<1>8. StartOK'
  <2>1. latest' = FoundIn(sstables, restored)'
    BY <1>1, <1>5 DEF FoundIn
  <2>2. \A i \in 1..restored' : Intact(sstables[i])'
    <3>1. \A x : Intact(x)' = Intact(x)
      BY <1>1, MediaKeeps
    <3>2. \A i \in 1..restored' : Intact(sstables[i])
      BY <1>1, <1>2, <1>4
    <3> QED BY <1>1, <3>1, <3>2 DEF Intact
  <2>3. End(sstables)' = End(sstables)
    BY <1>1 DEF End
  <2> QED BY <1>1, <2>1, <2>2, <2>3 DEF StartOK
<1>9. WriterOK' /\ InstanceOK'
  BY <1>1 DEF WriterOK, InstanceOK, StartOK
<1>10. Valid(latest)'
  <2> DEFINE m == sst.table
  <2>1. Valid(latest) /\ Restorable(m) /\ written' = written /\ latest' = Over(m, latest)
    BY <1>1 DEF HistoryOK
  <2>2. m \in Contents /\ latest \in Contents
    BY <1>3, <1>4
  <2> HIDE DEF m, Inv
  <2> SUFFICES ASSUME NEW b \in LogicalBlocks, latest'[b] # NoData
               PROVE  /\ latest'[b] \in written
                      /\ \A c \in LogicalBlocks \ {b} : latest'[c] # latest'[b]
    BY <2>1 DEF Valid
  <2>3. \A c \in LogicalBlocks : latest'[c] = IF latest[c] # NoData THEN latest[c] ELSE m[c]
    BY <2>1 DEF Over
  <2>4. \A c \in LogicalBlocks : latest[c] = NoData /\ m[c] # NoData =>
           /\ m[c] \in written
           /\ \A e \in LogicalBlocks \ {c} : latest'[e] # m[c]
    BY <2>1 DEF Restorable, Entries
  <2>5. CASE latest[b] = NoData
    BY <2>3, <2>4, <2>5
  <2>6. CASE latest[b] # NoData
    <3>1. latest'[b] = latest[b] /\ latest[b] \in written
      BY <2>1, <2>3, <2>6 DEF Valid
    <3>2. ASSUME NEW c \in LogicalBlocks \ {b} PROVE latest'[c] # latest'[b]
      <4>1. CASE latest[c] # NoData
        BY <2>1, <2>3, <2>6, <3>1, <4>1 DEF Valid
      <4>2. CASE latest[c] = NoData /\ m[c] # NoData
        BY <2>3, <2>4, <3>1, <4>2
      <4>3. CASE latest[c] = NoData /\ m[c] = NoData
        BY <2>3, <2>6, <3>1, <4>3
      <4> QED BY <4>1, <4>2, <4>3
    <3> QED BY <3>1, <3>2
  <2> QED BY <2>5, <2>6
<1>11. HistoryOK'
  <2>1. RefusedOnlyIfTorn'
    BY <1>1, RefusalKeeps, TypeFacts DEF HistoryOK
  <2> QED BY <1>1, <1>10, <2>1 DEF HistoryOK, CleanlyRemovedOpens
<1>12. \E L \in Seq(Table) : LogInv(L)'
  <2>1. PICK L \in Seq(Table) : LogInv(L)
    OBVIOUS
  <2>2. Chained(L)' /\ Mapping(L)' = Mapping(L) /\ End(L)' = End(L) /\ Stored(L)'
        /\ Torn(End(L))' = Torn(End(L))
    BY <1>1, <2>1, MediaKeeps DEF LogInv
  <2>3. Broken(L) => Broken(L)'
    BY <1>1, <2>2 DEF Broken
  <2>4. Whole(L) => Whole(L)'
    BY <1>1, <2>2 DEF Whole
  <2>5. Owed(L)'
    <3>1. Placed(acked)' = Placed(acked)
      BY <1>1 DEF Placed, Apart, Valid
    <3> QED BY <1>1, <2>1, <2>2, <2>3, <3>1 DEF Owed, LogInv
  <2>6. Scanned(L)'
    <3>1. \A x : Intact(x)' = Intact(x)
      BY <1>1, MediaKeeps
    <3> QED BY <1>1, <2>1, <2>3, <3>1 DEF Scanned, LogInv
  <2>7. LogInv(L)'
    BY <2>1, <2>2, <2>3, <2>4, <2>5, <2>6 DEF LogInv
  <2> QED BY <2>7
<1> QED BY <1>6, <1>7, <1>8, <1>9, <1>11, <1>12

\* Every table of a log that is not torn is accepted if the indexes can hold what
\* the requests left: it is what a newer table does not have.
LEMMA AcceptedUnlessTorn ==
    ASSUME Inv, engine = "rebuild", restored < Len(sstables), kept,
           NEW L \in Seq(Table), LogInv(L), ~Broken(L), Valid(acked)
    PROVE  Intact(sstables[restored + 1]) /\ Restorable(sstables[restored + 1].table)
<1> USE DEF Inv
<1>1. sstables \in Seq(Table) /\ restored \in Nat /\ Len(sstables) \in Nat
      /\ restored + 1 \in 1..Len(sstables)
  BY TypeFacts
<1>2. sstables = L
  BY <1>1, ScannedAll DEF LogInv, Scanned
<1>3. Mapping(sstables) = acked
  BY <1>2 DEF LogInv, Owed
<1> DEFINE m == sstables[restored + 1].table
<1>4. Intact(sstables[restored + 1]) /\ Entries(m) \subseteq target
  <2>1. zone[1] = Super(target)
    BY DEF ZoneOK
  <2>2. zone[1].blocks = target
    BY <2>1 DEF Super
  <2> QED BY <1>1, <1>2, <2>2 DEF LogInv, Stored
<1>5. latest = FoundIn(sstables, restored)
  BY DEF StartOK
<1>6. ASSUME NEW c \in LogicalBlocks, latest[c] # NoData PROVE latest[c] = acked[c]
  <2>1. PICK i \in 1..restored : /\ sstables[i].table[c] # NoData
                                 /\ \A j \in 1..restored : sstables[j].table[c] # NoData => i <= j
                                 /\ latest[c] = sstables[i].table[c]
    BY <1>1, <1>5, <1>6, FirstTable
  <2>2. i \in 1..Len(sstables) /\ \A j \in 1 .. i - 1 : j \in 1..restored /\ ~(i <= j)
    BY <1>1
  <2>3. \A j \in 1 .. i - 1 : sstables[j].table[c] = NoData
    BY <2>1, <2>2
  <2> QED BY <1>1, <1>3, <2>1, <2>2, <2>3, FirstTableDecides DEF Mapping
<1>7. ASSUME NEW c \in LogicalBlocks, latest[c] = NoData, m[c] # NoData PROVE m[c] = acked[c]
  <2>1. \A j \in 1..restored : sstables[j].table[c] = NoData
    BY <1>1, <1>5, <1>7, FirstTable
  <2>2. \A j \in 1 .. (restored + 1) - 1 : sstables[j].table[c] = NoData
    BY <1>1, <2>1
  <2> QED BY <1>1, <1>3, <1>7, <2>2, FirstTableDecides DEF Mapping
<1> HIDE DEF m
<1>8. ASSUME NEW b \in Entries(m), latest[b] = NoData
       PROVE  /\ m[b] \in written
              /\ \A c \in LogicalBlocks \ {b} : Over(m, latest)[c] # m[b]
  <2>1. b \in LogicalBlocks /\ m[b] # NoData
    BY DEF Entries
  <2>2. m[b] = acked[b]
    BY <1>7, <1>8, <2>1
  <2>3. m[b] \in written /\ \A c \in LogicalBlocks \ {b} : acked[c] # m[b]
    BY <2>1, <2>2 DEF Valid
  <2>4. ASSUME NEW c \in LogicalBlocks \ {b} PROVE Over(m, latest)[c] # m[b]
    <3>1. Over(m, latest)[c] = IF latest[c] # NoData THEN latest[c] ELSE m[c]
      BY DEF Over
    <3> QED BY <1>6, <1>7, <2>1, <2>3, <3>1
  <2> QED BY <2>3, <2>4
<1>9. Restorable(m)
  BY <1>4, <1>8 DEF Restorable, m
<1> QED BY <1>4, <1>9 DEF m

\* The index cannot be rebuilt, or a creation fails on its way: the log stays.
LEMMA GivenUpKeeps ==
    ASSUME Inv, RebuildRefused \/ AttachFails
    PROVE  Inv'
<1>1. /\ engine \in {"scan", "rebuild"} /\ Forget /\ UNCHANGED <<zone, written, acked,
                                                                 past, kept>>
      /\ kept' \in BOOLEAN /\ refused' \in BOOLEAN /\ fl_pc # "payload"
  BY DEF Inv, TypeOK, StartOK, RebuildRefused, AttachFails, deviceVars, history, Running
<1>2. /\ crashes' \in 0..MaxCrashes /\ errors' \in 0..MaxErrors /\ errors' >= errors
      /\ crashes > 0 \/ errors > 0 => crashes' > 0 \/ errors' > 0
  <2>1. crashes \in Nat /\ errors \in Nat /\ crashes <= MaxCrashes /\ errors <= MaxErrors
        /\ MaxCrashes \in Nat /\ MaxErrors \in Nat
    BY ConstantFacts DEF Inv, TypeOK
  <2>2. crashes' = crashes /\ (errors' = errors \/ (errors' = errors + 1 /\ errors < MaxErrors))
    BY DEF RebuildRefused, AttachFails, faults
  <2> QED BY <2>1, <2>2
<1>3. PICK L \in Seq(Table) : LogInv(L)
  BY DEF Inv
<1>4. ASSUME RebuildRefused, kept PROVE Broken(L) \/ ~Valid(acked)
  BY <1>3, <1>4, AcceptedUnlessTorn DEF RebuildRefused
<1>5. kept' => (Mapping(L) = acked /\ Placed(acked)) \/ Broken(L)
  BY <1>1, <1>3 DEF LogInv, Owed
<1>6. Broken(L) => Torn(End(L)) /\ (crashes' > 0 \/ errors' > 0)
  BY <1>2 DEF Broken
<1>7. /\ zone # <<>> /\ Chained(L) /\ Stored(L) /\ Mapping(L) \in past
      /\ Whole(L) => zone # <<>> /\ End(L) = Len(zone) + 1
      /\ Whole(L) \/ Broken(L)
  BY <1>1, <1>3, LogAtRest
<1>8. ASSUME MaxCrashes = 0, MaxErrors = 0, kept' PROVE ~refused'
  <2>1. crashes = 0 /\ errors = 0
    <3>1. crashes \in 0..0 /\ errors \in 0..0
      BY <1>8 DEF Inv, TypeOK
    <3> QED BY <3>1
  <2>2. kept /\ ~Broken(L) /\ Valid(acked)
    BY <1>1, <1>5, <1>8, <2>1 DEF Broken, Placed
  <2>3. ~RebuildRefused
    BY <1>4, <2>2
  <2>4. ~AttachFails
    BY <1>8, <2>1 DEF AttachFails
  <2> QED BY <2>3, <2>4
<1>9. ASSUME kept', refused'
      PROVE  \/ \E c \in 1..Len(zone) : Torn(c)
             \/ \E b \in LogicalBlocks : acked[b] # NoData /\ acked[b] \notin written
  <2>1. kept
    BY <1>1, <1>9
  <2>2. CASE Broken(L)
    <3>1. End(L) \in 1..Len(zone)
      BY <2>2 DEF Broken, Torn
    <3> QED BY <2>2, <3>1 DEF Broken
  <2>3. CASE RebuildRefused /\ ~Broken(L)
    <3>1. ~Valid(acked) /\ Apart(acked)
      BY <1>1, <1>4, <1>5, <2>1, <2>3 DEF Placed
    <3> QED BY <3>1 DEF Valid, Apart
  <2>4. CASE AttachFails
    BY <1>9, <2>1, <2>4 DEF AttachFails, history, Inv, HistoryOK, RefusedOnlyIfTorn
  <2> QED BY <2>2, <2>3, <2>4
<1> QED BY <1>1, <1>2, <1>3, <1>5, <1>6, <1>7, <1>8, <1>9, ForgetKeeps

\* Every table of the list is in the index, so the list is the log.
LEMMA RebuiltIsLog ==
    ASSUME Inv, engine = "rebuild", restored = Len(sstables),
           NEW L \in Seq(Table), LogInv(L)
    PROVE  sstables = L /\ latest = OnDisk
<1> USE DEF Inv
<1>1. \A i \in 1..Len(sstables) : Intact(sstables[i])
  BY DEF StartOK
<1>2. sstables = L
  BY <1>1, TypeFacts, ScannedAll DEF LogInv, Scanned
<1>3. latest = OnDisk
  BY OnDiskIsMapping DEF StartOK, Mapping
<1> QED BY <1>2, <1>3

\* Without memtables every stage is what the SSTables have.
LEMMA StagesWithoutTables ==
    TypeOK /\ tables = NoTables => Newest = OnDisk /\ \A g \in 1..4 : Stage(g) = OnDisk
<1> SUFFICES ASSUME TypeOK, tables = NoTables
             PROVE  Newest = OnDisk /\ \A g \in 1..4 : Stage(g) = OnDisk
  OBVIOUS
<1>1. OnDisk \in Contents /\ Over(OnDisk, Empty) = OnDisk
  BY TypeFacts, OverFacts
<1>2. tables["flushing"] = Empty /\ tables["immutable"] = Empty /\ tables["active"] = Empty
  BY DEF NoTables
<1>3. \A g \in 1..4 : Stage(g) = OnDisk
  BY <1>1, <1>2 DEF Stage
<1>4. Newest = Stage(4) /\ 4 \in 1..4
  BY StageFacts
<1> QED BY <1>3, <1>4

\* The target is created with the mapping the log has.
LEMMA AttachedKeeps ==
    ASSUME Inv, Attached
    PROVE  Inv'
<1> USE DEF Inv
<1>1. /\ engine = "rebuild" /\ engine' = "up" /\ ~Running /\ Running'
      /\ restored = Len(sstables) /\ acked' = (IF kept THEN acked ELSE OnDisk)
      /\ ~kept' /\ ~refused' /\ kept' \in BOOLEAN /\ refused' \in BOOLEAN
      /\ UNCHANGED <<target, writes_stopped, zone, written, tables, sstables, meta_wp,
                     next_sst_seq, fl_pc, fl_gen, fl_page, cursor, latest, restored,
                     past, crashes, errors>>
  BY DEF Attached, Running, deviceVars, logVars, flushVars, recoveryVars, faults
<1>2. PICK L \in Seq(Table) : LogInv(L)
  OBVIOUS
<1>3. sstables = L /\ latest = OnDisk
  BY <1>1, <1>2, RebuiltIsLog
<1>4. /\ fl_pc = "idle" /\ fl_gen = 1 /\ tables = NoTables /\ meta_wp = Len(zone) + 1
      /\ cursor = End(sstables) /\ cursor <= meta_wp /\ next_sst_seq < cursor
      /\ \A i \in 1..Len(sstables) : sstables[i].seq < next_sst_seq
      /\ Valid(latest)
  BY <1>1 DEF StartOK, WriterOK, InstanceOK, HistoryOK
<1>5. Mapping(L) = OnDisk /\ OnDisk \in past /\ OnDisk \in Contents
  BY <1>2, <1>3, OnDiskIsMapping, TypeFacts DEF LogInv, Owed
<1>6. TypeOK'
  BY <1>1, <1>5 DEF TypeOK
<1>7. /\ OnDisk' = OnDisk /\ Newest' = OnDisk /\ Stage(fl_gen)' = OnDisk
      /\ \A g \in 1..4 : Stage(g)' = OnDisk
  <2>1. Newest = OnDisk /\ \A g \in 1..4 : Stage(g) = OnDisk
    BY <1>4, StagesWithoutTables
  <2>2. OnDisk' = OnDisk /\ Newest' = Newest /\ \A g : Stage(g)' = Stage(g)
    BY <1>1, StageKeeps
  <2>3. Stage(fl_gen)' = Stage(1)'
    BY <1>1, <1>4 DEF Stage
  <2>4. 1 \in 1..4
    OBVIOUS
  <2> QED BY <2>1, <2>2, <2>3, <2>4
<1>8. ZoneOK' /\ StartOK'
  BY <1>1 DEF ZoneOK, StartOK
<1>9. WriterOK'
  BY <1>1, <1>4 DEF WriterOK
<1>10. InstanceOK'
  <2>1. next_sst_seq < meta_wp
    BY <1>4, TypeFacts
  <2>2. SequencesGrow'
    BY <1>1, <1>2, <1>3 DEF SequencesGrow, LogInv, Chained
  <2>3. \A g \in {"flushing", "immutable", "active"} : Entries(tables'[g]) \subseteq target'
    BY <1>1, <1>4 DEF NoTables, Empty, Entries
  <2> QED BY <1>1, <1>4, <2>1, <2>2, <2>3 DEF InstanceOK
<1>11. HistoryOK'
  <2>1. Placed(Newest)' /\ Valid(Newest)'
    BY <1>1, <1>3, <1>4, <1>7 DEF Placed, Apart, Valid
  <2>2. \A g \in 1..4 : Stage(g)' \in past'
    BY <1>1, <1>5, <1>7
  <2> QED BY <1>1, <2>1, <2>2 DEF HistoryOK, CleanlyRemovedOpens, RefusedOnlyIfTorn
<1>12. LogInv(L)'
  <2>1. Chained(L)' /\ Mapping(L)' = Mapping(L) /\ End(L)' = End(L) /\ Stored(L)'
        /\ Torn(End(L))' = Torn(End(L))
    BY <1>1, <1>2, MediaKeeps DEF LogInv
  <2>2. Broken(L) => Broken(L)'
    BY <1>1, <2>1 DEF Broken
  <2>3. Whole(L) => Whole(L)'
    BY <1>1, <1>3, <1>4, <1>5, <1>7, <2>1 DEF Whole
  <2>4. Scanned(L)'
    BY <1>1 DEF Scanned
  <2>5. Owed(L)'
    <3>1. kept => Mapping(L) = acked \/ Broken(L)
      BY <1>2 DEF LogInv, Owed
    <3>2. Newest' = acked' \/ (cursor' = End(L) /\ Broken(L))
      BY <1>1, <1>3, <1>4, <1>5, <1>7, <3>1
    <3> QED BY <1>1, <1>5, <2>1, <2>2, <3>2 DEF Owed
  <2> QED BY <1>2, <2>1, <2>2, <2>3, <2>4, <2>5 DEF LogInv
<1> QED BY <1>2, <1>6, <1>8, <1>9, <1>10, <1>11, <1>12

(***************************************************************************)
(* Theorems                                                                *)
(***************************************************************************)
\* A device with an empty metadata zone satisfies the invariant.
LEMMA InitInv == Init => Inv
<1> SUFFICES ASSUME Init PROVE Inv
  OBVIOUS
<1> USE DEF Init
<1>1. ~Running /\ engine = "down"
  BY DEF Running
<1>2. TypeOK
  <2>1. /\ Empty \in Contents /\ NoTables \in [{"flushing", "immutable", "active"} -> Contents]
        /\ MetaEnd \in Nat /\ MaxCrashes \in Nat /\ MaxErrors \in Nat
    BY ConstantFacts
  <2>2. /\ <<>> \in Seq(Block) /\ Len(<<>>) = 0
        /\ <<>> \in Seq([start : 2..MetaEnd, table : Contents, seq : 1..MetaEnd])
    OBVIOUS
  <2>3. /\ 0 <= MetaEnd /\ 1 \in 1 .. MetaEnd + 1 /\ 0 \in 0..MetaEnd /\ 1 \in 1..4
        /\ 2 \in 2 .. MetaEnd + 1 /\ 0 \in 0..0 /\ 0 \in 0..MaxCrashes /\ 0 \in 0..MaxErrors
    BY ConstantFacts
  <2> QED BY <2>1, <2>2, <2>3 DEF TypeOK
<1>3. ZoneOK
  BY DEF ZoneOK
<1>4. StartOK
  BY <1>1 DEF StartOK
<1>5. WriterOK /\ InstanceOK
  BY <1>1 DEF WriterOK, InstanceOK
<1>6. Valid(Empty)
  BY DEF Valid, Empty
<1>7. HistoryOK
  BY <1>1, <1>6 DEF HistoryOK, CleanlyRemovedOpens, RefusedOnlyIfTorn
<1>8. LogInv(<<>>) /\ <<>> \in Seq(Table)
  <2>1. Len(<<>>) = 0 /\ <<>> \in Seq(Table) /\ \A i \in 1..0 : FALSE
    OBVIOUS
  <2>2. Chained(<<>>) /\ Stored(<<>>)
    BY <2>1 DEF Chained, Stored
  <2>3. Whole(<<>>) /\ Scanned(<<>>)
    BY <1>1 DEF Whole, Scanned
  <2>4. Mapping(<<>>) = Empty
    BY <2>1, FoundNothing DEF Mapping
  <2>5. Owed(<<>>)
    BY <1>1, <1>6, <2>4 DEF Owed, Placed, Apart, Empty
  <2> QED BY <2>1, <2>2, <2>3, <2>5 DEF LogInv
<1> QED BY <1>2, <1>3, <1>4, <1>5, <1>7, <1>8 DEF Inv

\* A step that changes nothing keeps it.
LEMMA StutterInv ==
    ASSUME Inv, UNCHANGED vars
    PROVE  Inv'
<1> USE DEF Inv
<1>1. UNCHANGED <<zone, written, target, writes_stopped, engine, tables, sstables,
                  meta_wp, next_sst_seq, fl_pc, fl_gen, fl_page, cursor, latest,
                  restored, acked, past, kept, refused, crashes, errors>>
  BY DEF vars, deviceVars, logVars, flushVars, recoveryVars, history, faults
<1>2. Running' = Running
  BY <1>1 DEF Running
<1>3. /\ OnDisk' = OnDisk /\ Newest' = Newest /\ Stage(fl_gen)' = Stage(fl_gen)
      /\ \A g : Stage(g)' = Stage(g)
  BY <1>1, StageKeeps DEF Stage
<1>4. TypeOK' /\ ZoneOK'
  BY <1>1 DEF TypeOK, ZoneOK
<1>5. StartOK'
  BY <1>1, <1>2 DEF StartOK, End, FoundIn, Intact
<1>6. WriterOK' /\ InstanceOK'
  BY <1>1, <1>2 DEF WriterOK, InstanceOK, SequencesGrow, Entries, Victim
<1>7. HistoryOK'
  <2>1. RefusedOnlyIfTorn'
    BY <1>1, RefusalKeeps, TypeFacts DEF HistoryOK
  <2> QED BY <1>1, <1>2, <1>3, <2>1 DEF HistoryOK, CleanlyRemovedOpens, Placed, Apart, Valid
<1>8. \E L \in Seq(Table) : LogInv(L)'
  <2>1. PICK L \in Seq(Table) : LogInv(L)
    OBVIOUS
  <2>2. Chained(L)' /\ Mapping(L)' = Mapping(L) /\ End(L)' = End(L) /\ Stored(L)'
        /\ Torn(End(L))' = Torn(End(L)) /\ \A x : Intact(x)' = Intact(x)
    BY <1>1, <2>1, MediaKeeps DEF LogInv
  <2>3. Broken(L)' = Broken(L)
    BY <1>1, <2>2 DEF Broken
  <2>4. Whole(L) => Whole(L)'
    BY <1>1, <1>2, <1>3, <2>2 DEF Whole
  <2>5. Scanned(L)'
    BY <1>1, <2>1, <2>2, <2>3 DEF Scanned, LogInv
  <2>6. Owed(L)'
    BY <1>1, <1>2, <1>3, <2>1, <2>2, <2>3 DEF Owed, LogInv, Placed, Apart, Valid
  <2>7. LogInv(L)'
    BY <2>1, <2>2, <2>3, <2>4, <2>5, <2>6 DEF LogInv
  <2> QED BY <2>7
<1> QED BY <1>4, <1>5, <1>6, <1>7, <1>8

\* Every step keeps it.
LEMMA NextInv == Inv /\ [Next]_vars => Inv'
<1> SUFFICES ASSUME Inv, [Next]_vars PROVE Inv'
  OBVIOUS
<1>1. ASSUME NEW b \in LogicalBlocks, NEW p \in PhysicalSectors,
             PublishWrite(b, p) \/ PublishRefused(b, p)
      PROVE  Inv'
  BY <1>1, PublishKeeps
<1>2. ASSUME NEW p \in PhysicalSectors, ResetZone(p) PROVE Inv'
  BY <1>2, ResetZoneKeeps
<1>3. CASE ClaimFlushVictim
  BY <1>3, ClaimKeeps
<1>4. CASE WriteHeader \/ WritePage
  BY <1>4, WriteKeeps
<1>5. CASE TableWritten
  BY <1>5, TableWrittenKeeps
<1>6. CASE FlushFails
  BY <1>6, FlushFailsKeeps
<1>7. CASE FlushAllSync \/ NextGeneration
  BY <1>7, LastFlushKeeps
<1>8. CASE Exited
  BY <1>8, ExitedKeeps
<1>9. CASE LastFlushStops \/ Crash
  BY <1>9, CutShortKeeps
<1>10. CASE LoadSstable
  BY <1>10, LoadSstableKeeps
<1>11. CASE EndScan
  BY <1>11, EndScanKeeps
<1>12. CASE RebuildTable
  BY <1>12, RebuildTableKeeps
<1>13. CASE RebuildRefused \/ AttachFails
  BY <1>13, GivenUpKeeps
<1>14. CASE Attached
  BY <1>14, AttachedKeeps
<1>15. CASE Detach
  BY <1>15, DetachKeeps
<1>16. ASSUME NEW T \in Targets, OpenMetadata(T) PROVE Inv'
  BY <1>16, OpenMetadataKeeps
<1>17. CASE OpenMetadataFails
  BY <1>17, OpenMetadataFailsKeeps
<1>18. CASE UNCHANGED vars
  BY <1>18, StutterInv
<1> QED BY <1>1, <1>2, <1>3, <1>4, <1>5, <1>6, <1>7, <1>8, <1>9, <1>10, <1>11, <1>12, <1>13,
           <1>14, <1>15, <1>16, <1>17, <1>18
        DEF Next, Continue, Serialize, Exit, Attach

\* In every state the zone holds a log: complete tables back to back from the
\* superblock on, up to the write pointer or to a table a fault has torn.
THEOREM InvHolds == Spec => []Inv
<1>1. Init => Inv
  BY InitInv
<1>2. Inv /\ [Next]_vars => Inv'
  BY NextInv
<1> QED BY <1>1, <1>2, PTL DEF Spec

\* Every variable has its type and the metadata zone is never overrun, with any
\* crashes and errors: zns_sst_write() refuses a table that does not fit.
THEOREM TypeCorrect == Spec => []TypeOK
<1>1. Inv => TypeOK
  BY DEF Inv
<1> QED BY <1>1, InvHolds, PTL

\* The index zns_lsm_gc_rebuild() leaves is the mapping the lookups find.
THEOREM RebuildAgrees == Spec => []RebuiltAgrees
<1>1. Inv => RebuiltAgrees
  <2> SUFFICES ASSUME Inv, engine = "rebuild", restored = Len(sstables) PROVE latest = OnDisk
    BY DEF RebuiltAgrees
  <2>1. PICK L \in Seq(Table) : LogInv(L)
    BY DEF Inv
  <2> QED BY <2>1, RebuiltIsLog
<1> QED BY <1>1, InvHolds, PTL

\* Whatever crashes and errors there were, a created target finds a mapping there
\* once was: zns_lsm_flush_all_sync() writes oldest first and stops at a failure.
THEOREM PastRecovered == Spec => []RecoversThePast
<1>1. Inv => RecoversThePast
  <2> SUFFICES ASSUME Inv, engine = "up" PROVE Newest \in past
    BY DEF RecoversThePast
  <2>1. Running /\ 4 \in 1..4
    BY DEF Running
  <2>2. Stage(4) \in past
    BY <2>1 DEF Inv, HistoryOK
  <2> QED BY <2>2, NewestIsStaged DEF Inv
<1> QED BY <1>1, InvHolds, PTL

\* A mapping that a completed removal had written is missing only when the scan of
\* zns_lsm_recover_sstables() stopped at a torn table before it.
THEOREM LossOnlyBehindTorn == Spec => []LostOnlyBehindTorn
<1>1. Inv => LostOnlyBehindTorn
  <2> SUFFICES ASSUME Inv, engine = "up", Newest # acked PROVE cursor < meta_wp /\ Torn(cursor)
    BY DEF LostOnlyBehindTorn
  <2>1. PICK L \in Seq(Table) : LogInv(L)
    BY DEF Inv
  <2>2. Running /\ engine # "down"
    BY DEF Running
  <2>3. cursor = End(L) /\ Broken(L)
    BY <2>1, <2>2 DEF LogInv, Owed
  <2> QED BY <2>2, <2>3 DEF Broken
<1> QED BY <1>1, InvHolds, PTL

\* With any crashes, errors and resets, zns_lsm_gc_rebuild() refuses a log that a
\* completed removal left only if a table in it is torn or a mapping in it is one
\* the indexes had refused before.
THEOREM RefusalsExplained == Spec => []RefusedOnlyIfTorn
<1>1. Inv => RefusedOnlyIfTorn
  BY DEF Inv, HistoryOK
<1> QED BY <1>1, InvHolds, PTL

\* Without a crash or an error no table is torn.
LEMMA WholeWithoutFaults ==
    ASSUME MaxCrashes = 0, MaxErrors = 0, Inv, NEW L \in Seq(Table), LogInv(L)
    PROVE  ~Broken(L)
<1>1. crashes \in 0..0 /\ errors \in 0..0
  BY DEF Inv, TypeOK
<1>2. crashes = 0 /\ errors = 0
  BY <1>1
<1> QED BY <1>2 DEF Broken

\* "Mappings must survive a restart": without a crash or an error every lookup of
\* a running target finds what the requests left, however often it was removed and
\* created and even where the metadata zone filled up.
THEOREM MappingsSurvive ==
    ASSUME MaxCrashes = 0, MaxErrors = 0
    PROVE  Spec => []MappingSurvives
<1>1. Inv => MappingSurvives
  <2> SUFFICES ASSUME Inv, engine = "up" PROVE Newest = acked
    BY DEF MappingSurvives
  <2>1. PICK L \in Seq(Table) : LogInv(L)
    BY DEF Inv
  <2>2. ~Broken(L)
    BY <2>1, WholeWithoutFaults
  <2> QED BY <2>1, <2>2 DEF LogInv, Owed, Running
<1> QED BY <1>1, InvHolds, PTL

\* Without a crash or an error a target whose removal wrote everything is created
\* again: zns_lsm_gc_restore_entry() accepts every entry of the log.
THEOREM CleanRemovalOpens ==
    ASSUME MaxCrashes = 0, MaxErrors = 0
    PROVE  Spec => []CleanlyRemovedOpens
<1>1. Inv => CleanlyRemovedOpens
  BY DEF Inv, HistoryOK
<1> QED BY <1>1, InvHolds, PTL

\* The sequence numbers of a running target's SSTables grow, with any crashes and
\* errors before it: the scan raises next_sst_seq above every table it adopts.
THEOREM RunningSequencesGrow == Spec => [](Running => SequencesGrow)
<1>1. Inv => (Running => SequencesGrow)
  BY DEF Inv, InstanceOK
<1> QED BY <1>1, InvHolds, PTL

\* Without a crash or an error they grow during the scan, too.
THEOREM SequencesAlwaysGrow ==
    ASSUME MaxCrashes = 0, MaxErrors = 0
    PROVE  Spec => []SequencesGrow
<1>1. Inv => SequencesGrow
  <2> SUFFICES ASSUME Inv PROVE SequencesGrow
    OBVIOUS
  <2>1. PICK L \in Seq(Table) : LogInv(L)
    BY DEF Inv
  <2>2. CASE Running
    BY <2>2 DEF Inv, InstanceOK
  <2>3. CASE engine = "down"
    <3>1. sstables = <<>>
      BY <2>3 DEF Inv, StartOK
    <3>2. \A i \in 1..Len(sstables) : FALSE
      BY <3>1
    <3> QED BY <3>2 DEF SequencesGrow
  <2>4. CASE engine \in {"scan", "rebuild"}
    <3>1. /\ Len(sstables) <= Len(L) /\ Len(sstables) \in Nat /\ Len(L) \in Nat
          /\ \A i \in 1..Len(sstables) : sstables[i] = L[Len(L) - Len(sstables) + i]
      BY <2>1, <2>4, WholeWithoutFaults, TypeFacts DEF LogInv, Scanned, Inv
    <3> SUFFICES ASSUME NEW i \in 1..Len(sstables), NEW j \in 1..Len(sstables), i < j
                 PROVE  sstables[j].seq < sstables[i].seq
      BY DEF SequencesGrow
    <3> DEFINE d == Len(L) - Len(sstables)
    <3>2. d + i \in 1..Len(L) /\ d + j \in 1..Len(L) /\ d + i < d + j
      BY <3>1
    <3>3. sstables[i] = L[d + i] /\ sstables[j] = L[d + j]
      BY <3>1
    <3> HIDE DEF d
    <3> QED BY <2>1, <3>2, <3>3 DEF LogInv, Chained
  <2> QED BY <2>2, <2>3, <2>4 DEF Inv, TypeOK, Running
<1> QED BY <1>1, InvHolds, PTL
\* The list of a running target is what a lookup trusts: each of its tables is on
\* the media with all of its payload.
ListStored == Running => Stored(sstables)

\* Every step keeps it: the rebuild has compared what the scan adopted, and a table
\* joins the list when its last block is written.
LEMMA ListStoredKeeps ==
    ASSUME Inv, Inv', ListStored, [Next]_vars
    PROVE  ListStored'
<1> SUFFICES ASSUME Running' PROVE Stored(sstables)'
  BY DEF ListStored
<1>1. sstables \in Seq(Table) /\ zone \in Seq(Block)
  BY TypeFacts DEF Inv
<1>2. PICK L \in Seq(Table) : L = sstables
  BY <1>1
<1>3. CASE /\ Running /\ sstables' = sstables
           /\ zone' = zone \/ \E x : zone' = Append(zone, x)
  <2>1. Stored(L) /\ zone # <<>>
    BY <1>2, <1>3 DEF ListStored, Inv, ZoneOK, Running
  <2>2. Stored(L)'
    <3>1. CASE zone' = zone
      BY <2>1, <3>1, MediaKeeps
    <3>2. ASSUME NEW x, zone' = Append(zone, x) PROVE Stored(L)'
      BY <1>1, <2>1, <3>2, StoredKeeps
    <3> QED BY <1>3, <3>1, <3>2
  <2>3. L = sstables'
    BY <1>2, <1>3
  <2> QED BY <2>2, <2>3 DEF Stored, Intact
<1>4. CASE TableWritten /\ engine # "exit"
  <2>1. /\ fl_pc = "payload" /\ fl_page + 1 = NrBlocks(Victim)
        /\ sstables' = <<InProgress>> \o sstables /\ zone' = zone
    BY <1>4 DEF TableWritten, InProgress, deviceVars
  <2>2. /\ Running /\ InProgress \in Table /\ InProgress.start = meta_wp /\ fl_gen \in 1..3
        /\ InProgress.table = Victim /\ InProgress.seq = next_sst_seq
        /\ meta_wp + NrBlocks(Victim) = Len(zone) + 1
    BY <2>1, InProgressFacts
  <2>3. /\ zone[meta_wp] = Header(Victim, next_sst_seq)
        /\ \A k \in 1..fl_page : zone[meta_wp + k] = Payload(Victim, k)
    BY <2>1 DEF Inv, WriterOK
  <2>4. Intact(InProgress)
    <3>1. fl_page = NrBlocks(Victim) - 1
      BY <2>1, NrBlocksFacts, TypeFacts DEF Inv
    <3> QED BY <2>2, <2>3, <3>1 DEF Intact
  <2>5. Entries(Victim) \subseteq zone[1].blocks
    <3>1. zone[1].blocks = target
      BY <2>2 DEF Inv, ZoneOK, Running, Super
    <3>2. Generations[fl_gen] \in {"flushing", "immutable", "active"}
      BY <2>2 DEF Generations
    <3> QED BY <2>2, <3>1, <3>2 DEF Inv, InstanceOK, Victim
  <2>6. InProgress.start + NrBlocks(InProgress.table) <= Len(zone) + 1
    BY <1>1, <2>2
  <2>7. Stored(L)
    BY <1>2, <2>2 DEF ListStored
  <2>8. Stored(<<InProgress>> \o L)
    BY <2>2, <2>3, <2>4, <2>5, <2>6, <2>7, StoredCons
  <2>9. PICK M : M = <<InProgress>> \o L
    OBVIOUS
  <2>10. Stored(M)'
    BY <2>1, <2>8, <2>9, MediaKeeps
  <2>11. M = sstables'
    BY <1>2, <2>1, <2>9
  <2> QED BY <2>10, <2>11 DEF Stored, Intact
<1>5. CASE Attached
  <2>1. PICK N \in Seq(Table) : LogInv(N)
    BY DEF Inv
  <2>2. sstables = N /\ sstables' = sstables /\ zone' = zone
    BY <1>5, <2>1, RebuiltIsLog DEF Attached, logVars, deviceVars
  <2>3. Stored(N)'
    BY <2>1, <2>2, MediaKeeps DEF LogInv
  <2>4. N = sstables'
    BY <2>2
  <2> QED BY <2>3, <2>4 DEF Stored, Intact
<1>6. \/ Running /\ sstables' = sstables /\ (zone' = zone \/ \E x : zone' = Append(zone, x))
      \/ TableWritten /\ engine # "exit"
      \/ Attached
      \/ ~Running'
  <2>1. ~Running => fl_pc = "idle"
    BY DEF Inv, StartOK
  <2>2. CASE \E b \in LogicalBlocks, p \in PhysicalSectors :
                PublishWrite(b, p) \/ PublishRefused(b, p)
    BY <2>2 DEF PublishWrite, PublishRefused, Put, logVars, Running
  <2>3. CASE \E p \in PhysicalSectors : ResetZone(p)
    BY <2>3 DEF ResetZone, logVars, Running
  <2>4. CASE ClaimFlushVictim \/ FlushFails
    BY <2>1, <2>4 DEF ClaimFlushVictim, FlushFails, WriteFails, logVars, deviceVars
  <2>5. CASE Serialize
    BY <2>1, <2>5 DEF Serialize, WriteHeader, WritePage, TableWritten, logVars, deviceVars
  <2>6. CASE FlushAllSync \/ NextGeneration \/ Detach
    BY <2>1, <2>6 DEF FlushAllSync, NextGeneration, Detach, logVars, deviceVars, Running
  <2>7. CASE Exited \/ LastFlushStops \/ Crash \/ RebuildRefused \/ AttachFails
    BY <2>7 DEF Exited, LastFlushStops, Crash, RebuildRefused, AttachFails, Forget, Running
  <2>8. CASE LoadSstable \/ EndScan \/ RebuildTable \/ OpenMetadataFails
    BY <2>8 DEF LoadSstable, EndScan, RebuildTable, OpenMetadataFails, Running
  <2>9. CASE \E T \in Targets : OpenMetadata(T)
    BY <2>9 DEF OpenMetadata, Running
  <2>10. CASE UNCHANGED vars
    BY <2>10 DEF vars, deviceVars, logVars, Running
  <2> QED BY <2>2, <2>3, <2>4, <2>5, <2>6, <2>7, <2>8, <2>9, <2>10
          DEF Next, Continue, Exit, Attach
<1> QED BY <1>3, <1>4, <1>5, <1>6

\* With any crashes and errors before it, a running target has no torn table in its
\* list, although zns_sst_load() adopts one that a retry wrote over: the CRC that
\* zns_lsm_gc_rebuild() checks stands between the scan and the first lookup.
THEOREM NoTornTableAdopted == Spec => []AdoptedIsWhole
<1>1. Init => ListStored
  BY DEF Init, ListStored, Running
<1>2. Inv /\ Inv' /\ ListStored /\ [Next]_vars => ListStored'
  BY ListStoredKeeps
<1>3. ListStored => AdoptedIsWhole
  BY DEF ListStored, AdoptedIsWhole, Stored, Running
<1> QED BY <1>1, <1>2, <1>3, InvHolds, PTL DEF Spec
=============================================================================
