-------------------------- MODULE SstSearchProofs --------------------------
(***************************************************************************)
(* Theorems about SstSearch, for any number of blocks, of entries to a     *)
(* payload block and of tables: the tables tile the metadata zone, the two *)
(* searches never discard the entry they look for, a lookup answers with   *)
(* the newest table that has the block, and no turn of a loop is wasted.   *)
(***************************************************************************)
EXTENDS SstSearch, LeastNumber, FiniteSetTheorems, TLAPS

(***************************************************************************)
(* The inductive invariant                                                 *)
(***************************************************************************)
\* The entries of the table s, by payload block and slot, without the padding.
Slot(s, b, i) ==
    /\ b \in 0 .. s.nr_blocks - 2
    /\ i \in 1 .. EntriesPerBlock
    /\ i <= EntriesInBlock(s.nr_entries, b)

At(s, b, i) == media[s.start + b + 1].payload[i]

Holds(s, k) ==
    \E b \in 0 .. s.nr_blocks - 2, i \in 1 .. EntriesPerBlock :
        Slot(s, b, i) /\ At(s, b, i).logical_block = k

\* The order of the walk over the tree.
Before(b, i, c, j) == b < c \/ (b = c /\ i < j)

\* Where the tables of the list end.
EndOfTables == IF pc = "emit" THEN index.start ELSE Len(media) + 1

\* What a header claims of its table fits together.
Claims(s) == s.nr_entries # 0 /\ s.nr_blocks = NrBlocks(s.nr_entries)

Placed(t) ==
    /\ Claims(sstables[t])
    /\ 1 <= sstables[t].start
    /\ sstables[t].start + sstables[t].nr_blocks <= EndOfTables

\* The entries of a table are its own, within its bounds and in order.
Sorted(t) ==
    LET s == sstables[t]
    IN  \A b, i \in Nat : Slot(s, b, i) =>
           /\ At(s, b, i).logical_block \in s.min_key .. s.max_key
           /\ At(s, b, i).physical_sector =
                 <<Len(sstables) + 1 - t, At(s, b, i).logical_block>>
           /\ \A c, j \in Nat : Slot(s, c, j) /\ Before(b, i, c, j) =>
                 At(s, b, i).logical_block < At(s, c, j).logical_block

TablesOK == \A t \in 1 .. Len(sstables) : Placed(t) /\ Sorted(t)

\* The entries the writer has packed so far, on the media and in its buffer.
Written == Len(media) - index.start

Packed(b, i) ==
    /\ b \in 0 .. Written
    /\ i \in 1 .. (IF b = Written THEN nr_in_block ELSE EntriesPerBlock)

New(b, i) == IF b = Written THEN block[i] ELSE At(index, b, i)

\* The table being written is in order as far as it goes, and what the walk has
\* still to yield comes behind it and is as much as the header counted.
WriterOK ==
    pc = "emit" =>
        /\ index \in Index
        /\ Claims(index)
        /\ Number <= MaxTables
        /\ index.start \in 1 .. Len(media)
        /\ media[index.start].header = index
        /\ Written * EntriesPerBlock + nr_in_block + Cardinality(nodes) = index.nr_entries
        /\ nodes \subseteq index.min_key .. index.max_key
        /\ \A b, i \in Nat : Packed(b, i) =>
              /\ New(b, i).logical_block \in index.min_key .. index.max_key
              /\ New(b, i).physical_sector = <<Number, New(b, i).logical_block>>
              /\ \A k \in nodes : New(b, i).logical_block < k
              /\ \A c, j \in Nat : Packed(c, j) /\ Before(b, i, c, j) =>
                    New(b, i).logical_block < New(c, j).logical_block

\* The mapping the tables make: that of the table being written, which history
\* counts from its header on, and else that of the first of the list.
Pending(k) ==
    /\ pc = "emit"
    /\ \/ k \in nodes
       \/ \E b, i \in Nat : Packed(b, i) /\ New(b, i).logical_block = k

FirstHolds(t, k) ==
    /\ Holds(sstables[t], k)
    /\ \A u \in 1 .. Len(sstables) : u < t => ~Holds(sstables[u], k)

FromList(k) ==
    \/ /\ newest[k] = None
       /\ \A t \in 1 .. Len(sstables) : ~Holds(sstables[t], k)
    \/ \E t \in 1 .. Len(sstables) :
          FirstHolds(t, k) /\ newest[k] = <<Len(sstables) + 1 - t, k>>

NewestOK ==
    \A k \in Keys : IF Pending(k) THEN newest[k] = <<Number, k>> ELSE FromList(k)

\* A search has passed only tables without the block, and its buffer holds what
\* cached says.
Searching == pc \in {"table", "blocks", "entries"}

SearchOK ==
    /\ Searching => \A t \in 1 .. Len(sstables) : t < at => ~Holds(sstables[t], key)
    /\ Searching => at <= Len(sstables) + 1
    /\ pc \in {"blocks", "entries"} => at <= Len(sstables)
    /\ pc = "blocks" => \/ cached = None
                        \/ cached \in 0 .. Sst.nr_blocks - 2 /\ block = PayloadBlock(cached)
    /\ pc = "entries" => /\ cached \in 0 .. Sst.nr_blocks - 2
                         /\ block = PayloadBlock(cached)
                         /\ high <= EntriesInBlock(Sst.nr_entries, cached)

Inv ==
    /\ TypeOK
    /\ TablesTile
    /\ TablesOK
    /\ WriterOK
    /\ NewestOK
    /\ SearchOK
    /\ NeverNarrowedAway
    /\ FindsNewest

(***************************************************************************)
(* The arithmetic of the layout                                            *)
(***************************************************************************)
\* The constants are what the code takes them for.
LEMMA ConstantFacts ==
    /\ EntriesPerBlock \in Nat /\ EntriesPerBlock >= 1
    /\ MaxKey \in Nat /\ MaxTables \in Nat
    /\ None \notin Nat /\ \A n, k \in Nat : None # <<n, k>>
    /\ \A k \in Keys : k \in Nat
    /\ 0 \in Keys
BY SearchAssumption DEF Keys

\* q whole blocks and r entries more.
LEMMA DivRest ==
    ASSUME NEW e \in Nat \ {0}, NEW q \in Nat, NEW r \in Nat, r < e
    PROVE  (q * e + r) \div e = q
<1> DEFINE n == q * e + r
           d == n \div e
<1>1. n \in Nat /\ d \in Nat
  OBVIOUS
<1>2. e * d <= n /\ n < e * d + e
  <2> HIDE DEF n
  <2>1. n % e = n - e * d
    BY <1>1
  <2>2. n % e \in Nat /\ n % e < e
    BY <1>1
  <2>3. e * d \in Nat
    BY <1>1
  <2> HIDE DEF d
  <2> QED BY <1>1, <2>1, <2>2, <2>3
<1>4. e * (d - q) <= r /\ -e < e * (d - q)
  <2>1. e * d = e * (d - q) + q * e
    <3> HIDE DEF n, d
    <3> QED BY <1>1
  <2> HIDE DEF d
  <2> QED BY <1>1, <1>2, <2>1 DEF n
<1>5. ~(d < q)
  <2> SUFFICES ASSUME d < q PROVE FALSE
    OBVIOUS
  <2> HIDE DEF n, d
  <2>1. d - q <= -1 /\ d - q \in Int
    BY <1>1
  <2>2. e * (d - q) <= e * (-1)
    BY <2>1
  <2> QED BY <1>4, <2>1, <2>2
<1>6. ~(d > q)
  <2> SUFFICES ASSUME d > q PROVE FALSE
    OBVIOUS
  <2> HIDE DEF n, d
  <2>1. d - q >= 1 /\ d - q \in Int
    BY <1>1
  <2>2. e * (d - q) >= e
    BY <2>1
  <2> QED BY <1>4, <2>1, <2>2
<1>7. d = q
  <2> HIDE DEF d
  <2> QED BY <1>1, <1>5, <1>6
<1> QED BY <1>7

\* zns_sst_nr_blocks() counts the header, the full blocks and the padded one.
LEMMA CountBlocks ==
    ASSUME NEW q \in Nat, NEW r \in Nat, r < EntriesPerBlock
    PROVE  NrBlocks(q * EntriesPerBlock + r) = q + (IF r = 0 THEN 1 ELSE 2)
<1> DEFINE e == EntriesPerBlock
<1>0. e \in Nat \ {0}
  BY ConstantFacts
<1>1. CASE r = 0
  <2>1. NrBlocks(q * e + r) = 1 + (q * e + (e - 1)) \div e
    BY <1>0, <1>1 DEF NrBlocks
  <2>2. e - 1 \in Nat /\ e - 1 < e
    BY <1>0
  <2>3. (q * e + (e - 1)) \div e = q
    <3> HIDE DEF e
    <3> QED BY <1>0, <2>2, DivRest
  <2> QED BY <1>1, <2>1, <2>3
<1>2. CASE r # 0
  <2>1. q * e + r + e - 1 = (q + 1) * e + (r - 1)
    <3> HIDE DEF e
    <3> QED BY <1>0
  <2>2. NrBlocks(q * e + r) = 1 + ((q + 1) * e + (r - 1)) \div e
    BY <2>1 DEF NrBlocks
  <2>3. r - 1 \in Nat /\ r - 1 < e /\ q + 1 \in Nat
    BY <1>0, <1>2
  <2>4. ((q + 1) * e + (r - 1)) \div e = q + 1
    <3> HIDE DEF e
    <3> QED BY <1>0, <2>3, DivRest
  <2> QED BY <1>2, <2>2, <2>4
<1> QED BY <1>1, <1>2

\* zns_sst_entries_in_block(): full blocks first, then the rest.
LEMMA CountEntries ==
    ASSUME NEW q \in Nat, NEW r \in Nat, r < EntriesPerBlock, NEW b \in Nat
    PROVE  EntriesInBlock(q * EntriesPerBlock + r, b) =
              IF b < q THEN EntriesPerBlock ELSE IF b = q THEN r ELSE 0
<1> DEFINE e == EntriesPerBlock
           n == q * e + r
<1>0. e \in Nat \ {0} /\ n \in Nat /\ b * e \in Nat /\ q * e \in Nat
  BY ConstantFacts
<1>1. EntriesInBlock(n, b) =
         IF b * e >= n THEN 0 ELSE IF n - b * e < e THEN n - b * e ELSE e
  BY DEF EntriesInBlock
<1>2. CASE b < q
  <2>1. b * e + e <= q * e
    <3>1. q - b >= 1 /\ q - b \in Int
      BY <1>2
    <3>2. (q - b) * e >= e
      <4> HIDE DEF e
      <4> QED BY <1>0, <3>1
    <3>3. (q - b) * e = q * e - b * e
      <4> HIDE DEF e
      <4> QED BY <1>0
    <3> QED BY <1>0, <3>2, <3>3
  <2> QED BY <1>0, <1>1, <1>2, <2>1
<1>3. CASE b = q
  BY <1>0, <1>1, <1>3
<1>4. CASE b > q
  <2>1. q * e + e <= b * e
    <3>1. b - q >= 1 /\ b - q \in Int
      BY <1>4
    <3>2. (b - q) * e >= e
      <4> HIDE DEF e
      <4> QED BY <1>0, <3>1
    <3>3. (b - q) * e = b * e - q * e
      <4> HIDE DEF e
      <4> QED BY <1>0
    <3> QED BY <1>0, <3>2, <3>3
  <2> QED BY <1>0, <1>1, <1>4, <2>1
<1> QED BY <1>2, <1>3, <1>4

\* A table that is not empty has a payload block, and none of its payload blocks
\* is empty: zns_sst_block_find() never refuses a block.
LEMMA BlocksNotEmpty ==
    ASSUME NEW n \in Nat, n # 0
    PROVE  /\ NrBlocks(n) \in Nat /\ NrBlocks(n) >= 2
           /\ \A b \in 0 .. NrBlocks(n) - 2 :
                 EntriesInBlock(n, b) \in 1 .. EntriesPerBlock
<1> DEFINE e == EntriesPerBlock
           q == n \div e
           r == n % e
<1>0. e \in Nat \ {0}
  BY ConstantFacts
<1>1. q \in Nat /\ r \in Nat /\ r < e /\ n = q * e + r
  <2> HIDE DEF e
  <2> QED BY <1>0
<1> HIDE DEF q, r
<1>2. NrBlocks(n) = q + (IF r = 0 THEN 1 ELSE 2)
  BY <1>1, CountBlocks
<1>3. \A b \in Nat : EntriesInBlock(n, b) = IF b < q THEN e ELSE IF b = q THEN r ELSE 0
  BY <1>1, CountEntries
<1>4. q # 0 \/ r # 0
  BY <1>0, <1>1
<1> QED BY <1>0, <1>1, <1>2, <1>3, <1>4

(***************************************************************************)
(* Facts that several steps use                                            *)
(***************************************************************************)
\* The numbers TypeOK makes of the variables.
LEMMA TypeFacts ==
    ASSUME TypeOK
    PROVE  /\ Len(media) \in Nat /\ Len(sstables) \in Nat
           /\ \A n \in 1 .. Len(media) : media[n].payload \in Block
           /\ \A t \in 1 .. Len(sstables) :
                 /\ sstables[t] \in Index
                 /\ sstables[t].start \in Nat /\ sstables[t].nr_entries \in Nat
                 /\ sstables[t].nr_blocks \in Nat
                 /\ sstables[t].min_key \in Nat /\ sstables[t].max_key \in Nat
           /\ at \in Nat /\ at >= 1 /\ low \in Nat /\ high \in Nat /\ key \in Nat
           /\ nr_in_block \in Nat /\ nr_in_block < EntriesPerBlock
<1>1. Len(media) \in Nat /\ Len(sstables) \in Nat
  BY DEF TypeOK
<1>2. \A n \in 1 .. Len(media) : media[n].payload \in Block
  <2> DEFINE R == [header : Index \cup {None}, payload : Block]
  <2>1. media \in Seq(R)
    BY DEF TypeOK
  <2> HIDE DEF R
  <2>2. \A n \in 1 .. Len(media) : media[n] \in R
    BY <2>1
  <2> QED BY <2>2 DEF R
<1>3. ASSUME NEW t \in 1 .. Len(sstables)
      PROVE  /\ sstables[t] \in Index
             /\ sstables[t].start \in Nat /\ sstables[t].nr_entries \in Nat
             /\ sstables[t].nr_blocks \in Nat
             /\ sstables[t].min_key \in Nat /\ sstables[t].max_key \in Nat
  <2>1. sstables[t] \in Index
    BY DEF TypeOK
  <2> QED BY <2>1, ConstantFacts DEF Index
<1>4. /\ at \in Nat /\ at >= 1 /\ low \in Nat /\ high \in Nat /\ key \in Nat
      /\ nr_in_block \in Nat /\ nr_in_block < EntriesPerBlock
  BY ConstantFacts DEF TypeOK
<1> QED BY <1>1, <1>2, <1>3, <1>4

\* An entry has a logical block and a physical sector of the right kinds.
LEMMA BlockFacts ==
    /\ EmptyBlock \in Block
    /\ \A p \in Block, i \in 1 .. EntriesPerBlock :
          /\ p[i].logical_block \in Keys
          /\ p[i].physical_sector \in Sectors
<1>1. EmptyBlock \in Block
  BY ConstantFacts DEF EmptyBlock, Block, Padding, Entry, Sectors
<1>2. ASSUME NEW p \in Block, NEW i \in 1 .. EntriesPerBlock
      PROVE  p[i].logical_block \in Keys /\ p[i].physical_sector \in Sectors
  <2>1. p[i] \in [logical_block : Keys, physical_sector : Sectors]
    BY DEF Block
  <2> QED BY <2>1
<1> QED BY <1>1, <1>2

\* Every payload block a header claims stands on the media and is not empty.
LEMMA BlockExists ==
    ASSUME Inv, NEW t \in 1 .. Len(sstables), NEW b \in 0 .. sstables[t].nr_blocks - 2
    PROVE  /\ sstables[t].nr_blocks >= 2
           /\ b \in Nat
           /\ sstables[t].start + b + 1 \in 1 .. Len(media)
           /\ media[sstables[t].start + b + 1].payload \in Block
           /\ EntriesInBlock(sstables[t].nr_entries, b) \in 1 .. EntriesPerBlock
<1> DEFINE s == sstables[t]
<1>1. /\ s.start \in Nat /\ s.nr_entries \in Nat /\ s.nr_blocks \in Nat
      /\ Len(media) \in Nat
  BY TypeFacts DEF Inv
<1>2. Claims(s) /\ s.start + s.nr_blocks <= EndOfTables
  BY DEF Inv, TablesOK, Placed
<1>3. EndOfTables \in Int /\ EndOfTables <= Len(media) + 1
  <2>1. CASE pc = "emit"
    <3>1. index.start \in 1 .. Len(media)
      BY <2>1 DEF Inv, WriterOK
    <3> QED BY <1>1, <2>1, <3>1 DEF EndOfTables
  <2>2. CASE pc # "emit"
    BY <1>1, <2>2 DEF EndOfTables
  <2> QED BY <2>1, <2>2
<1>4. s.nr_blocks >= 2 /\ EntriesInBlock(s.nr_entries, b) \in 1 .. EntriesPerBlock
  BY <1>1, <1>2, BlocksNotEmpty DEF Claims
<1>5. b \in Nat /\ s.start + b + 1 \in 1 .. Len(media)
  <2> HIDE DEF s
  <2>1. b \in Nat /\ b <= s.nr_blocks - 2
    BY <1>1 DEF s
  <2>2. s.start + b + 1 <= s.start + s.nr_blocks - 1
    BY <1>1, <2>1
  <2>3. s.start + s.nr_blocks - 1 <= Len(media)
    BY <1>1, <1>2, <1>3
  <2>4. s.start + b + 1 <= Len(media)
    BY <1>1, <2>1, <2>2, <2>3
  <2> QED BY <1>1, <2>1, <2>4
<1>6. media[s.start + b + 1].payload \in Block
  <2> HIDE DEF s
  <2> QED BY <1>5, TypeFacts DEF Inv
<1> QED BY <1>4, <1>5, <1>6

\* A table whose entries stay is still in order.
LEMMA SortedKept ==
    ASSUME NEW t, Sorted(t), sstables' = sstables,
           \A b, i : Slot(sstables[t], b, i) => At(sstables[t], b, i)' = At(sstables[t], b, i)
    PROVE  Sorted(t)'
BY DEF Sorted

\* What a lookup leaves alone stays right.
LEMMA TablesKept ==
    ASSUME Inv, pc # "emit", pc' # "emit", UNCHANGED <<media, sstables, newest>>
    PROVE  TablesTile' /\ TablesOK' /\ WriterOK' /\ NewestOK'
<1>1. \A s, b, i : At(s, b, i)' = At(s, b, i)
  BY DEF At
<1>2. \A s, k : Holds(s, k)' <=> Holds(s, k)
  BY <1>1 DEF Holds
<1>3. TablesTile'
  BY DEF Inv, TablesTile
<1>4. TablesOK'
  <2>1. \A t \in 1 .. Len(sstables) : Placed(t)'
    BY DEF Inv, TablesOK, Placed, EndOfTables
  <2>2. \A t \in 1 .. Len(sstables) : Sorted(t)'
    <3> SUFFICES ASSUME NEW t \in 1 .. Len(sstables) PROVE Sorted(t)'
      OBVIOUS
    <3>1. Sorted(t)
      BY DEF Inv, TablesOK
    <3>2. \A b, i : Slot(sstables[t], b, i) => At(sstables[t], b, i)' = At(sstables[t], b, i)
      BY <1>1
    <3> QED BY <3>1, <3>2, SortedKept
  <2> QED BY <2>1, <2>2 DEF TablesOK
<1>5. WriterOK'
  BY DEF WriterOK
<1>6. NewestOK'
  <2>1. \A k \in Keys : FromList(k)
    BY DEF Inv, NewestOK, Pending
  <2>2. \A k \in Keys : FromList(k)'
    BY <1>2, <2>1 DEF FromList, FirstHolds
  <2>3. \A k : ~Pending(k)'
    BY DEF Pending
  <2> QED BY <2>2, <2>3 DEF NewestOK
<1> QED BY <1>3, <1>4, <1>5, <1>6

(***************************************************************************)
(* The walk over the list of tables                                        *)
(***************************************************************************)
\* A lookup starts at the newest table.
LEMMA LookupKeeps ==
    ASSUME Inv, NEW k \in Keys, Lookup(k)
    PROVE  Inv'
<1> USE DEF Lookup, writeVars
<1>1. TypeOK'
  BY ConstantFacts DEF Inv, TypeOK
<1>2. TablesTile' /\ TablesOK' /\ WriterOK' /\ NewestOK'
  BY TablesKept
<1>3. SearchOK'
  BY TypeFacts DEF Inv, SearchOK, Searching
<1>4. NeverNarrowedAway' /\ FindsNewest'
  BY DEF NeverNarrowedAway, FindsNewest
<1> QED BY <1>1, <1>2, <1>3, <1>4 DEF Inv

\* A lookup that returns an error, or what the tables say, ends well.
LEMMA ReturnKeeps ==
    ASSUME Inv, Searching, NEW r \in {None, <<>>} \cup Sectors, Return(r),
           r \in {<<>>, newest[key]},
           UNCHANGED <<media, sstables, writeVars, key, at, newest>>
    PROVE  Inv'
<1> USE DEF Return, writeVars
<1>1. TypeOK'
  BY BlockFacts DEF Inv, TypeOK
<1>2. TablesTile' /\ TablesOK' /\ WriterOK' /\ NewestOK'
  BY TablesKept DEF Searching
<1>3. SearchOK' /\ NeverNarrowedAway'
  BY DEF SearchOK, Searching, NeverNarrowedAway
<1>4. FindsNewest'
  BY DEF FindsNewest
<1> QED BY <1>1, <1>2, <1>3, <1>4 DEF Inv

\* A lookup may go on to the next table if this one does not have the block.
LEMMA NextTableKeeps ==
    ASSUME Inv, Searching, at <= Len(sstables), ~Holds(Sst, key), NextTable,
           UNCHANGED <<media, sstables, writeVars, key, newest>>
    PROVE  Inv'
<1> USE DEF NextTable, writeVars
<1>1. TypeOK'
  <2>1. at' \in 1 .. MaxTables + 1
    BY ConstantFacts, TypeFacts DEF Inv, TypeOK
  <2> QED BY <2>1, BlockFacts DEF Inv, TypeOK
<1>2. TablesTile' /\ TablesOK' /\ WriterOK' /\ NewestOK'
  BY TablesKept DEF Searching
<1>3. SearchOK'
  <2>1. \A s, k : Holds(s, k)' <=> Holds(s, k)
    BY DEF Holds, At
  <2>2. ASSUME NEW t \in 1 .. Len(sstables), t < at + 1
        PROVE  ~Holds(sstables[t], key)
    <3>1. CASE t < at
      BY <3>1 DEF Inv, SearchOK
    <3>2. CASE t = at
      BY <3>2 DEF Sst
    <3> QED BY <2>2, <3>1, <3>2, TypeFacts DEF Inv
  <2> QED BY <2>1, <2>2, TypeFacts DEF Inv, SearchOK, Searching
<1>4. NeverNarrowedAway' /\ FindsNewest'
  BY DEF NeverNarrowedAway, FindsNewest
<1> QED BY <1>1, <1>2, <1>3, <1>4 DEF Inv

\* Outside of a write, history is what the list holds.
LEMMA ListIsNewest ==
    ASSUME Inv, pc # "emit"
    PROVE  FromList(key)
BY DEF Inv, NewestOK, Pending, TypeOK

\* The end of the list: no table has the block.
LEMMA EndOfListKeeps ==
    ASSUME Inv, EndOfList
    PROVE  Inv'
<1> USE DEF EndOfList
<1>1. \A t \in 1 .. Len(sstables) : ~Holds(sstables[t], key)
  BY TypeFacts DEF Inv, SearchOK, Searching
<1>2. newest[key] = None
  BY <1>1, ListIsNewest DEF FromList, FirstHolds
<1> QED BY <1>2, ReturnKeeps DEF Searching

\* A block outside the bounds of a table is not in it.
LEMMA OutOfRangeKeeps ==
    ASSUME Inv, OutOfRange
    PROVE  Inv'
<1> USE DEF OutOfRange
<1>1. at \in 1 .. Len(sstables)
  BY TypeFacts DEF Inv
<1>2. ~Holds(Sst, key)
  <2>1. Sorted(at)
    BY <1>1 DEF Inv, TablesOK
  <2>2. key \notin Sst.min_key .. Sst.max_key
    BY DEF InRange
  <2> QED BY <2>1, <2>2 DEF Sorted, Holds, Slot, Sst
<1> QED BY <1>1, <1>2, NextTableKeeps DEF Searching

\* An error ends the lookup.
LEMMA ReadFailsKeeps ==
    ASSUME Inv, ReadFails
    PROVE  Inv'
BY ReturnKeeps DEF ReadFails, Unreadable, Searching

(***************************************************************************)
(* The search in one table                                                 *)
(***************************************************************************)
\* The table under the search has payload, in order.
LEMMA TableUnderSearch ==
    ASSUME Inv, at \in 1 .. Len(sstables)
    PROVE  /\ Sorted(at)
           /\ Sst.nr_blocks \in Nat /\ Sst.nr_blocks >= 2
           /\ \A b \in 0 .. Sst.nr_blocks - 2 :
                 /\ PayloadBlock(b) \in Block
                 /\ EntriesInBlock(Sst.nr_entries, b) \in 1 .. EntriesPerBlock
<1>1. Sorted(at)
  BY DEF Inv, TablesOK
<1>2. Sst.nr_blocks \in Nat /\ Sst.nr_entries \in Nat /\ Claims(Sst)
  BY TypeFacts DEF Inv, TablesOK, Placed, Sst
<1>3. Sst.nr_blocks >= 2
  BY <1>2, BlocksNotEmpty DEF Claims
<1>4. \A b \in 0 .. Sst.nr_blocks - 2 :
         /\ PayloadBlock(b) \in Block
         /\ EntriesInBlock(Sst.nr_entries, b) \in 1 .. EntriesPerBlock
  BY BlockExists DEF PayloadBlock, Sst
<1> QED BY <1>1, <1>2, <1>3, <1>4

\* The keys of the table under the search are numbers and grow.
LEMMA KeysGrow ==
    ASSUME Inv, at \in 1 .. Len(sstables), NEW b, NEW i, NEW c, NEW j,
           Slot(Sst, b, i), Slot(Sst, c, j)
    PROVE  /\ PayloadBlock(b)[i].logical_block \in Nat
           /\ Before(b, i, c, j) =>
                 PayloadBlock(b)[i].logical_block < PayloadBlock(c)[j].logical_block
<1>1. b \in Nat /\ i \in Nat /\ c \in Nat /\ j \in Nat
  BY ConstantFacts, TableUnderSearch DEF Slot
<1>2. At(Sst, b, i) = PayloadBlock(b)[i] /\ At(Sst, c, j) = PayloadBlock(c)[j]
  BY DEF At, PayloadBlock
<1>3. PayloadBlock(b)[i].logical_block \in Nat
  BY TableUnderSearch, BlockFacts, ConstantFacts DEF Slot
<1>4. Before(b, i, c, j) =>
         PayloadBlock(b)[i].logical_block < PayloadBlock(c)[j].logical_block
  <2>1. Sorted(at)
    BY TableUnderSearch
  <2> QED BY <1>1, <1>2, <2>1 DEF Sorted, Sst
<1> QED BY <1>3, <1>4

\* The search of a table starts with all of its payload blocks.
LEMMA EnterTableKeeps ==
    ASSUME Inv, EnterTable
    PROVE  Inv'
<1> USE DEF EnterTable, writeVars
<1>1. at \in 1 .. Len(sstables) /\ at' = at /\ Sst' = Sst
  BY TypeFacts DEF Inv, InRange, Sst
<1>2. Sst.nr_blocks \in Nat /\ Sst.nr_blocks >= 2
  BY <1>1, TableUnderSearch
<1>3. TypeOK'
  BY <1>1, <1>2 DEF Inv, TypeOK
<1>4. TablesTile' /\ TablesOK' /\ WriterOK' /\ NewestOK'
  BY TablesKept
<1>5. SearchOK'
  <2>1. \A s, k : Holds(s, k)' <=> Holds(s, k)
    BY DEF Holds, At
  <2> QED BY <1>1, <2>1 DEF Inv, SearchOK, Searching
<1>6. NeverNarrowedAway'
  <2>1. low' .. high' = 0 .. Sst.nr_blocks - 2
    OBVIOUS
  <2> QED BY <1>1, <2>1 DEF NeverNarrowedAway
<1>7. FindsNewest'
  BY DEF FindsNewest
<1> QED BY <1>3, <1>4, <1>5, <1>6, <1>7 DEF Inv

\* A buffered block is the one the search wants, or it is read.
LEMMA BufferRead ==
    ASSUME Inv, pc = "blocks", NEW b \in 0 .. Sst.nr_blocks - 2, ReadPayloadBlock(b)
    PROVE  block' = PayloadBlock(b) /\ cached' = b
<1>1. b \in Int
  OBVIOUS
<1>2. cached = b => block = PayloadBlock(b)
  BY <1>1, SearchAssumption DEF Inv, SearchOK
<1> QED BY <1>2 DEF ReadPayloadBlock

\* The middle of a range that is not a single block is above its lower end.
LEMMA MiddleBlockFacts ==
    ASSUME low \in Nat, high \in Nat, low < high
    PROVE  MiddleBlock \in Nat /\ low < MiddleBlock /\ MiddleBlock <= high
BY DEF MiddleBlock

\* The search over the first keys keeps the block that may hold the entry.
LEMMA NarrowBlocksKeeps ==
    ASSUME Inv, NarrowBlocks
    PROVE  Inv' /\ TurnShrinks
<1> USE DEF NarrowBlocks, writeVars
<1> DEFINE m == MiddleBlock
<1>1. at \in 1 .. Len(sstables) /\ at' = at /\ Sst' = Sst
  BY TypeFacts DEF Inv, SearchOK, Sst
<1>2. low \in Nat /\ high \in Nat /\ key \in Nat /\ high <= Sst.nr_blocks - 2
  BY TypeFacts DEF Inv, TypeOK
<1>3. m \in Nat /\ low < m /\ m <= high
  BY <1>2, MiddleBlockFacts
<1>4. Sst.nr_blocks \in Nat /\ m \in 0 .. Sst.nr_blocks - 2
  BY <1>1, <1>2, <1>3, TableUnderSearch
<1>5. block' = PayloadBlock(m) /\ cached' = m
  BY <1>4, BufferRead
<1>6. PayloadBlock(m) \in Block /\ Slot(Sst, m, 1)
  BY <1>1, <1>4, TableUnderSearch, ConstantFacts DEF Slot
<1>7. \A b : PayloadBlock(b)' = PayloadBlock(b)
  BY <1>1 DEF PayloadBlock
<1> HIDE DEF m
<1>8. \/ FirstKey(block') <= key /\ low' = m /\ high' = high
      \/ ~(FirstKey(block') <= key) /\ high' = m - 1 /\ low' = low
  BY DEF m
<1>9. /\ low' \in Nat /\ high' \in Nat /\ low' <= high' /\ high' <= Sst.nr_blocks - 2
      /\ high' - low' < high - low
  BY <1>2, <1>3, <1>4, <1>8
<1>10. TypeOK'
  BY <1>1, <1>4, <1>5, <1>6, <1>9 DEF Inv, TypeOK
<1>11. TablesTile' /\ TablesOK' /\ WriterOK' /\ NewestOK'
  BY TablesKept
<1>12. SearchOK'
  <2>1. \A s, k : Holds(s, k)' <=> Holds(s, k)
    BY DEF Holds, At
  <2> QED BY <1>1, <1>4, <1>5, <1>7, <2>1 DEF Inv, SearchOK, Searching
<1>13. NeverNarrowedAway'
  <2> SUFFICES ASSUME NEW b \in 0 .. Sst.nr_blocks - 2, NEW i \in 1 .. EntriesPerBlock,
                      i <= EntriesInBlock(Sst.nr_entries, b),
                      PayloadBlock(b)[i].logical_block = key
               PROVE  b \in low' .. high'
    BY <1>1, <1>7 DEF NeverNarrowedAway
  <2>1. b \in Int /\ b \in low .. high /\ i \in Nat /\ i >= 1
    BY <1>4, ConstantFacts DEF Inv, NeverNarrowedAway
  <2>2. Slot(Sst, b, i)
    BY DEF Slot
  <2>3. FirstKey(block') = PayloadBlock(m)[1].logical_block
    BY <1>5 DEF FirstKey
  <2>4. FirstKey(block') \in Nat
    BY <1>1, <1>6, <2>3, KeysGrow
  <2>5. CASE FirstKey(block') <= key
    <3>1. ~(b < m)
      <4>1. Before(b, i, m, 1) => key < FirstKey(block')
        BY <1>1, <1>6, <2>2, <2>3, KeysGrow
      <4> QED BY <1>2, <2>4, <2>5, <4>1 DEF Before
    <3> QED BY <1>2, <1>3, <1>8, <2>1, <2>5, <3>1
  <2>6. CASE ~(FirstKey(block') <= key)
    <3>1. ~(b > m)
      <4>1. Before(m, 1, b, i) => FirstKey(block') < key
        BY <1>1, <1>6, <2>2, <2>3, KeysGrow
      <4> QED BY <1>2, <2>4, <2>6, <4>1 DEF Before
    <3>2. b # m
      <4> SUFFICES ASSUME b = m PROVE FALSE
        OBVIOUS
      <4>1. CASE i = 1
        BY <1>2, <2>3, <2>6, <4>1
      <4>2. CASE i > 1
        <5>1. Before(m, 1, b, i) => FirstKey(block') < key
          BY <1>1, <1>6, <2>2, <2>3, KeysGrow
        <5> QED BY <1>2, <2>4, <2>6, <4>2, <5>1 DEF Before
      <4> QED BY <2>1, <4>1, <4>2
    <3> QED BY <1>2, <1>3, <1>8, <2>1, <2>6, <3>1, <3>2
  <2> QED BY <2>5, <2>6
<1>14. FindsNewest'
  BY DEF FindsNewest
<1>15. TurnShrinks
  BY <1>1, <1>9 DEF TurnShrinks
<1> QED BY <1>10, <1>11, <1>12, <1>13, <1>14, <1>15 DEF Inv

\* The one block that is left is searched from its first to its last entry.
LEMMA EnterBlockKeeps ==
    ASSUME Inv, EnterBlock
    PROVE  Inv'
<1> USE DEF EnterBlock, writeVars
<1>1. at \in 1 .. Len(sstables) /\ at' = at /\ Sst' = Sst
  BY TypeFacts DEF Inv, SearchOK, Sst
<1>2. low \in Nat /\ high <= Sst.nr_blocks - 2 /\ Sst.nr_blocks \in Nat
  BY <1>1, TypeFacts, TableUnderSearch DEF Inv, TypeOK
<1>3. low \in 0 .. Sst.nr_blocks - 2
  BY <1>2
<1>4. block' = PayloadBlock(low) /\ cached' = low
  BY <1>3, BufferRead
<1>5. PayloadBlock(low) \in Block /\ high' \in 1 .. EntriesPerBlock
  BY <1>1, <1>3, TableUnderSearch
<1>6. \A b : PayloadBlock(b)' = PayloadBlock(b)
  BY <1>1 DEF PayloadBlock
<1>7. TypeOK'
  BY <1>2, <1>4, <1>5, ConstantFacts DEF Inv, TypeOK
<1>8. TablesTile' /\ TablesOK' /\ WriterOK' /\ NewestOK'
  BY TablesKept
<1>9. SearchOK'
  <2>1. \A s, k : Holds(s, k)' <=> Holds(s, k)
    BY DEF Holds, At
  <2>2. high' <= EntriesInBlock(Sst.nr_entries, low)
    BY <1>5
  <2> QED BY <1>1, <1>3, <1>4, <1>6, <2>1, <2>2 DEF Inv, SearchOK, Searching
<1>10. NeverNarrowedAway'
  <2> SUFFICES ASSUME NEW b \in 0 .. Sst.nr_blocks - 2, NEW i \in 1 .. EntriesPerBlock,
                      i <= EntriesInBlock(Sst.nr_entries, b),
                      PayloadBlock(b)[i].logical_block = key
               PROVE  b = low /\ i - 1 \in 0 .. high' - 1
    BY <1>1, <1>4, <1>6 DEF NeverNarrowedAway
  <2>1. b \in low .. high
    BY DEF Inv, NeverNarrowedAway
  <2>2. b = low
    BY <1>2, <2>1
  <2> QED BY <1>5, <2>2, ConstantFacts
<1>11. FindsNewest'
  BY DEF FindsNewest
<1> QED BY <1>7, <1>8, <1>9, <1>10, <1>11 DEF Inv

\* What the loop of zns_sst_block_find() works on: a range of slots of the block.
LEMMA EntriesFacts ==
    ASSUME Inv, pc = "entries"
    PROVE  /\ at \in 1 .. Len(sstables)
           /\ low \in Nat /\ high \in Nat /\ key \in Nat
           /\ block = PayloadBlock(cached)
           /\ \A i \in Nat : 1 <= i /\ i <= high => Slot(Sst, cached, i)
           /\ low < high => /\ MiddleEntry \in Nat
                            /\ low <= MiddleEntry /\ MiddleEntry < high
                            /\ Slot(Sst, cached, MiddleEntry + 1)
<1>1. at \in 1 .. Len(sstables) /\ low \in Nat /\ high \in Nat /\ key \in Nat
  BY TypeFacts DEF Inv, SearchOK
<1>2. /\ cached \in 0 .. Sst.nr_blocks - 2 /\ block = PayloadBlock(cached)
      /\ high <= EntriesInBlock(Sst.nr_entries, cached)
  BY DEF Inv, SearchOK
<1>3. EntriesInBlock(Sst.nr_entries, cached) \in 1 .. EntriesPerBlock
  BY <1>1, <1>2, TableUnderSearch
<1>4. \A i \in Nat : 1 <= i /\ i <= high => Slot(Sst, cached, i)
  BY <1>1, <1>2, <1>3, ConstantFacts DEF Slot
<1>5. low < high => MiddleEntry \in Nat /\ low <= MiddleEntry /\ MiddleEntry < high
  BY <1>1 DEF MiddleEntry
<1>6. low < high => Slot(Sst, cached, MiddleEntry + 1)
  BY <1>1, <1>4, <1>5
<1> QED BY <1>1, <1>2, <1>4, <1>5, <1>6

\* The search in a block keeps the entry.
LEMMA NarrowEntriesKeeps ==
    ASSUME Inv, NarrowEntries
    PROVE  Inv' /\ TurnShrinks
<1> USE DEF NarrowEntries, writeVars
<1> DEFINE m == MiddleEntry
           mk == MiddleKey
<1>1. at' = at /\ Sst' = Sst
  BY DEF Sst
<1>2. /\ at \in 1 .. Len(sstables) /\ low \in Nat /\ high \in Nat /\ key \in Nat
      /\ block = PayloadBlock(cached)
      /\ m \in Nat /\ low <= m /\ m < high /\ Slot(Sst, cached, m + 1)
  BY EntriesFacts
<1>3. \A b : PayloadBlock(b)' = PayloadBlock(b)
  BY <1>1 DEF PayloadBlock
<1>4. mk = PayloadBlock(cached)[m + 1].logical_block /\ mk \in Nat /\ mk # key
  <2>1. mk = PayloadBlock(cached)[m + 1].logical_block
    BY <1>2 DEF MiddleKey
  <2> QED BY <1>2, <2>1, KeysGrow
<1> HIDE DEF m, mk
<1>5. \/ mk < key /\ low' = m + 1 /\ high' = high
      \/ key < mk /\ high' = m /\ low' = low
  BY <1>2, <1>4 DEF m, mk
<1>6. /\ low' \in Nat /\ high' \in Nat /\ high' <= high
      /\ high' - low' < high - low
  BY <1>2, <1>5
<1>7. TypeOK'
  <2>1. high' <= EntriesPerBlock
    BY <1>2, <1>6, ConstantFacts DEF Inv, TypeOK
  <2> QED BY <1>6, <2>1 DEF Inv, TypeOK
<1>8. TablesTile' /\ TablesOK' /\ WriterOK' /\ NewestOK'
  BY TablesKept
<1>9. SearchOK'
  <2>1. \A s, k : Holds(s, k)' <=> Holds(s, k)
    BY DEF Holds, At
  <2>2. high' <= EntriesInBlock(Sst.nr_entries, cached)
    <3>1. cached \in 0 .. Sst.nr_blocks - 2 /\ high <= EntriesInBlock(Sst.nr_entries, cached)
      BY DEF Inv, SearchOK
    <3>2. EntriesInBlock(Sst.nr_entries, cached) \in Int
      BY <1>2, <3>1, TableUnderSearch
    <3> QED BY <1>2, <1>6, <3>1, <3>2
  <2> QED BY <1>1, <1>3, <2>1, <2>2 DEF Inv, SearchOK, Searching
<1>10. NeverNarrowedAway'
  <2> SUFFICES ASSUME NEW b \in 0 .. Sst.nr_blocks - 2, NEW i \in 1 .. EntriesPerBlock,
                      i <= EntriesInBlock(Sst.nr_entries, b),
                      PayloadBlock(b)[i].logical_block = key
               PROVE  b = cached /\ block = PayloadBlock(b) /\ i - 1 \in low' .. high' - 1
    BY <1>1, <1>3 DEF NeverNarrowedAway
  <2>1. b = cached /\ block = PayloadBlock(b) /\ i - 1 \in low .. high - 1
    BY DEF Inv, NeverNarrowedAway
  <2>2. Slot(Sst, cached, i) /\ i \in Nat
    BY <2>1, ConstantFacts DEF Slot
  <2>3. Before(cached, i, cached, m + 1) => key < mk
    BY <1>2, <1>4, <2>1, <2>2, KeysGrow
  <2>4. Before(cached, m + 1, cached, i) => mk < key
    BY <1>2, <1>4, <2>1, <2>2, KeysGrow
  <2>5. i # m + 1
    BY <1>4, <2>1
  <2>6. CASE mk < key
    <3>1. ~(i < m + 1)
      BY <1>2, <1>4, <2>3, <2>6 DEF Before
    <3> QED BY <1>2, <1>4, <1>5, <2>1, <2>2, <2>5, <2>6, <3>1
  <2>7. CASE key < mk
    <3>1. ~(m + 1 < i)
      BY <1>2, <1>4, <2>4, <2>7 DEF Before
    <3> QED BY <1>2, <1>4, <1>5, <2>1, <2>2, <2>5, <2>7, <3>1
  <2> QED BY <1>2, <1>4, <2>6, <2>7
<1>11. FindsNewest'
  BY DEF FindsNewest
<1>12. TurnShrinks
  BY <1>1, <1>6 DEF TurnShrinks
<1> QED BY <1>7, <1>8, <1>9, <1>10, <1>11, <1>12 DEF Inv

\* An entry that is found is the newest: no table before this one has the block.
LEMMA FoundKeeps ==
    ASSUME Inv, Found
    PROVE  Inv'
<1> USE DEF Found
<1> DEFINE m == MiddleEntry
           e == At(Sst, cached, m + 1)
<1>1. /\ at \in 1 .. Len(sstables) /\ block = PayloadBlock(cached)
      /\ m \in Nat /\ Slot(Sst, cached, m + 1)
  BY EntriesFacts
<1>2. e = block[m + 1] /\ e.logical_block = key
  BY <1>1 DEF At, PayloadBlock, MiddleKey
<1>3. e.physical_sector \in Sectors
  <2>1. block \in Block /\ m + 1 \in 1 .. EntriesPerBlock
    BY <1>1 DEF Inv, TypeOK, Slot
  <2> QED BY <1>2, <2>1, BlockFacts
<1>4. Holds(Sst, key)
  BY <1>1, <1>2 DEF Holds, Slot
<1>5. FirstHolds(at, key)
  BY <1>4 DEF Inv, SearchOK, Searching, FirstHolds, Sst
<1>6. newest[key] = <<Len(sstables) + 1 - at, key>>
  <2>1. ASSUME NEW t \in 1 .. Len(sstables), FirstHolds(t, key)
        PROVE  t = at
    <3>1. ~(t < at) /\ ~(at < t)
      BY <1>1, <1>5, <2>1 DEF FirstHolds
    <3> QED BY <1>1, <3>1, TypeFacts DEF Inv
  <2>2. FromList(key)
    BY ListIsNewest
  <2> QED BY <1>1, <1>5, <2>1, <2>2 DEF FromList, FirstHolds
<1>7. e.physical_sector = <<Len(sstables) + 1 - at, key>>
  <2>1. Sorted(at)
    BY <1>1, TableUnderSearch
  <2>2. cached \in Nat
    BY <1>1 DEF Slot
  <2> QED BY <1>1, <1>2, <2>1, <2>2 DEF Sorted, Sst
<1>8. Return(e.physical_sector)
  BY <1>2
<1> HIDE DEF e
<1> QED BY <1>3, <1>6, <1>7, <1>8, ReturnKeeps DEF Searching

\* An empty range means that the table does not have the block.
LEMMA NotFoundKeeps ==
    ASSUME Inv, NotFound
    PROVE  Inv'
<1> USE DEF NotFound
<1>1. at \in 1 .. Len(sstables) /\ low \in Nat /\ high \in Nat
  BY EntriesFacts
<1>2. ~Holds(Sst, key)
  <2> SUFFICES ASSUME NEW b \in 0 .. Sst.nr_blocks - 2, NEW i \in 1 .. EntriesPerBlock,
                      Slot(Sst, b, i), At(Sst, b, i).logical_block = key
               PROVE  FALSE
    BY DEF Holds
  <2>1. PayloadBlock(b)[i].logical_block = key
    BY DEF At, PayloadBlock
  <2>2. i - 1 \in low .. high - 1
    BY <2>1 DEF Inv, NeverNarrowedAway, Slot
  <2> QED BY <1>1, <2>2, ConstantFacts
<1> QED BY <1>1, <1>2, NextTableKeeps DEF Searching

(***************************************************************************)
(* Writing a table                                                         *)
(***************************************************************************)
\* A memtable has a least and a largest key, and only finitely many.
LEMMA KeyBounds ==
    ASSUME NEW S \in SUBSET Keys, S # {}
    PROVE  /\ IsFiniteSet(S) /\ Cardinality(S) \in Nat /\ Cardinality(S) # 0
           /\ Min(S) \in S /\ \A k \in S : Min(S) <= k
           /\ Max(S) \in S /\ \A k \in S : k <= Max(S)
<1>1. S \in SUBSET Nat /\ \A k \in S : k \in Nat /\ k <= MaxKey
  BY ConstantFacts DEF Keys
<1>2. IsFiniteSet(S)
  <2>1. IsFiniteSet(Keys)
    BY ConstantFacts, FS_Interval DEF Keys
  <2> QED BY <2>1, FS_Subset
<1>3. Cardinality(S) \in Nat /\ Cardinality(S) # 0
  BY <1>2, FS_CardinalityType, FS_EmptySet
<1>4. Min(S) \in S /\ \A k \in S : Min(S) <= k
  <2>1. \E n \in S : \A k \in S : n <= k
    BY <1>1, LeastExists
  <2> QED BY <2>1 DEF Min
<1>5. \E n \in S : \A k \in S : n >= k
  <2> DEFINE D == {MaxKey - k : k \in S}
  <2>1. D \in SUBSET Nat /\ D # {}
    <3>1. \A k \in S : MaxKey - k \in Nat
      BY <1>1, ConstantFacts
    <3> QED BY <3>1
  <2>2. PICK d \in D : \A c \in D : d <= c
    <3> HIDE DEF D
    <3> QED BY <2>1, LeastExists
  <2>3. PICK n \in S : d = MaxKey - n
    OBVIOUS
  <2>4. \A k \in S : MaxKey - n <= MaxKey - k
    BY <2>2, <2>3
  <2> QED BY <1>1, <2>4, ConstantFacts
<1>6. Max(S) \in S /\ \A k \in S : k <= Max(S)
  <2>1. Max(S) \in S /\ \A k \in S : Max(S) >= k
    BY <1>5 DEF Max
  <2> QED BY <1>1, <2>1
<1> QED BY <1>2, <1>3, <1>4, <1>6

\* What is appended to the media changes no table of the list.
Extends ==
    /\ Len(media') \in Nat /\ Len(media) <= Len(media')
    /\ \A n \in 1 .. Len(media) : media'[n] = media[n]

LEMMA TableStays ==
    ASSUME Inv, Extends, NEW t \in 1 .. Len(sstables)
    PROVE  \A s : s = sstables[t] =>
              /\ s.start \in 1 .. Len(media)
              /\ media'[s.start] = media[s.start]
              /\ \A b, i : Slot(s, b, i) => At(s, b, i)' = At(s, b, i)
              /\ \A k : Holds(s, k)' <=> Holds(s, k)
<1> SUFFICES ASSUME NEW s, s = sstables[t]
             PROVE  /\ s.start \in 1 .. Len(media)
                    /\ media'[s.start] = media[s.start]
                    /\ \A b, i : Slot(s, b, i) => At(s, b, i)' = At(s, b, i)
                    /\ \A k : Holds(s, k)' <=> Holds(s, k)
  OBVIOUS
<1>1. s.start \in Nat /\ s.nr_blocks \in Nat /\ s.nr_entries \in Nat /\ Len(media) \in Nat
  BY TypeFacts DEF Inv
<1>2. 1 <= s.start /\ s.nr_blocks >= 2
  BY <1>1, BlocksNotEmpty DEF Inv, TablesOK, Placed, Claims
<1>3. s.start \in 1 .. Len(media)
  <2>1. 0 \in 0 .. s.nr_blocks - 2
    BY <1>1, <1>2
  <2>2. s.start + 0 + 1 \in 1 .. Len(media)
    BY <2>1, BlockExists
  <2> QED BY <1>1, <1>2, <2>2
<1>4. \A b, i : Slot(s, b, i) => At(s, b, i)' = At(s, b, i)
  BY BlockExists DEF Slot, At, Extends
<1>5. \A k : Holds(s, k)' <=> Holds(s, k)
  BY <1>4 DEF Holds
<1> QED BY <1>3, <1>4, <1>5 DEF Extends

\* While a table is written behind it, the list stays right.
LEMMA ListKept ==
    ASSUME Inv, Extends, sstables' = sstables, pc' = "emit",
           EndOfTables' = EndOfTables
    PROVE  /\ TablesTile'
           /\ TablesOK'
           /\ \A k \in Keys : newest'[k] = newest[k] /\ FromList(k) => FromList(k)'
<1> USE TableStays
<1>1. TablesTile'
  <2> SUFFICES ASSUME NEW t \in 1 .. Len(sstables)
               PROVE  /\ media'[sstables[t].start].header = sstables[t]
                      /\ sstables[t].start + sstables[t].nr_blocks =
                            (IF t > 1 THEN sstables[t - 1].start ELSE index'.start)
    BY DEF TablesTile
  <2>1. media'[sstables[t].start].header = sstables[t]
    BY DEF Inv, TablesTile
  <2>2. index'.start = IF pc = "emit" THEN index.start ELSE Len(media) + 1
    BY DEF EndOfTables
  <2> QED BY <2>1, <2>2 DEF Inv, TablesTile
<1>2. TablesOK'
  <2>1. \A t \in 1 .. Len(sstables) : Placed(t)'
    BY DEF Inv, TablesOK, Placed
  <2>2. \A t \in 1 .. Len(sstables) : Sorted(t)'
    <3> SUFFICES ASSUME NEW t \in 1 .. Len(sstables) PROVE Sorted(t)'
      OBVIOUS
    <3>1. Sorted(t)
      BY DEF Inv, TablesOK
    <3>2. \A b, i : Slot(sstables[t], b, i) => At(sstables[t], b, i)' = At(sstables[t], b, i)
      OBVIOUS
    <3> QED BY <3>1, <3>2, SortedKept
  <2> QED BY <2>1, <2>2 DEF TablesOK
<1>3. ASSUME NEW k \in Keys, newest'[k] = newest[k], FromList(k)
      PROVE  FromList(k)'
  <2>1. \A t \in 1 .. Len(sstables) : Holds(sstables[t], k)' <=> Holds(sstables[t], k)
    OBVIOUS
  <2> QED BY <1>3, <2>1 DEF FromList, FirstHolds
<1> QED BY <1>1, <1>2, <1>3

\* A block appended to the media is one more of its blocks.
LEMMA AppendExtends ==
    ASSUME TypeOK, NEW x \in [header : Index \cup {None}, payload : Block],
           media' = Append(media, x)
    PROVE  /\ Extends
           /\ media' \in Seq([header : Index \cup {None}, payload : Block])
           /\ Len(media') = Len(media) + 1
           /\ media'[Len(media) + 1] = x
<1> DEFINE R == [header : Index \cup {None}, payload : Block]
<1>1. media \in Seq(R) /\ x \in R
  BY DEF TypeOK
<1> HIDE DEF R
<1>2. /\ media' \in Seq(R)
      /\ Len(media) \in Nat /\ Len(media') = Len(media) + 1
      /\ media'[Len(media) + 1] = x
      /\ \A n \in 1 .. Len(media) : media'[n] = media[n]
  BY <1>1
<1> QED BY <1>2 DEF Extends, R

\* The header of a table that is not empty, behind the tables of the list.
LEMMA WriteHeaderKeeps ==
    ASSUME Inv, NEW S \in SUBSET Keys, S # {}, WriteHeader(S)
    PROVE  Inv'
<1> USE DEF WriteHeader
<1>1. /\ Cardinality(S) \in Nat /\ Cardinality(S) # 0
      /\ Min(S) \in Keys /\ Max(S) \in Keys
      /\ \A k \in S : k \in Nat /\ Min(S) <= k /\ k <= Max(S)
  BY KeyBounds, ConstantFacts
<1>2. Len(media) \in Nat /\ Len(sstables) \in Nat /\ Len(sstables) < MaxTables
  BY TypeFacts DEF Inv
<1>3. NrBlocks(Cardinality(S)) \in Nat
  BY <1>1, BlocksNotEmpty
<1>4. /\ index' \in Index /\ index'.start = Len(media) + 1
      /\ index'.nr_entries = Cardinality(S) /\ index'.nr_blocks = NrBlocks(Cardinality(S))
      /\ index'.min_key = Min(S) /\ index'.max_key = Max(S)
  BY <1>1, <1>2, <1>3 DEF Index
<1>5. /\ Header(index') \in [header : Index \cup {None}, payload : Block]
      /\ Header(index').header = index'
  BY <1>4, BlockFacts DEF Header
<1>6. /\ Extends
      /\ media' \in Seq([header : Index \cup {None}, payload : Block])
      /\ Len(media') = Len(media) + 1
      /\ media'[Len(media) + 1].header = index'
  BY <1>5, AppendExtends DEF Inv
<1>7. newest' \in [Keys -> Sectors \cup {None}]
  <2>1. Number \in 0 .. MaxTables
    BY <1>2, ConstantFacts DEF Number
  <2> QED BY <2>1 DEF Inv, TypeOK, Sectors
<1>8. TypeOK'
  <2>1. nr_in_block' \in 0 .. EntriesPerBlock - 1
    BY ConstantFacts
  <2>2. at' \in 1 .. MaxTables + 1
    BY ConstantFacts
  <2> QED BY <1>2, <1>4, <1>6, <1>7, <2>1, <2>2, BlockFacts, ConstantFacts DEF Inv, TypeOK
<1>9. EndOfTables' = EndOfTables
  BY <1>4 DEF EndOfTables
<1>10. /\ TablesTile' /\ TablesOK'
       /\ \A k \in Keys : newest'[k] = newest[k] /\ FromList(k) => FromList(k)'
  BY <1>6, <1>9, ListKept
<1>11. Written' = 0 /\ \A b, i : ~Packed(b, i)'
  <2>1. Written' = 0
    BY <1>2, <1>4, <1>6 DEF Written
  <2> QED BY <2>1 DEF Packed
<1>12. WriterOK'
  <2>1. Number' <= MaxTables
    BY <1>2, ConstantFacts DEF Number
  <2>2. Written' * EntriesPerBlock + nr_in_block' + Cardinality(nodes') = index'.nr_entries
    BY <1>1, <1>4, <1>11, ConstantFacts
  <2>3. nodes' \subseteq index'.min_key .. index'.max_key
    BY <1>1, <1>4, ConstantFacts
  <2>4. index'.start \in 1 .. Len(media') /\ media'[index'.start].header = index'
    BY <1>2, <1>4, <1>6
  <2>5. Claims(index')
    BY <1>1, <1>4 DEF Claims
  <2> QED BY <1>4, <1>11, <2>1, <2>2, <2>3, <2>4, <2>5 DEF WriterOK, Claims
<1>13. NewestOK'
  <2>1. \A k : Pending(k)' <=> k \in S
    BY <1>11 DEF Pending
  <2>2. \A k \in Keys : k \in S => newest'[k] = <<Number', k>>
    BY DEF Number
  <2>3. \A k \in Keys : k \notin S => newest'[k] = newest[k]
    OBVIOUS
  <2>4. \A k \in Keys : FromList(k)
    BY DEF Inv, NewestOK, Pending
  <2> QED BY <1>10, <2>1, <2>2, <2>3, <2>4 DEF NewestOK
<1>14. SearchOK' /\ NeverNarrowedAway' /\ FindsNewest'
  BY DEF SearchOK, Searching, NeverNarrowedAway, FindsNewest
<1> QED BY <1>8, <1>10, <1>12, <1>13, <1>14 DEF Inv

\* One more entry is packed: it is the last one, and all others stay.
LEMMA PackOne ==
    ASSUME Inv, EmitEntry
    PROVE  /\ TypeOK' /\ Extends
           /\ \A b, i \in Nat : Packed(b, i)' <=>
                 Packed(b, i) \/ (b = Written /\ i = nr_in_block + 1)
           /\ \A b, i \in Nat : Packed(b, i) =>
                 New(b, i)' = New(b, i) /\ Before(b, i, Written, nr_in_block + 1)
           /\ \A b, i \in Nat : b = Written /\ i = nr_in_block + 1 =>
                 New(b, i)' = Entry(Min(nodes), <<Number, Min(nodes)>>)
           /\ Written' * EntriesPerBlock + nr_in_block' =
                 Written * EntriesPerBlock + nr_in_block + 1
<1> DEFINE W == Written
           p == nr_in_block + 1
           e == Entry(Min(nodes), <<Number, Min(nodes)>>)
           filled == [block EXCEPT ![p] = e]
<1>1. /\ EntriesPerBlock \in Nat /\ nr_in_block \in Nat /\ p \in 1 .. EntriesPerBlock
      /\ Len(media) \in Nat /\ index.start \in 1 .. Len(media) /\ index \in Index
  BY TypeFacts, ConstantFacts DEF Inv, WriterOK, EmitEntry
<1>2. W \in Nat /\ index.start \in Nat /\ index.start + W = Len(media)
  BY <1>1 DEF Written
<1>3. e \in [logical_block : Keys, physical_sector : Sectors]
  <2>1. Min(nodes) \in Keys
    BY KeyBounds DEF EmitEntry, Inv, TypeOK
  <2>2. Number \in 0 .. MaxTables
    BY TypeFacts DEF EmitEntry, Inv, WriterOK, Number
  <2> QED BY <2>1, <2>2 DEF Entry, Sectors
<1>4. /\ filled \in Block /\ filled[p] = e
      /\ \A i \in 1 .. EntriesPerBlock : i # p => filled[i] = block[i]
  <2> HIDE DEF e, p
  <2>1. block \in Block
    BY DEF Inv, TypeOK
  <2> QED BY <1>1, <1>3, <2>1 DEF Block
<1> HIDE DEF e, filled
<1>5. CASE nr_in_block + 1 < EntriesPerBlock
  <2>1. /\ block' = filled /\ nr_in_block' = nr_in_block + 1 /\ media' = media
        /\ index' = index /\ nodes' = nodes \ {Min(nodes)}
        /\ UNCHANGED <<sstables, pc, searchVars, newest>>
    BY <1>5 DEF EmitEntry, e, filled
  <2>2. TypeOK'
    BY <1>1, <1>4, <1>5, <2>1 DEF Inv, TypeOK, EmitEntry, searchVars
  <2>3. Extends
    BY <1>1, <2>1 DEF Extends
  <2>4. Written' = W
    BY <2>1 DEF Written
  <2>5. \A b, i \in Nat : Packed(b, i)' <=> Packed(b, i) \/ (b = W /\ i = p)
    BY <1>1, <1>2, <2>1, <2>4 DEF Packed
  <2>6. \A b, i \in Nat : Packed(b, i) =>
           New(b, i)' = New(b, i) /\ Before(b, i, W, p)
    BY <1>1, <1>2, <1>4, <2>1, <2>4 DEF Packed, New, At, Before
  <2>7. \A b, i \in Nat : b = W /\ i = p => New(b, i)' = e
    BY <1>4, <2>1, <2>4 DEF New
  <2>8. Written' * EntriesPerBlock + nr_in_block' = W * EntriesPerBlock + nr_in_block + 1
    <3> HIDE DEF W
    <3>1. W * EntriesPerBlock \in Nat
      BY <1>1, <1>2
    <3> QED BY <1>1, <2>1, <2>4, <3>1
  <2> QED BY <2>2, <2>3, <2>5, <2>6, <2>7, <2>8 DEF e
<1>6. CASE ~(nr_in_block + 1 < EntriesPerBlock)
  <2>1. /\ block' = EmptyBlock /\ nr_in_block' = 0
        /\ media' = Append(media, Payload(filled))
        /\ index' = index /\ nodes' = nodes \ {Min(nodes)}
        /\ UNCHANGED <<sstables, pc, searchVars, newest>>
    BY <1>6 DEF EmitEntry, e, filled
  <2>2. Payload(filled) \in [header : Index \cup {None}, payload : Block]
    BY <1>4 DEF Payload
  <2>3. /\ Extends
        /\ media' \in Seq([header : Index \cup {None}, payload : Block])
        /\ Len(media') = Len(media) + 1
        /\ media'[Len(media) + 1].payload = filled
    <3>1. /\ Extends
          /\ media' \in Seq([header : Index \cup {None}, payload : Block])
          /\ Len(media') = Len(media) + 1
          /\ media'[Len(media) + 1] = Payload(filled)
      BY <2>1, <2>2, AppendExtends DEF Inv
    <3>2. Payload(filled).payload = filled
      BY DEF Payload
    <3> QED BY <3>1, <3>2
  <2>4. TypeOK'
    BY <1>1, <2>1, <2>3, BlockFacts, ConstantFacts DEF Inv, TypeOK, EmitEntry, searchVars
  <2>5. Written' = W + 1 /\ p = EntriesPerBlock
    BY <1>1, <1>2, <1>6, <2>1, <2>3 DEF Written
  <2>6. \A b, i \in Nat : Packed(b, i)' <=> Packed(b, i) \/ (b = W /\ i = p)
    BY <1>1, <1>2, <2>1, <2>5 DEF Packed
  <2>7. \A b, i \in Nat : b = W /\ i \in 1 .. EntriesPerBlock => New(b, i)' = filled[i]
    BY <1>2, <2>1, <2>3, <2>5 DEF New, At
  <2>8. \A b, i \in Nat : Packed(b, i) => New(b, i)' = New(b, i) /\ Before(b, i, W, p)
    <3> SUFFICES ASSUME NEW b \in Nat, NEW i \in Nat, Packed(b, i)
                 PROVE  New(b, i)' = New(b, i) /\ Before(b, i, W, p)
      OBVIOUS
    <3>1. CASE b = W
      <4>1. i \in 1 .. EntriesPerBlock /\ i < p
        BY <1>1, <3>1 DEF Packed
      <4>2. New(b, i)' = filled[i] /\ New(b, i) = block[i]
        BY <2>7, <3>1, <4>1 DEF New
      <4> QED BY <1>1, <1>4, <3>1, <4>1, <4>2 DEF Before
    <3>2. CASE b # W
      <4>1. b < W /\ index.start + b + 1 \in 1 .. Len(media)
        BY <1>1, <1>2, <3>2 DEF Packed
      <4>2. At(index, b, i)' = At(index, b, i)
        BY <2>1, <2>3, <4>1 DEF At, Extends
      <4>3. New(b, i) = At(index, b, i) /\ New(b, i)' = At(index, b, i)'
        BY <1>2, <2>5, <4>1 DEF New
      <4> QED BY <4>1, <4>2, <4>3 DEF Before
    <3> QED BY <3>1, <3>2
  <2>9. \A b, i \in Nat : b = W /\ i = p => New(b, i)' = e
    BY <1>1, <1>4, <2>7
  <2>10. Written' * EntriesPerBlock + nr_in_block' = W * EntriesPerBlock + nr_in_block + 1
    <3> HIDE DEF W
    <3>1. (W + 1) * EntriesPerBlock = W * EntriesPerBlock + EntriesPerBlock
      BY <1>1, <1>2
    <3>2. W * EntriesPerBlock \in Nat
      BY <1>1, <1>2
    <3> QED BY <1>1, <2>1, <2>5, <3>1, <3>2
  <2> QED BY <2>3, <2>4, <2>6, <2>8, <2>9, <2>10 DEF e
<1> QED BY <1>5, <1>6

\* The walk yields the least key that is left, so the table stays in order.
LEMMA EmitEntryKeeps ==
    ASSUME Inv, EmitEntry
    PROVE  Inv'
<1> DEFINE W == Written
           p == nr_in_block + 1
           k0 == Min(nodes)
<1>1. /\ UNCHANGED <<sstables, pc, index, newest>> /\ pc = "emit"
      /\ nodes' = nodes \ {k0} /\ nodes \in SUBSET Keys /\ nodes # {}
  BY DEF EmitEntry, Inv, TypeOK
<1>2. k0 \in nodes /\ \A k \in nodes : k \in Nat /\ k0 <= k
  BY <1>1, KeyBounds, ConstantFacts
<1>3. IsFiniteSet(nodes) /\ Cardinality(nodes) \in Nat
  BY <1>1, KeyBounds
<1>4. Cardinality(nodes') = Cardinality(nodes) - 1
  BY <1>1, <1>2, <1>3, FS_RemoveElement
<1>5. W \in Nat /\ p \in Nat /\ nr_in_block \in Nat /\ EntriesPerBlock \in Nat
  <2>1. index.start \in 1 .. Len(media) /\ Len(media) \in Nat
    BY <1>1, TypeFacts DEF Inv, WriterOK
  <2> QED BY <2>1, TypeFacts, ConstantFacts DEF Inv, Written
<1>6. /\ TypeOK' /\ Extends
      /\ \A b, i \in Nat : Packed(b, i)' <=> Packed(b, i) \/ (b = W /\ i = p)
      /\ \A b, i \in Nat : Packed(b, i) => New(b, i)' = New(b, i) /\ Before(b, i, W, p)
      /\ \A b, i \in Nat : b = W /\ i = p => New(b, i)' = Entry(k0, <<Number, k0>>)
      /\ Written' * EntriesPerBlock + nr_in_block' = W * EntriesPerBlock + nr_in_block + 1
  BY PackOne
<1>7. /\ TablesTile' /\ TablesOK'
      /\ \A k \in Keys : newest'[k] = newest[k] /\ FromList(k) => FromList(k)'
  <2>1. EndOfTables' = EndOfTables
    BY <1>1 DEF EndOfTables
  <2> QED BY <1>1, <1>6, <2>1, ListKept
<1>8. Number' = Number
  BY <1>1 DEF Number
<1>9. ASSUME NEW b \in Nat, NEW i \in Nat, Packed(b, i)'
      PROVE  \/ Packed(b, i) /\ New(b, i)' = New(b, i) /\ Before(b, i, W, p)
             \/ /\ b = W /\ i = p /\ New(b, i)' = Entry(k0, <<Number, k0>>)
                /\ ~Packed(b, i)
  <2>1. ~Packed(W, p)
    BY <1>5 DEF Packed
  <2> HIDE DEF W, p
  <2> QED BY <1>6, <1>9, <2>1
<1>10. Entry(k0, <<Number, k0>>).logical_block = k0
       /\ Entry(k0, <<Number, k0>>).physical_sector = <<Number, k0>>
  BY DEF Entry
<1> HIDE DEF W, p, k0
<1>11. \A b, i \in Nat : Packed(b, i) =>
         /\ New(b, i).logical_block \in index.min_key .. index.max_key
         /\ New(b, i).physical_sector = <<Number, New(b, i).logical_block>>
         /\ \A k \in nodes : New(b, i).logical_block < k
         /\ \A c, j \in Nat : Packed(c, j) /\ Before(b, i, c, j) =>
               New(b, i).logical_block < New(c, j).logical_block
  BY <1>1 DEF Inv, WriterOK
<1>12. nodes \subseteq index.min_key .. index.max_key
  BY <1>1 DEF Inv, WriterOK
<1>13. WriterOK'
  <2>1. Written' * EntriesPerBlock + nr_in_block' + Cardinality(nodes') = index'.nr_entries
    <3>1. W * EntriesPerBlock + nr_in_block + Cardinality(nodes) = index.nr_entries
      BY <1>1 DEF Inv, WriterOK, W
    <3>2. W * EntriesPerBlock \in Nat
      BY <1>5
    <3> QED BY <1>1, <1>3, <1>4, <1>5, <1>6, <3>1, <3>2
  <2>2. index'.start \in 1 .. Len(media') /\ media'[index'.start].header = index'
    <3>1. index.start \in 1 .. Len(media) /\ media[index.start].header = index
      BY <1>1 DEF Inv, WriterOK
    <3> QED BY <1>1, <1>6, <3>1, TypeFacts DEF Extends, Inv
  <2>3. ASSUME NEW b \in Nat, NEW i \in Nat, Packed(b, i)'
        PROVE  /\ New(b, i)'.logical_block \in index.min_key .. index.max_key
               /\ New(b, i)'.physical_sector = <<Number, New(b, i)'.logical_block>>
               /\ \A k \in nodes' : New(b, i)'.logical_block < k
    <3>1. CASE Packed(b, i) /\ New(b, i)' = New(b, i)
      BY <1>1, <1>11, <3>1
    <3>2. CASE New(b, i)' = Entry(k0, <<Number, k0>>)
      <4>1. \A k \in nodes' : k0 < k
        BY <1>1, <1>2
      <4> QED BY <1>2, <1>10, <1>12, <3>2, <4>1
    <3> QED BY <1>9, <2>3, <3>1, <3>2
  <2>4. ASSUME NEW b \in Nat, NEW i \in Nat, NEW c \in Nat, NEW j \in Nat,
               Packed(b, i)', Packed(c, j)', Before(b, i, c, j)
        PROVE  New(b, i)'.logical_block < New(c, j)'.logical_block
    <3>1. CASE Packed(b, i) /\ New(b, i)' = New(b, i)
      <4>1. CASE Packed(c, j) /\ New(c, j)' = New(c, j)
        BY <1>11, <2>4, <3>1, <4>1
      <4>2. CASE New(c, j)' = Entry(k0, <<Number, k0>>)
        BY <1>2, <1>10, <1>11, <3>1, <4>2
      <4> QED BY <1>9, <2>4, <4>1, <4>2
    <3>2. CASE b = W /\ i = p
      <4>1. CASE Before(c, j, W, p)
        BY <1>5, <2>4, <3>2, <4>1 DEF Before
      <4>2. CASE c = W /\ j = p
        BY <1>5, <2>4, <3>2, <4>2 DEF Before
      <4> QED BY <1>9, <2>4, <4>1, <4>2
    <3> QED BY <1>9, <2>4, <3>1, <3>2
  <2>6. /\ index \in Index /\ Claims(index) /\ Number <= MaxTables
        /\ nodes' \subseteq index.min_key .. index.max_key
    BY <1>1, <1>12 DEF Inv, WriterOK
  <2> QED BY <1>1, <1>8, <2>1, <2>2, <2>3, <2>4, <2>6 DEF WriterOK, Claims, Before
<1>14. NewestOK'
  <2>1. ASSUME NEW k \in Keys PROVE Pending(k)' <=> Pending(k)
    <3>1. ASSUME Pending(k) PROVE Pending(k)'
      <4>1. CASE k \in nodes /\ k # k0
        BY <1>1, <4>1 DEF Pending
      <4>2. CASE k = k0
        <5> QED BY <1>1, <1>5, <1>6, <1>10, <4>2 DEF Pending
      <4>3. ASSUME NEW b \in Nat, NEW i \in Nat, Packed(b, i), New(b, i).logical_block = k
            PROVE  Pending(k)'
        BY <1>1, <1>6, <4>3 DEF Pending
      <4> QED BY <3>1, <4>1, <4>2, <4>3 DEF Pending
    <3>2. ASSUME Pending(k)' PROVE Pending(k)
      <4>1. CASE k \in nodes'
        BY <1>1, <4>1 DEF Pending
      <4>2. ASSUME NEW b \in Nat, NEW i \in Nat, Packed(b, i)', New(b, i)'.logical_block = k
            PROVE  Pending(k)
        BY <1>1, <1>2, <1>9, <1>10, <4>2 DEF Pending
      <4> QED BY <3>2, <4>1, <4>2 DEF Pending
    <3> QED BY <3>1, <3>2
  <2> QED BY <1>1, <1>7, <1>8, <2>1 DEF Inv, NewestOK
<1>15. SearchOK' /\ NeverNarrowedAway' /\ FindsNewest'
  BY <1>1 DEF SearchOK, Searching, NeverNarrowedAway, FindsNewest
<1> QED BY <1>6, <1>7, <1>13, <1>14, <1>15 DEF Inv

\* When the walk is over, the payload is what the header claims: its blocks and
\* the slots that are filled are those packed.
LEMMA WrittenIsClaimed ==
    ASSUME Inv, EmitTail
    PROVE  /\ TypeOK' /\ Extends
           /\ index.start + index.nr_blocks = Len(media') + 1
           /\ \A s : s = index => \A b, i \in Nat :
                 /\ Slot(s, b, i) <=> Packed(b, i)
                 /\ Packed(b, i) => At(s, b, i)' = New(b, i)
<1> DEFINE W == Written
           r == nr_in_block
           e == EntriesPerBlock
           R == [header : Index \cup {None}, payload : Block]
<1>1. /\ pc = "emit" /\ nodes = {} /\ index' = None /\ nodes' = nodes
      /\ sstables' = <<index>> \o sstables /\ pc' = "idle"
      /\ block' = EmptyBlock /\ nr_in_block' = 0
      /\ UNCHANGED <<searchVars, newest>>
      /\ media' = IF r = 0 THEN media ELSE Append(media, Payload(block))
  BY DEF EmitTail
<1>2. /\ e \in Nat /\ e >= 1 /\ r \in Nat /\ r < e /\ Len(media) \in Nat
      /\ index.start \in 1 .. Len(media) /\ index \in Index
      /\ Claims(index) /\ Number <= MaxTables
  BY <1>1, TypeFacts, ConstantFacts DEF Inv, WriterOK
<1>3. /\ W \in Nat /\ index.start \in Nat /\ index.start + W = Len(media)
      /\ index.start >= 1
  BY <1>2 DEF Written
<1>4. index.nr_entries = W * e + r
  <2>1. W * e + r + Cardinality(nodes) = index.nr_entries
    BY <1>1 DEF Inv, WriterOK
  <2>2. Cardinality(nodes) = 0
    BY <1>1, FS_EmptySet
  <2>3. W * e + r \in Nat
    <3> HIDE DEF W, e, r
    <3> QED BY <1>2, <1>3
  <2> QED BY <2>1, <2>2, <2>3
<1>5. index.nr_blocks = W + (IF r = 0 THEN 1 ELSE 2)
  <2> HIDE DEF W, r
  <2> QED BY <1>2, <1>3, <1>4, CountBlocks DEF Claims
<1>6. \A b \in Nat : EntriesInBlock(index.nr_entries, b) =
         IF b < W THEN e ELSE IF b = W THEN r ELSE 0
  <2> SUFFICES ASSUME NEW b \in Nat
               PROVE  EntriesInBlock(W * e + r, b) =
                         IF b < W THEN e ELSE IF b = W THEN r ELSE 0
    BY <1>4
  <2> HIDE DEF W, r
  <2> QED BY <1>2, <1>3, CountEntries
<1>7. /\ Extends /\ media' \in Seq(R)
      /\ Len(media') = Len(media) + (IF r = 0 THEN 0 ELSE 1)
      /\ r # 0 => media'[Len(media) + 1].payload = block
  <2>1. CASE r = 0
    BY <1>1, <1>2, <2>1 DEF Extends, Inv, TypeOK
  <2>2. CASE r # 0
    <3>1. Payload(block) \in R /\ Payload(block).payload = block
      BY DEF Payload, Inv, TypeOK
    <3>2. /\ Extends /\ media' \in Seq(R)
          /\ Len(media') = Len(media) + 1
          /\ media'[Len(media) + 1] = Payload(block)
      BY <1>1, <2>2, <3>1, AppendExtends DEF Inv
    <3> QED BY <2>2, <3>1, <3>2
  <2> QED BY <2>1, <2>2
<1>8. TypeOK'
  <2>1. sstables' \in Seq(Index) /\ Len(sstables') = Len(sstables) + 1
    BY <1>1, <1>2 DEF Inv, TypeOK
  <2>2. Len(sstables') <= MaxTables
    BY <1>2, <2>1 DEF Number
  <2>3. nr_in_block' \in 0 .. EntriesPerBlock - 1
    BY <1>1, <1>2
  <2> QED BY <1>1, <1>7, <2>1, <2>2, <2>3, BlockFacts DEF Inv, TypeOK, searchVars
<1>9. index.start + index.nr_blocks = Len(media') + 1
  BY <1>2, <1>3, <1>5, <1>7
<1>10. \A b, i \in Nat : Slot(index, b, i) <=> Packed(b, i)
  BY <1>2, <1>3, <1>5, <1>6 DEF Slot, Packed
<1>11. ASSUME NEW b \in Nat, NEW i \in Nat, Packed(b, i)
       PROVE  media'[index.start + b + 1].payload[i] = New(b, i)
  <2>1. CASE b = W
    <3>1. r # 0 /\ index.start + b + 1 = Len(media) + 1
      BY <1>2, <1>3, <1>11, <2>1 DEF Packed
    <3> QED BY <1>7, <2>1, <3>1 DEF New
  <2>2. CASE b # W
    <3>1. index.start + b + 1 \in 1 .. Len(media)
      BY <1>2, <1>3, <1>11, <2>2 DEF Packed
    <3> QED BY <1>7, <2>2, <3>1 DEF New, At, Extends
  <2> QED BY <2>1, <2>2
<1>12. \A s : s = index => \A b, i \in Nat :
          /\ Slot(s, b, i) <=> Packed(b, i)
          /\ Packed(b, i) => At(s, b, i)' = New(b, i)
  BY <1>10, <1>11 DEF At
<1> QED BY <1>7, <1>8, <1>9, <1>12

\* The list with the new table at its head.
LEMMA NewHead ==
    ASSUME TypeOK, index \in Index, sstables' = <<index>> \o sstables
    PROVE  /\ Len(sstables) \in Nat /\ Len(sstables') = Len(sstables) + 1
           /\ sstables'[1] = index
           /\ \A t \in 1 .. Len(sstables') :
                 t # 1 => t - 1 \in 1 .. Len(sstables) /\ sstables'[t] = sstables[t - 1]
           /\ \A t \in 1 .. Len(sstables) :
                 t + 1 \in 1 .. Len(sstables') /\ sstables'[t + 1] = sstables[t]
<1>1. sstables \in Seq(Index)
  BY DEF TypeOK
<1> QED BY <1>1

\* The table is published: it is in order and comes before all others.
LEMMA EmitTailKeeps ==
    ASSUME Inv, EmitTail
    PROVE  Inv'
<1> DEFINE L == Len(sstables)
<1>1. /\ pc = "emit" /\ nodes = {} /\ pc' = "idle" /\ newest' = newest
      /\ sstables' = <<index>> \o sstables
  BY DEF EmitTail
<1>2. /\ index \in Index /\ Claims(index) /\ index.start \in 1 .. Len(media)
      /\ media[index.start].header = index
      /\ Len(media) \in Nat
  BY <1>1, TypeFacts DEF Inv, WriterOK
<1>3. /\ TypeOK' /\ Extends
      /\ index.start + index.nr_blocks = Len(media') + 1
      /\ \A s : s = index => \A b, i \in Nat :
            /\ Slot(s, b, i) <=> Packed(b, i)
            /\ Packed(b, i) => At(s, b, i)' = New(b, i)
  BY WrittenIsClaimed
<1>4. /\ L \in Nat /\ Len(sstables') = L + 1 /\ sstables'[1] = index
      /\ \A t \in 1 .. Len(sstables') :
            t # 1 => t - 1 \in 1 .. L /\ sstables'[t] = sstables[t - 1]
      /\ \A t \in 1 .. L : t + 1 \in 1 .. Len(sstables') /\ sstables'[t + 1] = sstables[t]
  BY <1>1, <1>2, NewHead DEF Inv
<1>5. \A t \in 1 .. L : \A s : s = sstables[t] =>
         /\ s.start \in 1 .. Len(media)
         /\ media'[s.start] = media[s.start]
         /\ \A b, i : Slot(s, b, i) => At(s, b, i)' = At(s, b, i)
         /\ \A k : Holds(s, k)' <=> Holds(s, k)
  BY <1>3, TableStays
<1> HIDE DEF L
<1>6. TablesTile'
  <2> SUFFICES ASSUME NEW t \in 1 .. Len(sstables')
               PROVE  /\ media'[sstables'[t].start].header = sstables'[t]
                      /\ sstables'[t].start + sstables'[t].nr_blocks =
                            (IF t > 1 THEN sstables'[t - 1].start ELSE Len(media') + 1)
    BY <1>1 DEF TablesTile
  <2>1. CASE t = 1
    BY <1>2, <1>3, <1>4, <2>1 DEF Extends
  <2>2. CASE t = 2
    <3>1. 1 \in 1 .. L /\ sstables'[2] = sstables[1]
      BY <1>4, <2>2
    <3>2. media[sstables[1].start].header = sstables[1]
          /\ sstables[1].start + sstables[1].nr_blocks = index.start
      BY <1>1, <3>1 DEF Inv, TablesTile, L
    <3> QED BY <1>4, <1>5, <2>2, <3>1, <3>2
  <2>3. CASE t > 2
    <3>1. t - 1 \in 1 .. L /\ t - 1 > 1 /\ sstables'[t] = sstables[t - 1]
      BY <1>4, <2>3
    <3>2. t - 1 \in 1 .. Len(sstables') /\ t - 1 # 1
      BY <1>4, <2>3
    <3>3. sstables'[t - 1] = sstables[t - 1 - 1]
      BY <1>4, <3>2
    <3>4. media[sstables[t - 1].start].header = sstables[t - 1]
          /\ sstables[t - 1].start + sstables[t - 1].nr_blocks = sstables[t - 1 - 1].start
      BY <3>1 DEF Inv, TablesTile, L
    <3> QED BY <1>5, <2>3, <3>1, <3>3, <3>4
  <2> QED BY <1>4, <2>1, <2>2, <2>3
<1>7. \A t \in 1 .. Len(sstables') : Placed(t)'
  <2> SUFFICES ASSUME NEW t \in 1 .. Len(sstables')
               PROVE  /\ Claims(sstables'[t]) /\ 1 <= sstables'[t].start
                      /\ sstables'[t].start + sstables'[t].nr_blocks <= Len(media') + 1
    BY <1>1 DEF Placed, EndOfTables, Claims
  <2>1. CASE t = 1
    BY <1>2, <1>3, <1>4, <2>1 DEF Extends
  <2>2. CASE t # 1
    <3>1. t - 1 \in 1 .. L /\ sstables'[t] = sstables[t - 1]
      BY <1>4, <2>2
    <3>2. /\ Claims(sstables[t - 1]) /\ 1 <= sstables[t - 1].start
          /\ sstables[t - 1].start + sstables[t - 1].nr_blocks <= index.start
      BY <1>1, <3>1 DEF Inv, TablesOK, Placed, EndOfTables, L
    <3>3. sstables[t - 1].start \in Nat /\ sstables[t - 1].nr_blocks \in Nat
      BY <3>1, TypeFacts DEF Inv, L
    <3>4. index.start <= Len(media') + 1 /\ index.start \in Nat /\ Len(media') \in Nat
      BY <1>2, <1>3 DEF Extends
    <3> QED BY <3>1, <3>2, <3>3, <3>4
  <2> QED BY <2>1, <2>2
<1>8. \A t \in 1 .. Len(sstables') : Sorted(t)'
  <2> SUFFICES ASSUME NEW t \in 1 .. Len(sstables') PROVE Sorted(t)'
    OBVIOUS
  <2>1. CASE t = 1
    <3>1. \A b, i \in Nat : Packed(b, i) =>
             /\ New(b, i).logical_block \in index.min_key .. index.max_key
             /\ New(b, i).physical_sector = <<Number, New(b, i).logical_block>>
             /\ \A c, j \in Nat : Packed(c, j) /\ Before(b, i, c, j) =>
                   New(b, i).logical_block < New(c, j).logical_block
      BY <1>1 DEF Inv, WriterOK
    <3>2. Len(sstables') + 1 - t = Number
      BY <1>4, <2>1 DEF Number, L
    <3>3. sstables'[t] = index
      BY <1>4, <2>1
    <3>4. ASSUME NEW s, s = index
          PROVE  \A b, i \in Nat : Slot(s, b, i) =>
                    /\ At(s, b, i)'.logical_block \in s.min_key .. s.max_key
                    /\ At(s, b, i)'.physical_sector = <<Number, At(s, b, i)'.logical_block>>
                    /\ \A c, j \in Nat : Slot(s, c, j) /\ Before(b, i, c, j) =>
                          At(s, b, i)'.logical_block < At(s, c, j)'.logical_block
      <4>1. \A b, i \in Nat : Slot(s, b, i) => Packed(b, i) /\ At(s, b, i)' = New(b, i)
        BY <1>3, <3>4
      <4> HIDE DEF Slot, At, New, Packed, Before
      <4> QED BY <3>1, <3>4, <4>1
    <3> QED BY <3>2, <3>3, <3>4 DEF Sorted, At, Slot, Before
  <2>2. CASE t # 1
    <3>1. t - 1 \in 1 .. L /\ sstables'[t] = sstables[t - 1]
      BY <1>4, <2>2
    <3>2. Sorted(t - 1)
      BY <3>1 DEF Inv, TablesOK, L
    <3>3. Len(sstables') + 1 - t = Len(sstables) + 1 - (t - 1)
      BY <1>4, <2>2 DEF L
    <3>4. ASSUME NEW s, s = sstables[t - 1]
          PROVE  \A b, i \in Nat : Slot(s, b, i) =>
                    /\ At(s, b, i)'.logical_block \in s.min_key .. s.max_key
                    /\ At(s, b, i)'.physical_sector =
                          <<Len(sstables) + 1 - (t - 1), At(s, b, i)'.logical_block>>
                    /\ \A c, j \in Nat : Slot(s, c, j) /\ Before(b, i, c, j) =>
                          At(s, b, i)'.logical_block < At(s, c, j)'.logical_block
      <4>1. \A b, i : Slot(s, b, i) => At(s, b, i)' = At(s, b, i)
        BY <1>5, <3>1, <3>4
      <4> QED BY <3>2, <3>4, <4>1 DEF Sorted
    <3>5. \A s : s = sstables[t - 1] => \A b, i \in Nat : Slot(s, b, i) =>
             /\ At(s, b, i)'.logical_block \in s.min_key .. s.max_key
             /\ At(s, b, i)'.physical_sector =
                   <<Len(sstables') + 1 - t, At(s, b, i)'.logical_block>>
             /\ \A c, j \in Nat : Slot(s, c, j) /\ Before(b, i, c, j) =>
                   At(s, b, i)'.logical_block < At(s, c, j)'.logical_block
      BY <3>3, <3>4
    <3> QED BY <3>1, <3>5 DEF Sorted, At, Slot, Before
  <2> QED BY <2>1, <2>2
<1>9. TablesOK' /\ WriterOK'
  BY <1>1, <1>7, <1>8 DEF TablesOK, WriterOK
<1>10. ASSUME NEW k \in Keys PROVE FromList(k)'
  <2>1. \A s : s = index => (Holds(s, k)' <=> Pending(k))
    <3> SUFFICES ASSUME NEW s, s = index PROVE Holds(s, k)' <=> Pending(k)
      OBVIOUS
    <3>1. /\ \A b, i \in Nat : Slot(s, b, i) <=> Packed(b, i)
          /\ \A b, i \in Nat : Packed(b, i) => At(s, b, i)' = New(b, i)
      BY <1>3
    <3>2. \A b \in 0 .. s.nr_blocks - 2, i \in 1 .. EntriesPerBlock : b \in Nat /\ i \in Nat
      BY <1>2 DEF Index
    <3>3. \A b, i : Slot(s, b, i) => b \in 0 .. s.nr_blocks - 2 /\ i \in 1 .. EntriesPerBlock
      BY DEF Slot
    <3>4. Holds(s, k)' <=> \E b \in 0 .. s.nr_blocks - 2, i \in 1 .. EntriesPerBlock :
                              Slot(s, b, i) /\ At(s, b, i)'.logical_block = k
      BY DEF Holds, Slot
    <3>5. Pending(k) <=> \E b, i \in Nat : Packed(b, i) /\ New(b, i).logical_block = k
      BY <1>1 DEF Pending
    <3> QED BY <3>1, <3>2, <3>3, <3>4, <3>5
  <2>2. Holds(sstables[1], k)' <=> Pending(k)
    BY <1>4, <2>1 DEF Holds, At, Slot
  <2>3. \A t \in 1 .. L : \A s : s = sstables[t] => (Holds(s, k)' <=> Holds(s, k))
    BY <1>5
  <2>4. ASSUME NEW t \in 1 .. L
        PROVE  Holds(sstables[t + 1], k)' <=> Holds(sstables[t], k)
    <3>1. sstables'[t + 1] = sstables[t]
      BY <1>4
    <3>2. \A s : s = sstables'[t + 1] => (Holds(sstables[t + 1], k)' <=> Holds(s, k)')
      BY DEF Holds, At, Slot
    <3> QED BY <2>3, <3>1, <3>2
  <2>5. CASE Pending(k)
    <3>1. newest[k] = <<L + 1, k>>
      BY <2>5 DEF Inv, NewestOK, Number, L
    <3>2. 1 \in 1 .. Len(sstables') /\ Len(sstables') + 1 - 1 = L + 1
      BY <1>4
    <3>3. FirstHolds(1, k)'
      BY <2>2, <2>5 DEF FirstHolds
    <3> QED BY <1>1, <3>1, <3>2, <3>3 DEF FromList
  <2>6. CASE ~Pending(k)
    <3>1. FromList(k)
      BY <2>6 DEF Inv, NewestOK
    <3>2. ~Holds(sstables[1], k)'
      BY <2>2, <2>6
    <3>3. ASSUME \A t \in 1 .. L : ~Holds(sstables[t], k)
          PROVE  \A t \in 1 .. Len(sstables') : ~Holds(sstables[t], k)'
      <4> SUFFICES ASSUME NEW t \in 1 .. Len(sstables') PROVE ~Holds(sstables[t], k)'
        OBVIOUS
      <4>1. CASE t = 1
        BY <3>2, <4>1
      <4>2. CASE t # 1
        <5>1. t - 1 \in 1 .. L /\ (t - 1) + 1 = t
          BY <1>4, <4>2
        <5> QED BY <2>4, <3>3, <5>1
      <4> QED BY <4>1, <4>2
    <3>4. ASSUME NEW t \in 1 .. L, FirstHolds(t, k)
          PROVE  FirstHolds(t + 1, k)'
      <4>1. Holds(sstables[t + 1], k)'
        BY <2>4, <3>4 DEF FirstHolds
      <4>2. ASSUME NEW u \in 1 .. Len(sstables'), u < t + 1
            PROVE  ~Holds(sstables[u], k)'
        <5>1. CASE u = 1
          BY <3>2, <5>1
        <5>2. CASE u # 1
          <6>1. u - 1 \in 1 .. L /\ (u - 1) + 1 = u /\ u - 1 < t
            BY <1>4, <4>2, <5>2
          <6>2. ~Holds(sstables[u - 1], k)
            BY <3>4, <6>1 DEF FirstHolds, L
          <6> QED BY <2>4, <6>1, <6>2
        <5> QED BY <5>1, <5>2
      <4> QED BY <4>1, <4>2 DEF FirstHolds
    <3>5. CASE newest[k] = None /\ \A t \in 1 .. L : ~Holds(sstables[t], k)
      BY <1>1, <3>3, <3>5 DEF FromList
    <3>6. ASSUME NEW t \in 1 .. L, FirstHolds(t, k), newest[k] = <<L + 1 - t, k>>
          PROVE  FromList(k)'
      <4>1. t + 1 \in 1 .. Len(sstables') /\ Len(sstables') + 1 - (t + 1) = L + 1 - t
        BY <1>4
      <4> QED BY <1>1, <3>4, <3>6, <4>1 DEF FromList
    <3> QED BY <3>1, <3>5, <3>6 DEF FromList, L
  <2> QED BY <2>5, <2>6
<1>11. NewestOK'
  BY <1>1, <1>10 DEF NewestOK, Pending
<1>12. SearchOK' /\ NeverNarrowedAway' /\ FindsNewest'
  BY <1>1 DEF SearchOK, Searching, NeverNarrowedAway, FindsNewest
<1> QED BY <1>3, <1>6, <1>9, <1>11, <1>12 DEF Inv

(***************************************************************************)
(* The theorems                                                            *)
(***************************************************************************)
\* The invariant holds before the first table.
LEMMA InitInv == Init => Inv
<1> SUFFICES ASSUME Init PROVE Inv
  OBVIOUS
<1> USE DEF Init
<1>1. TypeOK
  BY ConstantFacts, BlockFacts DEF TypeOK
<1>2. Len(sstables) = 0
  OBVIOUS
<1>3. TablesTile /\ TablesOK /\ WriterOK /\ SearchOK
  BY <1>2 DEF TablesTile, TablesOK, WriterOK, SearchOK, Searching
<1>4. NewestOK
  BY <1>2 DEF NewestOK, Pending, FromList
<1>5. NeverNarrowedAway /\ FindsNewest
  BY DEF NeverNarrowedAway, FindsNewest
<1> QED BY <1>1, <1>3, <1>4, <1>5 DEF Inv

\* Nothing changes in a step of somebody else.
LEMMA StutterKeeps ==
    ASSUME Inv, UNCHANGED vars
    PROVE  Inv'
<1> USE DEF vars, writeVars, searchVars
<1>1. \A s, b, i : At(s, b, i)' = At(s, b, i)
  BY DEF At
<1>2. \A s, k : Holds(s, k)' <=> Holds(s, k)
  BY <1>1 DEF Holds
<1>3. \A b, i : (Packed(b, i)' <=> Packed(b, i)) /\ New(b, i)' = New(b, i)
  BY DEF Packed, New, At, Written
<1>4. TypeOK' /\ TablesTile' /\ FindsNewest'
  BY DEF Inv, TypeOK, Sst, TablesTile, FindsNewest
<1>5. NeverNarrowedAway'
  BY DEF Inv, NeverNarrowedAway, PayloadBlock, Sst
<1>6. TablesOK'
  <2>1. \A t \in 1 .. Len(sstables) : Placed(t)'
    BY DEF Inv, TablesOK, Placed, EndOfTables
  <2>2. \A t \in 1 .. Len(sstables) : Sorted(t)'
    <3> SUFFICES ASSUME NEW t \in 1 .. Len(sstables) PROVE Sorted(t)'
      OBVIOUS
    <3>1. Sorted(t)
      BY DEF Inv, TablesOK
    <3>2. \A b, i : Slot(sstables[t], b, i) => At(sstables[t], b, i)' = At(sstables[t], b, i)
      BY <1>1
    <3> QED BY <3>1, <3>2, SortedKept
  <2> QED BY <2>1, <2>2 DEF TablesOK
<1>7. WriterOK'
  BY <1>3 DEF Inv, WriterOK, Number, Written
<1>8. NewestOK'
  <2>1. \A k : (Pending(k)' <=> Pending(k)) /\ (FromList(k)' <=> FromList(k))
    BY <1>2, <1>3 DEF Pending, FromList, FirstHolds
  <2> QED BY <2>1 DEF Inv, NewestOK, Number
<1>9. SearchOK'
  BY <1>2 DEF Inv, SearchOK, Searching, PayloadBlock, Sst
<1> QED BY <1>4, <1>5, <1>6, <1>7, <1>8, <1>9 DEF Inv

\* Every step keeps the invariant, and no turn of a lookup is wasted.
LEMMA NextKeeps ==
    ASSUME Inv, [Next]_vars
    PROVE  Inv' /\ (TurnShrinks \/ UNCHANGED vars)
<1>1. ASSUME NEW S \in (SUBSET Keys) \ {{}}, WriteHeader(S) PROVE Inv' /\ TurnShrinks
  BY <1>1, WriteHeaderKeeps DEF WriteHeader, TurnShrinks
<1>2. ASSUME NEW k \in Keys, Lookup(k) PROVE Inv' /\ TurnShrinks
  BY <1>2, LookupKeeps DEF Lookup, TurnShrinks
<1>3. CASE EmitEntry
  BY <1>3, EmitEntryKeeps DEF EmitEntry, TurnShrinks
<1>4. CASE EmitTail
  BY <1>4, EmitTailKeeps DEF EmitTail, TurnShrinks
<1>5. CASE EndOfList
  BY <1>5, EndOfListKeeps DEF EndOfList, Return, TurnShrinks
<1>6. CASE OutOfRange
  BY <1>6, OutOfRangeKeeps DEF OutOfRange, NextTable, TurnShrinks
<1>7. CASE EnterTable
  BY <1>7, EnterTableKeeps DEF EnterTable, TurnShrinks
<1>8. CASE NarrowBlocks
  BY <1>8, NarrowBlocksKeeps
<1>9. CASE EnterBlock
  BY <1>9, EnterBlockKeeps DEF EnterBlock, TurnShrinks
<1>10. CASE NarrowEntries
  BY <1>10, NarrowEntriesKeeps
<1>11. CASE Found
  BY <1>11, FoundKeeps DEF Found, Return, TurnShrinks
<1>12. CASE NotFound
  BY <1>12, NotFoundKeeps DEF NotFound, NextTable, TurnShrinks
<1>13. CASE ReadFails
  BY <1>13, ReadFailsKeeps DEF ReadFails, Return, TurnShrinks
<1>14. CASE UNCHANGED vars
  BY <1>14, StutterKeeps
<1> QED BY <1>1, <1>2, <1>3, <1>4, <1>5, <1>6, <1>7, <1>8, <1>9, <1>10, <1>11,
           <1>12, <1>13, <1>14 DEF Next, Write, Search

\* The inductive invariant of writer and search.
THEOREM InvHolds == Spec => []Inv
BY InitInv, NextKeeps, PTL DEF Spec

\* Type correctness; for the two binary searches this says that their unsigned
\* bounds never pass below zero or beyond the table.
THEOREM TypeCorrect == Spec => []TypeOK
<1>1. Inv => TypeOK
  BY DEF Inv
<1> QED BY <1>1, InvHolds, PTL

\* The blocks a header claims are the blocks zns_sst_write() appends behind it, so
\* the tables stand back to back on the media.
THEOREM TablesAlwaysTile == Spec => []TablesTile
<1>1. Inv => TablesTile
  BY DEF Inv
<1> QED BY <1>1, InvHolds, PTL

\* Both binary searches of zns_sst_lookup() keep the entry they look for.
THEOREM SearchKeepsEntry == Spec => []NeverNarrowedAway
<1>1. Inv => NeverNarrowedAway
  BY DEF Inv
<1> QED BY <1>1, InvHolds, PTL

\* zns_lsm_lookup_sstables() answers with the newest mapping of the block, or with
\* none if no table has it, or with an error.
THEOREM LookupFindsNewest == Spec => []FindsNewest
<1>1. Inv => FindsNewest
  BY DEF Inv
<1> QED BY <1>1, InvHolds, PTL

\* Every step of a lookup brings it nearer to its end.
THEOREM LoopsShrink == Spec => TurnsShrink
<1>1. Inv /\ [Next]_vars => [TurnShrinks]_vars
  BY NextKeeps
<1> QED BY <1>1, InvHolds, PTL DEF Spec, TurnsShrink
=============================================================================
