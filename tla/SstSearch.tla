----------------------------- MODULE SstSearch -----------------------------
(***************************************************************************)
(* SSTables on the media and the search in them: zns_sst_write() packs the *)
(* entries of a memtable into payload blocks behind a header, and          *)
(* zns_sst_lookup() finds one again with two nested binary searches that   *)
(* read as few blocks as they can, table by table, newest first.           *)
(*                                                                         *)
(* A table number counts the tables from the oldest; the physical sector   *)
(* an entry holds is the pair of that number and the logical block, so no  *)
(* two entries look alike.  Writes and lookups exclude each other here, as *)
(* sst_lock makes them: how they interleave is the subject of LsmMapping.  *)
(***************************************************************************)
EXTENDS Integers, Sequences, FiniteSets, FiniteSetsExt

CONSTANTS MaxKey,           \* the largest logical block
          EntriesPerBlock,  \* ZNS_SST_ENTRIES_PER_BLOCK
          MaxTables,        \* SSTables written
          None              \* no buffered block, no result

Keys == 0..MaxKey

ASSUME SearchAssumption ==
    /\ MaxKey \in Nat
    /\ EntriesPerBlock \in Nat \ {0}
    /\ MaxTables \in Nat
    /\ None \notin Int \cup (Int \X Int)

VARIABLES
    media,        \* the blocks of the metadata zone, behind the superblock
    sstables,     \* the list of indexes, newest first
    pc,
    nodes,        \* writer: the keys of the nodes rb_next() has still to yield
    index,        \* writer: the zns_sstable being built
    block,        \* the 4 KiB buffer of the writer or of the search
    nr_in_block,  \* writer: entries packed into it
    key,          \* search: the logical block wanted
    at,           \* search: the SSTable of the list
    low, high,    \* search: the range of the loop under way
    cached,       \* search: the payload block in the buffer
    result,       \* search: what it returned, <<>> for an error
    newest        \* history: the mapping the tables make

writeVars  == <<nodes, index, nr_in_block>>
searchVars == <<key, at, low, high, cached, result>>
vars == <<media, sstables, pc, writeVars, block, searchVars, newest>>

\* One entry on the media; the tail of the last block is zero.
Entry(k, p) == [logical_block |-> k, physical_sector |-> p]
Padding     == Entry(0, <<0, 0>>)
EmptyBlock  == [i \in 1..EntriesPerBlock |-> Padding]

\* A block of the media is a header or a payload block.
Header(h)  == [header |-> h, payload |-> EmptyBlock]
Payload(b) == [header |-> None, payload |-> b]

\* zns_sst_nr_blocks(), the header included.
NrBlocksRoundedDown(n) == 1 + n \div EntriesPerBlock
NrBlocks(n) == 1 + (n + EntriesPerBlock - 1) \div EntriesPerBlock

\* zns_sst_entries_in_block()
EntriesInBlockFull(n, b) == EntriesPerBlock

EntriesInBlock(n, b) ==
    LET consumed == b * EntriesPerBlock
    IN  IF consumed >= n THEN 0
        ELSE IF n - consumed < EntriesPerBlock THEN n - consumed ELSE EntriesPerBlock

Init ==
    /\ media = <<>>
    /\ sstables = <<>>
    /\ pc = "idle"
    /\ nodes = {} /\ index = None /\ nr_in_block = 0
    /\ block = EmptyBlock
    /\ key = 0 /\ at = 1 /\ low = 0 /\ high = 0 /\ cached = None /\ result = None
    /\ newest = [k \in Keys |-> None]

(***************************************************************************)
(* zns_sst_write()                                                         *)
(***************************************************************************)
Number == Len(sstables) + 1

\* zns_sst_scan_memtable(), the size check and the header block.  The memtable
\* is a red-black tree: its walk yields the keys in order, the least one first.
WriteHeader(S) ==
    /\ pc \in {"idle", "returned"}
    /\ Len(sstables) < MaxTables
    /\ nodes' = S
    /\ index' = [start      |-> Len(media) + 1,
                 nr_entries |-> Cardinality(S),
                 nr_blocks  |-> NrBlocks(Cardinality(S)),
                 min_key    |-> Min(S),
                 max_key    |-> Max(S)]
    /\ media' = Append(media, Header(index'))
    /\ block' = EmptyBlock /\ nr_in_block' = 0
    /\ newest' = [k \in Keys |-> IF k \in S THEN <<Number, k>> ELSE newest[k]]
    /\ pc' = "emit"
    /\ key' = 0 /\ at' = 1 /\ low' = 0 /\ high' = 0 /\ cached' = None /\ result' = None
    /\ UNCHANGED sstables

\* Defect: a block is written one entry too late.
EmitEntryLate ==
    /\ pc = "emit"
    /\ nodes # {}
    /\ LET filled == [block EXCEPT ![nr_in_block + 1] =
                         Entry(Min(nodes), <<Number, Min(nodes)>>)]
       IN  IF nr_in_block + 1 <= EntriesPerBlock
             THEN /\ block' = filled
                  /\ nr_in_block' = nr_in_block + 1
                  /\ UNCHANGED media
             ELSE /\ media' = Append(media, Payload(filled))
                  /\ block' = EmptyBlock
                  /\ nr_in_block' = 0
    /\ nodes' = nodes \ {Min(nodes)}
    /\ UNCHANGED <<sstables, pc, index, searchVars, newest>>

\* zns_sst_emit_payload(): one node; a full block goes to the media.
EmitEntry ==
    /\ pc = "emit"
    /\ nodes # {}
    /\ LET filled == [block EXCEPT ![nr_in_block + 1] =
                         Entry(Min(nodes), <<Number, Min(nodes)>>)]
       IN  IF nr_in_block + 1 < EntriesPerBlock
             THEN /\ block' = filled
                  /\ nr_in_block' = nr_in_block + 1
                  /\ UNCHANGED media
             ELSE /\ media' = Append(media, Payload(filled))
                  /\ block' = EmptyBlock
                  /\ nr_in_block' = 0
    /\ nodes' = nodes \ {Min(nodes)}
    /\ UNCHANGED <<sstables, pc, index, searchVars, newest>>

\* The zero padded tail, if there is one; zns_lsm_publish_sstable() puts the
\* index at the head of the list.
EmitTail ==
    /\ pc = "emit"
    /\ nodes = {}
    /\ media' = IF nr_in_block = 0 THEN media ELSE Append(media, Payload(block))
    /\ sstables' = <<index>> \o sstables
    /\ index' = None
    /\ block' = EmptyBlock /\ nr_in_block' = 0
    /\ pc' = "idle"
    /\ UNCHANGED <<nodes, searchVars, newest>>

(***************************************************************************)
(* zns_lsm_lookup_sstables() and zns_sst_lookup()                          *)
(***************************************************************************)
Sst == sstables[at]

Lookup(k) ==
    /\ pc \in {"idle", "returned"}
    /\ key' = k
    /\ at' = 1
    /\ result' = None
    /\ pc' = "table"
    /\ UNCHANGED <<media, sstables, writeVars, block, low, high, cached, newest>>

Return(r) ==
    /\ pc' = "returned"
    /\ result' = r
    /\ low' = 0 /\ high' = 0 /\ cached' = None
    /\ block' = EmptyBlock

\* -ENODATA from this table: the walk goes on to the next older one.
NextTable ==
    /\ pc' = "table"
    /\ at' = at + 1
    /\ low' = 0 /\ high' = 0 /\ cached' = None
    /\ block' = EmptyBlock
    /\ UNCHANGED result

EndOfList ==
    /\ pc = "table"
    /\ at > Len(sstables)
    /\ Return(None)
    /\ UNCHANGED <<media, sstables, writeVars, key, at, newest>>

InRange == at <= Len(sstables) /\ key \in Sst.min_key .. Sst.max_key

OutOfRange ==
    /\ pc = "table"
    /\ at <= Len(sstables)
    /\ Sst.nr_blocks >= 2
    /\ ~InRange
    /\ NextTable
    /\ UNCHANGED <<media, sstables, writeVars, key, newest>>

EnterTable ==
    /\ pc = "table"
    /\ InRange
    /\ Sst.nr_blocks >= 2
    /\ low' = 0
    /\ high' = Sst.nr_blocks - 2
    /\ cached' = None
    /\ pc' = "blocks"
    /\ UNCHANGED <<media, sstables, writeVars, block, key, at, result, newest>>

\* zns_sst_read_payload_block(): the header comes first.
PayloadBlock(b) == media[Sst.start + b + 1].payload

ReadPayloadBlock(b) ==
    /\ block' = IF cached = b THEN block ELSE PayloadBlock(b)
    /\ cached' = b

\* Defect: the middle is rounded down.
MiddleBlockRoundedDown == low + (high - low) \div 2

MiddleBlock == low + (high - low + 1) \div 2

\* zns_sst_block_first_key()
FirstKey(b) == b[1].logical_block

\* The last payload block whose first key is not above the wanted one.
NarrowBlocks ==
    /\ pc = "blocks"
    /\ low < high
    /\ ReadPayloadBlock(MiddleBlock)
    /\ IF FirstKey(block') <= key
         THEN low' = MiddleBlock /\ UNCHANGED high
         ELSE high' = MiddleBlock - 1 /\ UNCHANGED low
    /\ UNCHANGED <<media, sstables, pc, writeVars, key, at, result, newest>>

\* Defect: any buffered block is taken for the one that was found.
EnterBlockStale ==
    /\ pc = "blocks"
    /\ low = high
    /\ EntriesInBlock(Sst.nr_entries, low) # 0
    /\ block' = IF cached # None THEN block ELSE PayloadBlock(low)
    /\ cached' = low
    /\ low' = 0
    /\ high' = EntriesInBlock(Sst.nr_entries, low)
    /\ pc' = "entries"
    /\ UNCHANGED <<media, sstables, writeVars, key, at, result, newest>>

EnterBlock ==
    /\ pc = "blocks"
    /\ low = high
    /\ EntriesInBlock(Sst.nr_entries, low) # 0
    /\ ReadPayloadBlock(low)
    /\ low' = 0
    /\ high' = EntriesInBlock(Sst.nr_entries, low)
    /\ pc' = "entries"
    /\ UNCHANGED <<media, sstables, writeVars, key, at, result, newest>>

\* zns_sst_block_find()
MiddleEntry == low + (high - low) \div 2
MiddleKey   == block[MiddleEntry + 1].logical_block

NarrowEntries ==
    /\ pc = "entries"
    /\ low < high
    /\ MiddleKey # key
    /\ IF MiddleKey < key
         THEN low' = MiddleEntry + 1 /\ UNCHANGED high
         ELSE high' = MiddleEntry /\ UNCHANGED low
    /\ UNCHANGED <<media, sstables, pc, writeVars, block, key, at, cached,
                   result, newest>>

Found ==
    /\ pc = "entries"
    /\ low < high
    /\ MiddleKey = key
    /\ Return(block[MiddleEntry + 1].physical_sector)
    /\ UNCHANGED <<media, sstables, writeVars, key, at, newest>>

NotFound ==
    /\ pc = "entries"
    /\ low >= high
    /\ NextTable
    /\ UNCHANGED <<media, sstables, writeVars, key, newest>>

\* A table without payload, no memory for the buffer, a block that is not in the
\* buffer and cannot be read, or one that no entry is in.
Unreadable ==
    \/ pc = "table" /\ at <= Len(sstables) /\ (Sst.nr_blocks < 2 \/ InRange)
    \/ /\ pc = "blocks"
       /\ \/ cached # (IF low < high THEN MiddleBlock ELSE low)
          \/ low = high /\ EntriesInBlock(Sst.nr_entries, low) = 0

\* Defect: the walk goes on behind a table it could not read.
ReadFailsSkips ==
    /\ Unreadable
    /\ NextTable
    /\ UNCHANGED <<media, sstables, writeVars, key, newest>>

\* The error of one table is the error of the whole lookup.
ReadFails ==
    /\ Unreadable
    /\ Return(<<>>)
    /\ UNCHANGED <<media, sstables, writeVars, key, at, newest>>

(***************************************************************************)
(* Specification                                                           *)
(***************************************************************************)
Write == EmitEntry \/ EmitTail

Search ==
    \/ EndOfList
    \/ OutOfRange
    \/ EnterTable
    \/ NarrowBlocks
    \/ EnterBlock
    \/ NarrowEntries
    \/ Found
    \/ NotFound
    \/ ReadFails

Next ==
    \/ \E S \in (SUBSET Keys) \ {{}} : WriteHeader(S)
    \/ \E k \in Keys : Lookup(k)
    \/ Write
    \/ Search

Spec == Init /\ [][Next]_vars

\* The thread that writes or searches runs on; no request is assumed.
FairSpec == Spec /\ WF_vars(Write \/ Search)

(***************************************************************************)
(* Properties                                                              *)
(***************************************************************************)
Index == [start : Nat, nr_entries : Nat, nr_blocks : Nat,
          min_key : Keys, max_key : Keys]
Sectors == (0..MaxTables) \X Keys
Block == [1..EntriesPerBlock -> [logical_block : Keys, physical_sector : Sectors]]

\* Every variable has its type: the unsigned bounds of both searches never go
\* below zero, and no block outside its table is read.
TypeOK ==
    /\ media \in Seq([header : Index \cup {None}, payload : Block])
    /\ sstables \in Seq(Index) /\ Len(sstables) <= MaxTables
    /\ pc \in {"idle", "emit", "table", "blocks", "entries", "returned"}
    /\ nodes \in SUBSET Keys
    /\ index \in Index \cup {None}
    /\ block \in Block
    /\ nr_in_block \in 0 .. EntriesPerBlock - 1
    /\ key \in Keys
    /\ at \in 1 .. MaxTables + 1
    /\ low \in Nat /\ high \in Nat
    /\ pc = "blocks" => low <= high /\ high <= Sst.nr_blocks - 2
    /\ pc = "entries" => high <= EntriesPerBlock
    /\ cached \in Nat \cup {None}
    /\ result \in {None, <<>>} \cup Sectors
    /\ newest \in [Keys -> Sectors \cup {None}]

\* A lookup returns the mapping of the newest table that has the block, and
\* nothing when no table has it: wherever the block stands in its table, full or
\* padded, and whatever the older tables hold.  A lookup that cannot read a
\* table fails; it never falls back to an older mapping.
FindsNewest ==
    pc = "returned" => result \in {<<>>, newest[key]}

\* The tables stand back to back on the media, the newest at its end: the number
\* of blocks a header claims is the number that was written behind it, so the
\* next header is found where the recovery scan looks for it.
TablesTile ==
    \A i \in 1..Len(sstables) :
        /\ media[sstables[i].start].header = sstables[i]
        /\ sstables[i].start + sstables[i].nr_blocks =
              (IF i > 1 THEN sstables[i - 1].start
               ELSE IF pc = "emit" THEN index.start
               ELSE Len(media) + 1)

\* Both searches only ever discard what cannot hold the block: while a table
\* that has it is searched, it stays between the two bounds.
NeverNarrowedAway ==
    /\ pc = "blocks" =>
          \A b \in 0 .. Sst.nr_blocks - 2, i \in 1..EntriesPerBlock :
              /\ i <= EntriesInBlock(Sst.nr_entries, b)
              /\ PayloadBlock(b)[i].logical_block = key
              => b \in low..high
    /\ pc = "entries" =>
          \A b \in 0 .. Sst.nr_blocks - 2, i \in 1..EntriesPerBlock :
              /\ i <= EntriesInBlock(Sst.nr_entries, b)
              /\ PayloadBlock(b)[i].logical_block = key
              => b = cached /\ block = PayloadBlock(b) /\ i - 1 \in low .. high - 1

\* No turn is wasted: every step of a lookup ends it, goes on to the next older
\* table, enters the next loop of the same table or leaves fewer blocks or entries
\* to search; the middle of a range of two is not the end that is kept.
TurnShrinks ==
    \/ pc \notin {"table", "blocks", "entries"}
    \/ pc' = "returned"
    \/ pc' = "table" /\ at' = at + 1
    \/ at' = at /\ <<pc, pc'>> \in {<<"table", "blocks">>, <<"blocks", "entries">>}
    \/ at' = at /\ pc' = pc /\ high' - low' < high - low

TurnsShrink == [][TurnShrinks]_vars

\* Every lookup ends: both loops make progress on every turn.
LookupEnds == pc = "table" ~> pc = "returned"
=============================================================================
