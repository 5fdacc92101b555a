--------------------------- MODULE Append4kProofs ---------------------------
(***************************************************************************)
(* Theorems about Append4k, for any number of threads, blocks and writes:  *)
(* sectors are exclusive, reads are regular, and without a failed write    *)
(* there is no hole.                                                       *)
(***************************************************************************)
EXTENDS Append4k, TLAPS

(***************************************************************************)
(* The inductive invariant                                                 *)
(***************************************************************************)
\* Every bio in flight belongs to the target, every sector in use was handed out
\* by it, and without a target nothing is mapped.
Lifetime ==
    /\ len = 0 => /\ \A t \in Threads : Idle(t)
                  /\ \A b \in Slots : addr_mapping[b] = Unmapped
    /\ \A b \in Slots : addr_mapping[b] # Unmapped => addr_mapping[b] < next_sector
    /\ \A t \in Threads : pc[t] = "read" => sector[t] < next_sector
    /\ \A t \in Threads : pc[t] = "write" => addr_mapping[block[t]] # Unmapped

\* Write numbers grow: those of this target are above born, those of the writes
\* under way are not superseded by any other one that is under way.
Numbers ==
    /\ born <= writes
    /\ \A s \in Slots : data[s] <= writes
    /\ \A b \in Slots : may[b] \subseteq 0..writes
    /\ \A t \in Threads : old[t] \subseteq 0..writes
    /\ \A t \in Threads : Owned(t) => /\ id[t] \in 1..writes
                                      /\ id[t] > born
                                      /\ id[t] \in may[block[t]]
    /\ \A t, u \in Threads :
          Owned(t) /\ Owned(u) /\ block[t] = block[u] => id[t] \notin old[u]

\* A sector that is not handed out, or whose write is still under way, holds
\* nothing of this target.
Fresh ==
    len # 0 => /\ \A s \in Slots : s >= next_sector => data[s] <= born
               /\ \A t \in Threads : Owned(t) => data[sector[t]] <= born

\* Write w explains what sector s shows.
Explains(w, s) ==
    \/ Contents(s) = w
    \/ /\ Contents(s) = Unwritten
       /\ \/ w \in failed
          \/ \E u \in Threads : Owned(u) /\ sector[u] = s /\ id[u] = w

\* What a mapped block shows is explained by a write that no write under way will
\* supersede: either one may end last.
Explained ==
    len # 0 => \A b \in Slots :
        IF addr_mapping[b] = Unmapped THEN Zero \in may[b]
        ELSE \E w \in may[b] :
                /\ Explains(w, addr_mapping[b])
                /\ \A t \in Threads : pc[t] = "write" /\ block[t] = b => w \notin old[t]

\* A read in flight expects what its sector holds, and what the write that still
\* owns the sector will put there.
Expected ==
    \A t \in Threads : pc[t] = "read" =>
        /\ Contents(sector[t]) \in legal[t]
        /\ \A u \in Threads : Owned(u) /\ sector[u] = sector[t] => id[u] \in legal[t]

\* As long as NoHole is claimed, the counter is not behind the device.
NotBehind == len # 0 /\ wp0 = 0 /\ failed = {} => wp <= next_sector

Inv ==
    /\ TypeOK
    /\ SectorsExclusive
    /\ Lifetime
    /\ Numbers
    /\ Fresh
    /\ Explained
    /\ Expected
    /\ NotBehind
    /\ NoHole

(***************************************************************************)
(* Facts that several steps use                                            *)
(***************************************************************************)
\* The counters and the special values are integers, block and sector numbers
\* are natural numbers.
LEMMA SlotsAreNumbers ==
    /\ DevBlocks \in Nat /\ MaxWrites \in Nat
    /\ \A s \in Slots : s \in Nat
    /\ 0 \in Slots
    /\ Unmapped = -1 /\ Unmapped \notin Slots
    /\ Zero = 0 /\ Unwritten = -1
BY Append4kAssumption DEF Slots, Unmapped, Zero, Unwritten

\* The numbers TypeOK makes of the variables.
LEMMA TypeFacts ==
    ASSUME TypeOK
    PROVE  /\ len \in Nat /\ next_sector \in Nat /\ wp \in Nat
           /\ writes \in Nat /\ born \in Nat
           /\ \A s \in Slots : data[s] \in Int /\ data[s] >= -1
           /\ \A b \in Slots : addr_mapping[b] \in Slots \/ addr_mapping[b] = Unmapped
           /\ \A t \in Threads : block[t] \in Slots /\ sector[t] \in Slots /\ id[t] \in Nat
BY SlotsAreNumbers DEF TypeOK

\* A step that leaves the engine and the device alone and only lets an idle thread
\* fail its bio keeps the invariant.
LEMMA KillKeeps ==
    ASSUME Inv, NEW t \in Threads, Idle(t), Kill(t)
    PROVE  Inv'
<1> USE DEF Kill, devVars, histVars
<1>1. \A u \in Threads : /\ Owned(u)' <=> Owned(u)
                         /\ Idle(u)' <=> Idle(u)
                         /\ (pc[u] = "read")' <=> pc[u] = "read"
                         /\ (pc[u] = "write")' <=> pc[u] = "write"
  BY DEF Owned, Idle, Inv, TypeOK
<1>2. TypeOK'
  BY DEF Inv, TypeOK
<1>3. SectorsExclusive'
  BY <1>1 DEF Inv, SectorsExclusive
<1>4. Lifetime' /\ Numbers' /\ Fresh'
  BY <1>1 DEF Inv, Lifetime, Numbers, Fresh
<1>5. Explained' /\ Expected'
  BY <1>1 DEF Inv, Explained, Expected, Explains, Contents
<1>6. NotBehind' /\ NoHole'
  BY <1>1 DEF Inv, NotBehind, NoHole
<1> QED BY <1>2, <1>3, <1>4, <1>5, <1>6 DEF Inv

(***************************************************************************)
(* The target                                                              *)
(***************************************************************************)
\* The invariant holds before the first target.
LEMMA InitInv == Init => Inv
<1> SUFFICES ASSUME Init PROVE Inv
  OBVIOUS
<1> USE SlotsAreNumbers DEF Init
<1>1. TypeOK
  BY DEF TypeOK
<1>2. SectorsExclusive /\ Lifetime /\ Numbers /\ Fresh
  BY DEF SectorsExclusive, Lifetime, Numbers, Fresh, Owned, Idle
<1>3. Explained /\ Expected /\ NotBehind /\ NoHole
  BY DEF Explained, Expected, NotBehind, NoHole
<1> QED BY <1>1, <1>2, <1>3 DEF Inv

\* A target is created: nothing is in flight.
LEMMA CtrKeeps ==
    ASSUME Inv, NEW n \in 0..DevBlocks, Ctr(n)
    PROVE  Inv'
<1> USE SlotsAreNumbers DEF Ctr, EngineInit, devVars
<1>1. \A t \in Threads : ~Owned(t) /\ pc[t] # "read" /\ Idle(t) /\ pc'[t] = pc[t]
  BY DEF Inv, Lifetime, Owned, Idle
<1>2. TypeOK'
  BY DEF Inv, TypeOK
<1>3. SectorsExclusive' /\ Lifetime'
  BY <1>1 DEF SectorsExclusive, Lifetime, Owned, Idle
<1>4. Numbers' /\ Fresh'
  BY <1>1 DEF Inv, Numbers, Fresh, Owned, TypeOK
<1>5. Explained' /\ Expected' /\ NotBehind' /\ NoHole'
  BY <1>1 DEF Explained, Expected, NotBehind, NoHole, Owned
<1> QED BY <1>2, <1>3, <1>4, <1>5 DEF Inv

\* The target is removed once every bio has ended.
LEMMA DtrKeeps ==
    ASSUME Inv, Dtr
    PROVE  Inv'
<1> USE SlotsAreNumbers DEF Dtr, EngineExit, devVars, histVars
<1>1. \A t \in Threads : ~Owned(t) /\ pc[t] # "read" /\ Idle(t) /\ pc'[t] = pc[t]
  BY DEF Owned, Idle
<1>2. TypeOK'
  BY DEF Inv, TypeOK
<1>3. SectorsExclusive' /\ Lifetime'
  BY <1>1 DEF SectorsExclusive, Lifetime, Owned, Idle
<1>4. Numbers' /\ Fresh'
  BY <1>1 DEF Inv, Numbers, Fresh, Owned
<1>5. Explained' /\ Expected' /\ NotBehind' /\ NoHole'
  BY <1>1 DEF Explained, Expected, NotBehind, NoHole, Owned
<1> QED BY <1>2, <1>3, <1>4, <1>5 DEF Inv

\* The zones are reset between two targets.
LEMMA ResetZonesKeeps ==
    ASSUME Inv, ResetZones
    PROVE  Inv'
<1> USE SlotsAreNumbers DEF ResetZones, histVars
<1>1. \A t \in Threads : ~Owned(t) /\ pc[t] # "read" /\ Idle(t) /\ pc'[t] = pc[t]
  BY DEF Inv, Lifetime, Owned, Idle
<1>2. TypeOK'
  BY DEF Inv, TypeOK
<1>3. SectorsExclusive' /\ Lifetime'
  BY <1>1 DEF Inv, SectorsExclusive, Lifetime, Owned, Idle
<1>4. Numbers' /\ Fresh'
  BY <1>1 DEF Inv, Numbers, Fresh, Owned, TypeOK
<1>5. Explained' /\ Expected' /\ NotBehind' /\ NoHole'
  BY <1>1 DEF Explained, Expected, NotBehind, NoHole, Owned
<1> QED BY <1>2, <1>3, <1>4, <1>5 DEF Inv

(***************************************************************************)
(* zns_engine_map()                                                        *)
(***************************************************************************)
\* What the sector of a mapped block shows is what a read of the block may return.
LEMMA MappedIsLegal ==
    ASSUME Inv, len # 0, NEW b \in Slots, addr_mapping[b] # Unmapped
    PROVE  Contents(addr_mapping[b]) \in Legal(b)
<1>1. PICK w \in may[b] : Explains(w, addr_mapping[b])
  BY DEF Inv, Explained
<1>2. CASE Contents(addr_mapping[b]) = w
  BY <1>1, <1>2 DEF Legal
<1>3. CASE Contents(addr_mapping[b]) = Unwritten /\ w \in failed
  BY <1>1, <1>3 DEF Legal
<1>4. ASSUME NEW u \in Threads, Owned(u), sector[u] = addr_mapping[b], id[u] = w,
             Contents(addr_mapping[b]) = Unwritten
      PROVE  Contents(addr_mapping[b]) \in Legal(b)
  <2>1. u \in Writing(b)
    BY <1>4 DEF Writing, Owned, Inv, SectorsExclusive
  <2> QED BY <1>1, <1>4, <2>1 DEF Legal
<1> QED BY <1>1, <1>2, <1>3, <1>4 DEF Explains

\* A read takes the sector of its block from the mapping.
LEMMA ReadMappedKeeps ==
    ASSUME Inv, NEW t \in Threads, NEW bio \in Bios, len # 0, ReadMapped(t, bio)
    PROVE  Inv'
<1> USE SlotsAreNumbers DEF ReadMapped, devVars
<1> DEFINE b == bio.block
<1>1. /\ b \in Slots /\ addr_mapping[b] \in Slots
      /\ sector' = [sector EXCEPT ![t] = addr_mapping[b]]
      /\ block' = [block EXCEPT ![t] = b]
      /\ pc' = [pc EXCEPT ![t] = "read"]
      /\ legal' = [legal EXCEPT ![t] = Legal(b)]
  BY DEF Inv, TypeOK, Bios, IsAlignedIo, Slots
<1>2. \A u \in Threads \ {t} : /\ sector'[u] = sector[u] /\ block'[u] = block[u]
                               /\ pc'[u] = pc[u] /\ legal'[u] = legal[u]
  BY <1>1 DEF Inv, TypeOK
<1>3. /\ ~Owned(t)' /\ ~Owned(t)
      /\ \A u \in Threads : Owned(u)' <=> Owned(u)
      /\ \A u \in Threads : pc'[u] = "write" <=> pc[u] = "write"
  BY <1>1, <1>2 DEF Inv, TypeOK, Owned, Idle
<1>4. TypeOK'
  <2>1. Legal(b) \subseteq may[b] \cup {Unwritten}
    BY DEF Legal
  <2>2. may[b] \subseteq 0..MaxWrites
    BY <1>1 DEF Inv, TypeOK
  <2>3. Legal(b) \subseteq -1..MaxWrites
    BY <2>1, <2>2
  <2> QED BY <1>1, <2>3 DEF Inv, TypeOK
<1>5. SectorsExclusive'
  BY <1>2, <1>3 DEF Inv, SectorsExclusive
<1>6. Lifetime'
  <2>1. sector'[t] < next_sector
    BY <1>1 DEF Inv, TypeOK, Lifetime
  <2>2. \A u \in Threads : pc'[u] = "write" => u # t /\ block'[u] = block[u]
    BY <1>1, <1>2 DEF Inv, TypeOK
  <2> QED BY <1>2, <1>3, <2>1, <2>2 DEF Inv, Lifetime
<1>7. Numbers' /\ Fresh'
  BY <1>2, <1>3 DEF Inv, Numbers, Fresh
<1>9. Explained'
  <2>1. \A u \in Threads : pc'[u] = "write" => /\ pc[u] = "write"
                                               /\ block'[u] = block[u]
    BY <1>1, <1>2 DEF Inv, TypeOK
  <2> SUFFICES ASSUME NEW c \in Slots, addr_mapping[c] # Unmapped
               PROVE  \E w \in may[c] :
                         /\ Explains(w, addr_mapping[c])'
                         /\ \A u \in Threads : pc'[u] = "write" /\ block'[u] = c
                                                 => w \notin old[u]
    BY DEF Inv, Explained
  <2>2. PICK w \in may[c] :
           /\ Explains(w, addr_mapping[c])
           /\ \A u \in Threads : pc[u] = "write" /\ block[u] = c => w \notin old[u]
    BY DEF Inv, Explained
  <2>3. Explains(w, addr_mapping[c])'
    BY <1>2, <1>3, <2>2 DEF Explains, Contents
  <2> QED BY <2>1, <2>2, <2>3
<1>10. Expected'
  <2>1. Contents(addr_mapping[b]) \in Legal(b)
    BY <1>1, MappedIsLegal
  <2>2. \A u \in Threads : Owned(u) /\ sector[u] = addr_mapping[b] => id[u] \in Legal(b)
    BY <1>1 DEF Inv, SectorsExclusive, Numbers, Legal
  <2>3. legal'[t] = Legal(b) /\ sector'[t] = addr_mapping[b]
    BY <1>1 DEF Inv, TypeOK
  <2> QED BY <1>2, <1>3, <2>1, <2>2, <2>3 DEF Inv, Expected, Contents
<1>11. NotBehind' /\ NoHole'
  BY <1>2, <1>3 DEF Inv, NotBehind, NoHole
<1> QED BY <1>4, <1>5, <1>6, <1>7, <1>9, <1>10, <1>11 DEF Inv

\* What both engines do when they take a sector for a write.
LEMMA AllocateFacts ==
    ASSUME Inv, NEW t \in Threads, NEW bio \in Bios, len # 0, Allocate(t, bio),
           NEW p \in {"store", "write"}, pc' = [pc EXCEPT ![t] = p]
    PROVE  /\ bio.block \in Slots /\ next_sector \in Slots
           /\ next_sector' = next_sector + 1 /\ writes' = writes + 1
           /\ writes + 1 <= MaxWrites
           /\ ~Owned(t) /\ Owned(t)'
           /\ sector'[t] = next_sector /\ block'[t] = bio.block /\ id'[t] = writes + 1
           /\ old'[t] \subseteq may[bio.block]
           /\ \A u \in Writing(bio.block) : id[u] \notin old'[t]
           /\ \A u \in Threads \ {t} :
                 /\ sector'[u] = sector[u] /\ block'[u] = block[u] /\ pc'[u] = pc[u]
                 /\ id'[u] = id[u] /\ old'[u] = old[u] /\ (Owned(u)' <=> Owned(u))
           /\ \A u \in Threads : legal[u] \subseteq legal'[u]
           /\ pc[t] # "read" /\ pc'[t] # "read" /\ pc'[t] = p
<1> USE SlotsAreNumbers DEF Allocate, NoteWrite
<1>1. bio.block \in Slots /\ next_sector \in Slots
  BY DEF Inv, TypeOK, Bios, IsAlignedIo, HasRoom, Slots
<1>2. writes + 1 <= MaxWrites /\ writes' = writes + 1 /\ next_sector' = next_sector + 1
  BY DEF Inv, TypeOK, AfterNext
<1>3. /\ sector'[t] = next_sector /\ block'[t] = bio.block /\ id'[t] = writes + 1
      /\ pc'[t] = p /\ pc[t] \in {"idle", "killed"}
      /\ old'[t] = may[bio.block] \ {id[u] : u \in Writing(bio.block)}
  BY <1>2 DEF Inv, TypeOK, Idle
<1>4. \A u \in Threads \ {t} :
         /\ sector'[u] = sector[u] /\ block'[u] = block[u] /\ pc'[u] = pc[u]
         /\ id'[u] = id[u] /\ old'[u] = old[u] /\ (Owned(u)' <=> Owned(u))
  BY DEF Inv, TypeOK, Owned
<1>5. \A u \in Threads : legal[u] \subseteq legal'[u]
  BY DEF Inv, TypeOK
<1> QED BY <1>1, <1>2, <1>3, <1>4, <1>5 DEF Owned

\* A write takes a sector, and append4k maps it in the same critical section.
LEMMA AllocateKeeps ==
    ASSUME Inv, NEW t \in Threads, NEW bio \in Bios, len # 0, Allocate(t, bio),
           NEW p \in {"store", "write"}, pc' = [pc EXCEPT ![t] = p],
           addr_mapping' = IF p = "store" THEN addr_mapping
                           ELSE [addr_mapping EXCEPT ![bio.block] = next_sector],
           UNCHANGED <<engine, len, devVars>>
    PROVE  Inv'
<1> USE SlotsAreNumbers DEF devVars
<1> DEFINE b == bio.block
<1>1. /\ UNCHANGED <<failed, wp0, born>>
      /\ may' = [may EXCEPT ![b] = @ \cup {writes + 1}]
  BY DEF Allocate, NoteWrite
<1>2. /\ b \in Slots /\ next_sector \in Slots
      /\ next_sector' = next_sector + 1 /\ writes' = writes + 1
      /\ writes + 1 <= MaxWrites
      /\ ~Owned(t) /\ Owned(t)'
      /\ sector'[t] = next_sector /\ block'[t] = b /\ id'[t] = writes + 1
      /\ old'[t] \subseteq may[b]
      /\ \A u \in Writing(b) : id[u] \notin old'[t]
      /\ \A u \in Threads \ {t} :
            /\ sector'[u] = sector[u] /\ block'[u] = block[u] /\ pc'[u] = pc[u]
            /\ id'[u] = id[u] /\ old'[u] = old[u] /\ (Owned(u)' <=> Owned(u))
      /\ \A u \in Threads : legal[u] \subseteq legal'[u]
      /\ pc[t] # "read" /\ pc'[t] # "read" /\ pc'[t] = p
  BY AllocateFacts
<1>3. /\ next_sector \in Nat /\ writes \in Nat /\ born \in Nat
      /\ \A c \in Slots : may[c] \subseteq 0..writes
      /\ \A c \in Slots : may[c] \subseteq may'[c] /\ may'[c] \subseteq 0..writes + 1
      /\ writes + 1 \in may'[b]
  BY <1>1, <1>2 DEF Inv, TypeOK, Numbers
<1>4. \A c \in Slots : \/ addr_mapping'[c] = addr_mapping[c]
                       \/ p = "write" /\ c = b /\ addr_mapping'[c] = next_sector
  BY <1>2 DEF Inv, TypeOK
<1>5. TypeOK'
  <2>1. /\ next_sector' \in 0..len' /\ writes' \in 0..MaxWrites
        /\ addr_mapping' \in [Slots -> Slots \cup {Unmapped}]
    BY <1>2 DEF Inv, TypeOK, Allocate, HasRoom
  <2>2. pc' \in [Threads -> {"idle", "killed", "store", "write", "read"}]
    BY DEF Inv, TypeOK
  <2>3. /\ block' \in [Threads -> Slots] /\ sector' \in [Threads -> Slots]
        /\ id' \in [Threads -> 0..MaxWrites]
    BY <1>2 DEF Inv, TypeOK, Allocate, NoteWrite
  <2>4. may' \in [Slots -> SUBSET (0..MaxWrites)]
    <3>1. \A c \in Slots : may'[c] \subseteq 0..MaxWrites
      BY <1>2, <1>3
    <3> QED BY <1>1, <1>2, <3>1 DEF Inv, TypeOK
  <2>5. old' \in [Threads -> SUBSET (0..MaxWrites)]
    <3>1. old'[t] \subseteq 0..MaxWrites
      BY <1>2 DEF Inv, TypeOK
    <3> QED BY <3>1 DEF Inv, TypeOK, Allocate, NoteWrite
  <2>6. legal' \in [Threads -> SUBSET (-1..MaxWrites)]
    <3>1. writes' \in -1..MaxWrites /\ Unwritten \in -1..MaxWrites
      BY <1>2, <1>3
    <3>2. \A u \in Threads : /\ legal'[u] \subseteq legal[u] \cup {writes', Unwritten}
                             /\ legal[u] \subseteq -1..MaxWrites
      BY DEF Inv, TypeOK, Allocate, NoteWrite
    <3>3. legal' = [u \in Threads |-> legal'[u]]
      BY DEF Allocate, NoteWrite
    <3>4. \A u \in Threads : legal'[u] \in SUBSET (-1..MaxWrites)
      BY <3>1, <3>2
    <3> QED BY <3>3, <3>4
  <2> QED BY <1>1, <2>1, <2>2, <2>3, <2>4, <2>5, <2>6 DEF Inv, TypeOK
<1>6. SectorsExclusive'
  <2>1. \A c \in Slots : addr_mapping[c] # next_sector
    BY <1>3, TypeFacts, SlotsAreNumbers DEF Inv, Lifetime
  <2>2. ASSUME NEW c \in Slots, NEW d \in Slots, c # d, addr_mapping'[c] # Unmapped
        PROVE  addr_mapping'[c] # addr_mapping'[d]
    BY <1>4, <2>1, <2>2 DEF Inv, SectorsExclusive
  <2>3. \A u \in Threads \ {t} : Owned(u) => sector[u] < next_sector /\ sector[u] \in Nat
    BY DEF Inv, TypeOK, SectorsExclusive
  <2>4. ASSUME NEW u \in Threads, Owned(u)'
        PROVE  /\ sector'[u] < next_sector'
               /\ \A v \in Threads \ {u} : Owned(v)' => sector'[v] # sector'[u]
    BY <1>2, <1>3, <2>3, <2>4 DEF Inv, SectorsExclusive
  <2>5. ASSUME NEW u \in Threads, Owned(u)', NEW c \in Slots, addr_mapping'[c] = sector'[u]
        PROVE  c = block'[u]
    <3>1. CASE u = t
      BY <1>2, <1>4, <2>1, <2>5, <3>1
    <3>2. CASE u # t
      BY <1>2, <1>3, <1>4, <2>3, <2>5, <3>2 DEF Inv, SectorsExclusive
    <3> QED BY <3>1, <3>2
  <2> QED BY <2>2, <2>4, <2>5 DEF SectorsExclusive
<1>7. Lifetime'
  <2>1. \A c \in Slots : addr_mapping'[c] # Unmapped => addr_mapping'[c] < next_sector'
    <3>1. \A c \in Slots : addr_mapping[c] # Unmapped => /\ addr_mapping[c] \in Nat
                                                         /\ addr_mapping[c] < next_sector
      BY TypeFacts DEF Inv, Lifetime
    <3> QED BY <1>2, <1>3, <1>4, <3>1
  <2>2. \A u \in Threads : pc'[u] = "read" => sector'[u] < next_sector'
    <3>1. \A u \in Threads : pc[u] = "read" => /\ sector[u] \in Nat
                                               /\ sector[u] < next_sector
      BY TypeFacts DEF Inv, Lifetime
    <3> QED BY <1>2, <1>3, <3>1
  <2>3. ASSUME NEW u \in Threads, pc'[u] = "write"
        PROVE  addr_mapping'[block'[u]] # Unmapped
    <3>1. CASE u = t
      BY <1>2, <2>3, <3>1 DEF Inv, TypeOK
    <3>2. CASE u # t
      <4>1. block[u] \in Slots /\ addr_mapping[block[u]] # Unmapped
        BY <1>2, <2>3, <3>2 DEF Inv, TypeOK, Lifetime
      <4> QED BY <1>2, <1>4, <3>2, <4>1
    <3> QED BY <3>1, <3>2
  <2> QED BY <2>1, <2>2, <2>3 DEF Lifetime
<1>8. Numbers'
  <2>1. \A u \in Threads : old'[u] \subseteq 0..writes
    BY <1>2, <1>3 DEF Inv, Numbers
  <2>2. \A u \in Threads : Owned(u)' => /\ id'[u] \in 1..writes + 1 /\ id'[u] > born
                                        /\ id'[u] \in may'[block'[u]]
    <3>1. \A u \in Threads \ {t} : Owned(u) =>
             /\ id[u] \in 1..writes /\ id[u] > born
             /\ block[u] \in Slots /\ id[u] \in may[block[u]]
      BY DEF Inv, TypeOK, Numbers
    <3>2. born <= writes
      BY DEF Inv, Numbers
    <3>3. writes + 1 \in 1..writes + 1 /\ writes + 1 > born /\ \A n \in 1..writes : n \in 1..writes + 1
      BY <1>3, <3>2
    <3>4. ASSUME NEW u \in Threads, Owned(u)'
          PROVE  /\ id'[u] \in 1..writes + 1 /\ id'[u] > born
                 /\ id'[u] \in may'[block'[u]]
      <4>1. CASE u = t
        BY <1>2, <1>3, <3>3, <4>1
      <4>2. CASE u # t
        BY <1>2, <1>3, <3>1, <3>3, <3>4, <4>2
      <4> QED BY <4>1, <4>2
    <3> QED BY <3>4
  <2>3. ASSUME NEW u \in Threads, NEW v \in Threads,
               Owned(u)', Owned(v)', block'[u] = block'[v]
        PROVE  id'[u] \notin old'[v]
    <3>1. CASE u = t
      BY <1>2, <1>3, <2>1, <3>1
    <3>2. CASE u # t /\ v = t
      <4>1. u \in Writing(b)
        BY <1>2, <2>3, <3>2 DEF Writing, Owned
      <4> QED BY <1>2, <3>2, <4>1
    <3>3. CASE u # t /\ v # t
      BY <1>2, <2>3, <3>3 DEF Inv, Numbers
    <3> QED BY <3>1, <3>2, <3>3
  <2>4. \A s \in Slots : data[s] <= writes + 1
    BY <1>3 DEF Inv, TypeOK, Numbers
  <2> QED BY <1>1, <1>2, <1>3, <2>1, <2>2, <2>3, <2>4 DEF Inv, Numbers
<1>9. Fresh'
  BY <1>1, <1>2, <1>3 DEF Inv, TypeOK, Fresh
<1>10. Explained'
  <2> SUFFICES ASSUME NEW c \in Slots
               PROVE  IF addr_mapping'[c] = Unmapped THEN Zero \in may'[c]
                      ELSE \E w \in may'[c] :
                              /\ Explains(w, addr_mapping[c])'
                              /\ \A u \in Threads : pc'[u] = "write" /\ block'[u] = c
                                                      => w \notin old'[u]
    BY DEF Explained
  <2>1. CASE addr_mapping'[c] # addr_mapping[c]
    <3>1. p = "write" /\ c = b /\ addr_mapping'[c] = next_sector
      BY <1>4, <2>1
    <3>2. Contents(addr_mapping[c])' = Unwritten
      BY <1>1, <1>2, <1>3, <3>1 DEF Inv, TypeOK, Fresh, Contents
    <3>3. Explains(id[t], addr_mapping[c])'
      BY <1>2, <3>1, <3>2 DEF Explains
    <3>4. \A u \in Threads : writes + 1 \notin old'[u]
      <4>1. \A u \in Threads : old'[u] \subseteq 0..writes
        BY <1>2, <1>3 DEF Inv, Numbers
      <4> QED BY <1>3, <4>1
    <3> QED BY <1>2, <1>3, <3>1, <3>3, <3>4
  <2>2. CASE addr_mapping'[c] = addr_mapping[c] /\ addr_mapping[c] # Unmapped
    <3>1. PICK w \in may[c] :
             /\ Explains(w, addr_mapping[c])
             /\ \A u \in Threads : pc[u] = "write" /\ block[u] = c => w \notin old[u]
      BY <2>2 DEF Inv, Explained
    <3>2. Explains(w, addr_mapping[c])'
      BY <1>1, <1>2, <2>2, <3>1 DEF Explains, Contents
    <3>3. ~(p = "write" /\ c = b)
      BY <1>2, <2>2 DEF Inv, TypeOK, Lifetime
    <3>4. \A u \in Threads : pc'[u] = "write" /\ block'[u] = c => w \notin old'[u]
      BY <1>2, <3>1, <3>3
    <3> QED BY <1>3, <2>2, <3>1, <3>2, <3>4
  <2>3. CASE addr_mapping'[c] = addr_mapping[c] /\ addr_mapping[c] = Unmapped
    BY <1>3, <2>3 DEF Inv, Explained
  <2> QED BY <2>1, <2>2, <2>3
<1>11. Expected'
  BY <1>1, <1>2, <1>3 DEF Inv, TypeOK, Expected, Lifetime, Contents
<1>12. NotBehind'
  BY <1>1, <1>2, <1>3 DEF Inv, TypeOK, NotBehind
<1>13. NoHole'
  <2> SUFFICES ASSUME wp0 = 0, failed = {}
               PROVE  wp .. next_sector = {sector'[u] : u \in {v \in Threads : Owned(v)'}}
    BY <1>1, <1>2, <1>3 DEF NoHole
  <2>1. {sector'[u] : u \in {v \in Threads : Owned(v)'}} =
           {sector[u] : u \in {v \in Threads : Owned(v)}} \cup {next_sector}
    BY <1>2
  <2>2. wp .. next_sector = (wp .. next_sector - 1) \cup {next_sector}
    <3>1. wp \in Nat /\ wp <= next_sector
      BY TypeFacts DEF Inv, NotBehind
    <3> QED BY <1>3, <3>1
  <2> QED BY <2>1, <2>2 DEF Inv, NoHole
<1> QED BY <1>5, <1>6, <1>7, <1>8, <1>9, <1>10, <1>11, <1>12, <1>13 DEF Inv

\* append4k-alloc maps its sector when it holds the other lock.
LEMMA StoreMappingKeeps ==
    ASSUME Inv, NEW t \in Threads, StoreMapping(t)
    PROVE  Inv'
<1> USE SlotsAreNumbers DEF StoreMapping, devVars, histVars
<1> DEFINE b == block[t]
<1>1. /\ b \in Slots /\ sector[t] \in Slots
      /\ addr_mapping' = [addr_mapping EXCEPT ![b] = sector[t]]
      /\ Owned(t) /\ len # 0 /\ pc'[t] = "write"
  BY DEF Inv, TypeOK, Owned, Lifetime, Idle
<1>2. /\ \A u \in Threads : Owned(u)' <=> Owned(u)
      /\ \A u \in Threads \ {t} : pc'[u] = pc[u]
  BY DEF Inv, TypeOK, Owned
<1>3. \A c \in Slots : addr_mapping'[c] = IF c = b THEN sector[t] ELSE addr_mapping[c]
  BY <1>1 DEF Inv, TypeOK
<1>4. TypeOK'
  BY <1>1 DEF Inv, TypeOK
<1>5. SectorsExclusive'
  BY <1>1, <1>2, <1>3 DEF Inv, TypeOK, SectorsExclusive
<1>6. Lifetime'
  <2>1. sector[t] < next_sector
    BY <1>1 DEF Inv, SectorsExclusive
  <2> QED BY <1>1, <1>2, <1>3, <2>1 DEF Inv, TypeOK, Lifetime
<1>7. Numbers' /\ Fresh'
  BY <1>2 DEF Inv, Numbers, Fresh
<1>8. Explained'
  <2> SUFFICES ASSUME NEW c \in Slots
               PROVE  IF addr_mapping'[c] = Unmapped THEN Zero \in may[c]
                      ELSE \E w \in may[c] :
                              /\ Explains(w, addr_mapping[c])'
                              /\ \A u \in Threads : pc'[u] = "write" /\ block[u] = c
                                                      => w \notin old[u]
    BY DEF Explained
  <2>1. CASE c = b
    <3>1. Contents(sector[t]) = Unwritten
      BY <1>1, TypeFacts DEF Inv, Fresh, Contents
    <3>2. Explains(id[t], addr_mapping[c])'
      <4>1. addr_mapping'[c] = sector[t] /\ Contents(addr_mapping[c])' = Unwritten
        BY <1>3, <2>1, <3>1 DEF Contents
      <4> QED BY <1>1, <1>2, <4>1 DEF Explains
    <3>3. \A u \in Threads : pc'[u] = "write" /\ block[u] = c => id[t] \notin old[u]
      BY <1>1, <1>2, <2>1 DEF Inv, Numbers, Owned
    <3> QED BY <1>1, <1>3, <2>1, <3>2, <3>3 DEF Inv, Numbers
  <2>2. CASE c # b /\ addr_mapping[c] # Unmapped
    <3>1. PICK w \in may[c] :
             /\ Explains(w, addr_mapping[c])
             /\ \A u \in Threads : pc[u] = "write" /\ block[u] = c => w \notin old[u]
      BY <1>1, <2>2 DEF Inv, Explained
    <3>2. Explains(w, addr_mapping[c])'
      BY <1>2, <1>3, <2>2, <3>1 DEF Explains, Contents
    <3> QED BY <1>2, <1>3, <2>2, <3>1, <3>2
  <2>3. CASE c # b /\ addr_mapping[c] = Unmapped
    BY <1>1, <1>3, <2>3 DEF Inv, Explained
  <2> QED BY <2>1, <2>2, <2>3
<1>9. Expected'
  BY <1>1, <1>2 DEF Inv, Expected, Contents
<1>10. NotBehind' /\ NoHole'
  BY <1>2 DEF Inv, NotBehind, NoHole
<1> QED BY <1>4, <1>5, <1>6, <1>7, <1>8, <1>9, <1>10 DEF Inv

(***************************************************************************)
(* The lower device                                                        *)
(***************************************************************************)
\* A bio that ends leaves its thread idle and the others alone.
LEMMA EndFacts ==
    ASSUME Inv, NEW t \in Threads, pc[t] \in {"read", "write"}, End(t)
    PROVE  /\ len # 0 /\ ~Owned(t)' /\ pc'[t] = "idle"
           /\ UNCHANGED <<engine, len, addr_mapping, next_sector, writes, wp0, born>>
           /\ \A u \in Threads \ {t} :
                 /\ sector'[u] = sector[u] /\ block'[u] = block[u] /\ pc'[u] = pc[u]
                 /\ id'[u] = id[u] /\ old'[u] = old[u] /\ legal'[u] = legal[u]
                 /\ (Owned(u)' <=> Owned(u))
           /\ old'[t] = {}
           /\ pc' \in [Threads -> {"idle", "killed", "store", "write", "read"}]
           /\ block' \in [Threads -> Slots] /\ sector' \in [Threads -> Slots]
           /\ id' \in [Threads -> 0..MaxWrites]
           /\ old' \in [Threads -> SUBSET (0..MaxWrites)]
           /\ legal' \in [Threads -> SUBSET (-1..MaxWrites)]
<1> USE SlotsAreNumbers DEF End
<1>1. len # 0
  BY DEF Inv, Lifetime, Idle
<1>2. ~Owned(t)' /\ pc'[t] = "idle" /\ old'[t] = {}
  BY DEF Inv, TypeOK, Owned
<1>3. \A u \in Threads \ {t} :
         /\ sector'[u] = sector[u] /\ block'[u] = block[u] /\ pc'[u] = pc[u]
         /\ id'[u] = id[u] /\ old'[u] = old[u] /\ legal'[u] = legal[u]
         /\ (Owned(u)' <=> Owned(u))
  BY DEF Inv, TypeOK, Owned
<1>4. /\ pc' \in [Threads -> {"idle", "killed", "store", "write", "read"}]
      /\ block' \in [Threads -> Slots] /\ sector' \in [Threads -> Slots]
      /\ id' \in [Threads -> 0..MaxWrites]
      /\ old' \in [Threads -> SUBSET (0..MaxWrites)]
      /\ legal' \in [Threads -> SUBSET (-1..MaxWrites)]
  BY DEF Inv, TypeOK
<1> QED BY <1>1, <1>2, <1>3, <1>4

\* What an ended bio cannot disturb, whatever the device did with it: a bio that
\* ended owns no sector.
LEMMA EndKeeps ==
    ASSUME Inv, NEW t \in Threads, pc[t] \in {"read", "write"}, End(t)
    PROVE  SectorsExclusive' /\ Lifetime'
<1>1. /\ len # 0 /\ ~Owned(t)' /\ pc'[t] = "idle"
      /\ UNCHANGED <<len, addr_mapping, next_sector>>
      /\ \A u \in Threads \ {t} :
            /\ sector'[u] = sector[u] /\ block'[u] = block[u] /\ pc'[u] = pc[u]
            /\ (Owned(u)' <=> Owned(u))
  BY EndFacts
<1>2. SectorsExclusive'
  BY <1>1 DEF Inv, SectorsExclusive
<1>3. Lifetime'
  BY <1>1 DEF Inv, Lifetime
<1> QED BY <1>2, <1>3

\* The device answers a read.
LEMMA DeviceReadsKeeps ==
    ASSUME Inv, NEW t \in Threads, DeviceReads(t)
    PROVE  Inv'
<1> USE SlotsAreNumbers DEF devVars
<1>1. pc[t] = "read" /\ End(t) /\ UNCHANGED <<wp, data, may, failed>> /\ ~Owned(t)
  BY DEF DeviceReads, Owned
<1>2. /\ len # 0 /\ ~Owned(t)' /\ pc'[t] = "idle" /\ old'[t] = {}
      /\ UNCHANGED <<engine, len, addr_mapping, next_sector, writes, wp0, born>>
      /\ \A u \in Threads \ {t} :
            /\ sector'[u] = sector[u] /\ block'[u] = block[u] /\ pc'[u] = pc[u]
            /\ id'[u] = id[u] /\ old'[u] = old[u] /\ legal'[u] = legal[u]
            /\ (Owned(u)' <=> Owned(u))
  BY <1>1, EndFacts
<1>3. TypeOK'
  BY <1>1, EndFacts DEF Inv, TypeOK
<1>4. SectorsExclusive' /\ Lifetime'
  BY <1>1, EndKeeps
<1>5. Numbers' /\ Fresh'
  BY <1>1, <1>2 DEF Inv, Numbers, Fresh
<1>6. Explained'
  <2> SUFFICES ASSUME NEW c \in Slots, addr_mapping[c] # Unmapped
               PROVE  \E w \in may[c] :
                         /\ Explains(w, addr_mapping[c])'
                         /\ \A u \in Threads : pc'[u] = "write" /\ block'[u] = c
                                                 => w \notin old'[u]
    BY <1>1, <1>2 DEF Inv, Explained
  <2>1. PICK w \in may[c] :
           /\ Explains(w, addr_mapping[c])
           /\ \A u \in Threads : pc[u] = "write" /\ block[u] = c => w \notin old[u]
    BY <1>2 DEF Inv, Explained
  <2>2. Explains(w, addr_mapping[c])'
    BY <1>1, <1>2, <2>1 DEF Explains, Contents
  <2> QED BY <1>2, <2>1, <2>2
<1>7. Expected'
  BY <1>1, <1>2 DEF Inv, Expected, Contents
<1>8. NotBehind'
  BY <1>1, <1>2 DEF Inv, NotBehind
<1>9. NoHole'
  <2>1. {sector'[u] : u \in {v \in Threads : Owned(v)'}} =
           {sector[u] : u \in {v \in Threads : Owned(v)}}
    BY <1>1, <1>2
  <2> QED BY <1>1, <1>2, <2>1 DEF Inv, NoHole
<1> QED BY <1>3, <1>4, <1>5, <1>6, <1>7, <1>8, <1>9 DEF Inv

\* The media took the block of a write that now ends: nothing but that sector
\* changes.
LEMMA TakenFacts ==
    ASSUME Inv, NEW t \in Threads, pc[t] = "write", sector[t] = wp,
           data' = [data EXCEPT ![wp] = id[t]], End(t)
    PROVE  /\ wp \in Slots /\ id[t] \in 1..MaxWrites /\ id[t] <= writes /\ id[t] > born
           /\ \A s \in Slots : data'[s] = IF s = wp THEN id[t] ELSE data[s]
           /\ data' \in [Slots -> 1..MaxWrites \cup {Unwritten}]
           /\ \A u \in Threads \ {t} : Owned(u) => sector[u] # wp
           /\ \A c \in Slots \ {block[t]} : addr_mapping[c] # wp
<1> USE SlotsAreNumbers
<1>1. Owned(t) /\ wp \in Slots
  BY DEF Owned, Inv, TypeOK
<1>2. id[t] \in 1..writes /\ id[t] > born
  BY <1>1 DEF Inv, Numbers
<1>3. writes \in Nat /\ writes <= MaxWrites
  BY DEF Inv, TypeOK
<1>4. id[t] \in 1..MaxWrites /\ id[t] <= writes
  BY <1>2, <1>3
<1>5. /\ \A s \in Slots : data'[s] = IF s = wp THEN id[t] ELSE data[s]
      /\ data' \in [Slots -> 1..MaxWrites \cup {Unwritten}]
  BY <1>1, <1>4 DEF Inv, TypeOK
<1>6. \A u \in Threads \ {t} : Owned(u) => sector[u] # wp
  BY <1>1 DEF Inv, SectorsExclusive
<1>7. \A c \in Slots \ {block[t]} : addr_mapping[c] # wp
  BY <1>1 DEF Inv, SectorsExclusive
<1> QED BY <1>1, <1>2, <1>4, <1>5, <1>6, <1>7

\* The device takes a write: it supersedes what had ended before it.
LEMMA DeviceWritesKeeps ==
    ASSUME Inv, NEW t \in Threads, DeviceWrites(t)
    PROVE  Inv'
<1> USE SlotsAreNumbers
<1> DEFINE b == block[t]
<1>1. /\ pc[t] = "write" /\ sector[t] = wp /\ End(t) /\ Owned(t) /\ b \in Slots
      /\ wp' = wp + 1 /\ failed' = failed
      /\ data' = [data EXCEPT ![wp] = id[t]]
      /\ may' = [may EXCEPT ![b] = @ \ old[t]]
  BY DEF DeviceWrites, Owned, Inv, TypeOK
<1>2. /\ len # 0 /\ ~Owned(t)' /\ pc'[t] = "idle" /\ old'[t] = {}
      /\ UNCHANGED <<engine, len, addr_mapping, next_sector, writes, wp0, born>>
      /\ \A u \in Threads \ {t} :
            /\ sector'[u] = sector[u] /\ block'[u] = block[u] /\ pc'[u] = pc[u]
            /\ id'[u] = id[u] /\ old'[u] = old[u] /\ legal'[u] = legal[u]
            /\ (Owned(u)' <=> Owned(u))
  BY <1>1, EndFacts
<1>3. /\ wp \in Slots /\ id[t] \in 1..MaxWrites /\ id[t] <= writes /\ id[t] > born
      /\ \A s \in Slots : data'[s] = IF s = wp THEN id[t] ELSE data[s]
      /\ data' \in [Slots -> 1..MaxWrites \cup {Unwritten}]
      /\ \A u \in Threads \ {t} : Owned(u) => sector[u] # wp
      /\ \A c \in Slots \ {b} : addr_mapping[c] # wp
  BY <1>1, TakenFacts
<1>4. \A c \in Slots : may'[c] = IF c = b THEN may[c] \ old[t] ELSE may[c]
  BY <1>1 DEF Inv, TypeOK
<1>5. wp < next_sector /\ wp + 1 \in 0..DevBlocks
  BY <1>1, <1>3 DEF Inv, SectorsExclusive, Slots
<1>6. TypeOK'
  <2>1. may' \in [Slots -> SUBSET (0..MaxWrites)]
    BY <1>1 DEF Inv, TypeOK
  <2> QED BY <1>1, <1>2, <1>3, <1>5, <2>1, EndFacts DEF Inv, TypeOK
<1>7. SectorsExclusive' /\ Lifetime'
  BY <1>1, EndKeeps
<1>8. Numbers'
  <2>1. \A s \in Slots : data'[s] <= writes
    BY <1>3 DEF Inv, Numbers
  <2>2. \A c \in Slots : may'[c] \subseteq 0..writes
    BY <1>4 DEF Inv, Numbers
  <2>3. \A u \in Threads : Owned(u)' => /\ id'[u] \in 1..writes /\ id'[u] > born
                                        /\ id'[u] \in may'[block'[u]]
    <3> SUFFICES ASSUME NEW u \in Threads, Owned(u)'
                 PROVE  /\ id'[u] \in 1..writes /\ id'[u] > born
                        /\ id'[u] \in may'[block'[u]]
      OBVIOUS
    <3>1. u # t /\ Owned(u) /\ id'[u] = id[u] /\ block'[u] = block[u] /\ block[u] \in Slots
      BY <1>2 DEF Inv, TypeOK
    <3>2. id[u] \in 1..writes /\ id[u] > born /\ id[u] \in may[block[u]]
      BY <3>1 DEF Inv, Numbers
    <3>3. block[u] = b => id[u] \notin old[t]
      BY <1>1, <3>1 DEF Inv, Numbers
    <3> QED BY <1>4, <3>1, <3>2, <3>3
  <2>4. \A u \in Threads : old'[u] \subseteq 0..writes
    BY <1>2 DEF Inv, Numbers
  <2>5. \A u, v \in Threads :
           Owned(u)' /\ Owned(v)' /\ block'[u] = block'[v] => id'[u] \notin old'[v]
    BY <1>2 DEF Inv, Numbers
  <2> QED BY <1>2, <2>1, <2>2, <2>3, <2>4, <2>5 DEF Inv, Numbers
<1>9. Fresh'
  <2>1. \A s \in Slots : s >= next_sector => data'[s] <= born
    <3> SUFFICES ASSUME NEW s \in Slots, s >= next_sector PROVE data'[s] <= born
      OBVIOUS
    <3>1. s # wp
      BY <1>3, <1>5, TypeFacts DEF Inv
    <3> QED BY <1>2, <1>3, <3>1 DEF Inv, Fresh
  <2>2. \A u \in Threads : Owned(u)' => data'[sector'[u]] <= born
    <3> SUFFICES ASSUME NEW u \in Threads, Owned(u)' PROVE data'[sector'[u]] <= born
      OBVIOUS
    <3>1. u # t /\ Owned(u) /\ sector'[u] = sector[u] /\ sector[u] \in Slots
      BY <1>2 DEF Inv, TypeOK
    <3> QED BY <1>2, <1>3, <3>1 DEF Inv, Fresh
  <2> QED BY <1>2, <2>1, <2>2 DEF Fresh
<1>10. Explained'
  <2> SUFFICES ASSUME NEW c \in Slots
               PROVE  IF addr_mapping[c] = Unmapped THEN Zero \in may'[c]
                      ELSE \E w \in may'[c] :
                              /\ Explains(w, addr_mapping[c])'
                              /\ \A u \in Threads : pc'[u] = "write" /\ block'[u] = c
                                                      => w \notin old'[u]
    BY <1>2 DEF Explained
  <2>1. CASE addr_mapping[c] = Unmapped
    <3>1. c # b
      BY <1>1, <2>1 DEF Inv, Lifetime
    <3> QED BY <1>2, <1>4, <2>1, <3>1 DEF Inv, Explained
  <2>2. CASE addr_mapping[c] = wp
    <3>1. c = b
      BY <1>3, <2>2
    <3>2. Contents(addr_mapping[c])' = id[t]
      BY <1>2, <1>3, <2>2 DEF Contents
    <3>3. PICK w \in 1..MaxWrites : w = id[t]
      BY <1>3
    <3>4. id[t] \in may'[c]
      BY <1>1, <1>4, <3>1 DEF Inv, Numbers
    <3>5. \A u \in Threads : pc'[u] = "write" /\ block'[u] = c => id[t] \notin old'[u]
      BY <1>1, <1>2, <3>1 DEF Inv, Numbers, Owned
    <3>6. Explains(w, addr_mapping[c])'
      BY <3>2, <3>3 DEF Explains
    <3> QED BY <1>3, <2>2, <3>3, <3>4, <3>5, <3>6
  <2>3. CASE addr_mapping[c] # wp /\ addr_mapping[c] # Unmapped
    <3>1. PICK w \in may[c] :
             /\ Explains(w, addr_mapping[c])
             /\ \A u \in Threads : pc[u] = "write" /\ block[u] = c => w \notin old[u]
      BY <1>2, <2>3 DEF Inv, Explained
    <3>2. w \in may'[c]
      BY <1>1, <1>4, <3>1
    <3>3. addr_mapping[c] \in Slots /\ data'[addr_mapping[c]] = data[addr_mapping[c]]
      BY <1>3, <2>3, TypeFacts DEF Inv
    <3>4. \A u \in Threads : sector[u] = addr_mapping[c] => u # t
      BY <1>1, <2>3
    <3>5. Explains(w, addr_mapping[c])'
      BY <1>1, <1>2, <3>1, <3>3, <3>4 DEF Explains, Contents
    <3> QED BY <1>2, <2>3, <3>1, <3>2, <3>5
  <2> QED BY <2>1, <2>2, <2>3
<1>11. Expected'
  <2> SUFFICES ASSUME NEW u \in Threads, pc'[u] = "read"
               PROVE  /\ Contents(sector[u])' \in legal'[u]
                      /\ \A v \in Threads : Owned(v)' /\ sector'[v] = sector'[u]
                                              => id'[v] \in legal'[u]
    BY DEF Expected
  <2>1. /\ u # t /\ pc[u] = "read" /\ sector'[u] = sector[u] /\ legal'[u] = legal[u]
        /\ sector[u] \in Slots
    BY <1>2 DEF Inv, TypeOK
  <2>2. Contents(sector[u])' \in legal'[u]
    <3>1. CASE sector[u] = wp
      <4>1. Contents(sector[u])' = id[t]
        BY <1>2, <1>3, <2>1, <3>1 DEF Contents
      <4> QED BY <1>1, <2>1, <3>1, <4>1 DEF Inv, Expected
    <3>2. CASE sector[u] # wp
      BY <1>2, <1>3, <2>1, <3>2 DEF Inv, Expected, Contents
    <3> QED BY <3>1, <3>2
  <2> QED BY <1>2, <2>1, <2>2 DEF Inv, Expected
<1>12. NotBehind'
  BY <1>1, <1>2, <1>5, TypeFacts DEF Inv, NotBehind
<1>13. NoHole'
  <2> SUFFICES ASSUME wp0 = 0, failed = {}
               PROVE  wp + 1 .. next_sector - 1 =
                         {sector'[u] : u \in {v \in Threads : Owned(v)'}}
    BY <1>1, <1>2 DEF NoHole
  <2>1. {sector'[u] : u \in {v \in Threads : Owned(v)'}} =
           {sector[u] : u \in {v \in Threads : Owned(v)}} \ {wp}
    BY <1>1, <1>2, <1>3
  <2>2. wp + 1 .. next_sector - 1 = (wp .. next_sector - 1) \ {wp}
    BY <1>3, TypeFacts DEF Inv
  <2> QED BY <1>2, <2>1, <2>2 DEF Inv, NoHole
<1> QED BY <1>6, <1>7, <1>8, <1>9, <1>10, <1>11, <1>12, <1>13 DEF Inv

\* The device fails a write, before or after it put the block on the media.
LEMMA DeviceFailsKeeps ==
    ASSUME Inv, NEW t \in Threads, DeviceFails(t)
    PROVE  Inv'
<1> USE SlotsAreNumbers
<1> DEFINE b == block[t]
<1>1. /\ pc[t] = "write" /\ End(t) /\ Owned(t) /\ b \in Slots /\ sector[t] \in Slots
      /\ failed' = failed \cup {id[t]} /\ may' = may
  BY DEF DeviceFails, Owned, Inv, TypeOK
<1>2. /\ len # 0 /\ ~Owned(t)' /\ pc'[t] = "idle" /\ old'[t] = {}
      /\ UNCHANGED <<engine, len, addr_mapping, next_sector, writes, wp0, born>>
      /\ \A u \in Threads \ {t} :
            /\ sector'[u] = sector[u] /\ block'[u] = block[u] /\ pc'[u] = pc[u]
            /\ id'[u] = id[u] /\ old'[u] = old[u] /\ legal'[u] = legal[u]
            /\ (Owned(u)' <=> Owned(u))
  BY <1>1, EndFacts
<1>3. /\ id[t] \in 1..writes /\ id[t] > born /\ id[t] \in 1..MaxWrites
      /\ id[t] \in may[b] /\ data[sector[t]] <= born
  BY <1>1, <1>2 DEF Inv, TypeOK, Numbers, Fresh
<1>4. /\ wp' \in 0..DevBlocks
      /\ data' \in [Slots -> 1..MaxWrites \cup {Unwritten}]
      /\ \A s \in Slots : data'[s] # data[s] => s = sector[t] /\ data'[s] = id[t]
  <2>1. CASE UNCHANGED devVars
    BY <2>1 DEF Inv, TypeOK, devVars
  <2>2. CASE sector[t] = wp /\ wp' = wp + 1 /\ data' = [data EXCEPT ![wp] = id[t]]
    <3>1. wp + 1 \in 0..DevBlocks
      BY <1>1, <2>2 DEF Slots
    <3> QED BY <1>1, <2>2, <3>1, TakenFacts
  <2> QED BY <2>1, <2>2 DEF DeviceFails
<1>5. TypeOK'
  BY <1>1, <1>2, <1>3, <1>4, EndFacts DEF Inv, TypeOK
<1>6. SectorsExclusive' /\ Lifetime'
  BY <1>1, EndKeeps
<1>7. Numbers'
  <2>1. \A s \in Slots : data'[s] <= writes
    <3>1. id[t] <= writes
      BY <1>3, TypeFacts DEF Inv
    <3> QED BY <1>4, <3>1 DEF Inv, Numbers
  <2> QED BY <1>1, <1>2, <2>1 DEF Inv, Numbers
<1>8. Fresh'
  <2>1. sector[t] < next_sector
    BY <1>1 DEF Inv, SectorsExclusive
  <2>2. \A s \in Slots : s >= next_sector => data'[s] <= born
    <3> SUFFICES ASSUME NEW s \in Slots, s >= next_sector PROVE data'[s] <= born
      OBVIOUS
    <3>1. s # sector[t]
      BY <1>1, <2>1, TypeFacts DEF Inv
    <3> QED BY <1>2, <1>4, <3>1 DEF Inv, Fresh
  <2>3. \A u \in Threads : Owned(u)' => data'[sector'[u]] <= born
    <3> SUFFICES ASSUME NEW u \in Threads, Owned(u)' PROVE data'[sector'[u]] <= born
      OBVIOUS
    <3>1. /\ u # t /\ Owned(u) /\ sector'[u] = sector[u] /\ sector[u] \in Slots
          /\ sector[u] # sector[t]
      BY <1>1, <1>2 DEF Inv, TypeOK, SectorsExclusive
    <3> QED BY <1>2, <1>4, <3>1 DEF Inv, Fresh
  <2> QED BY <1>2, <2>2, <2>3 DEF Fresh
<1>9. Explained'
  <2> SUFFICES ASSUME NEW c \in Slots, addr_mapping[c] # Unmapped
               PROVE  \E w \in may[c] :
                         /\ Explains(w, addr_mapping[c])'
                         /\ \A u \in Threads : pc'[u] = "write" /\ block'[u] = c
                                                 => w \notin old'[u]
    BY <1>1, <1>2 DEF Inv, Explained
  <2>0. addr_mapping[c] \in Slots
    BY TypeFacts DEF Inv
  <2>1. CASE addr_mapping[c] = sector[t]
    <3>1. c = b
      BY <1>1, <2>1 DEF Inv, SectorsExclusive
    <3>2. PICK w \in may[c] : w = id[t]
      BY <1>3, <3>1
    <3>3. Contents(addr_mapping[c])' = w \/ Contents(addr_mapping[c])' = Unwritten
      BY <1>1, <1>2, <1>3, <1>4, <2>1, <3>2, TypeFacts DEF Inv, Contents
    <3>4. Explains(w, addr_mapping[c])'
      BY <1>1, <3>2, <3>3 DEF Explains
    <3>5. \A u \in Threads : pc'[u] = "write" /\ block'[u] = c => w \notin old'[u]
      BY <1>1, <1>2, <3>1, <3>2 DEF Inv, Numbers, Owned
    <3> QED BY <3>4, <3>5
  <2>2. CASE addr_mapping[c] # sector[t]
    <3>1. PICK w \in may[c] :
             /\ Explains(w, addr_mapping[c])
             /\ \A u \in Threads : pc[u] = "write" /\ block[u] = c => w \notin old[u]
      BY <1>2 DEF Inv, Explained
    <3>2. data'[addr_mapping[c]] = data[addr_mapping[c]]
      BY <1>4, <2>0, <2>2
    <3>3. \A u \in Threads : sector[u] = addr_mapping[c] => u # t
      BY <2>2
    <3>4. Explains(w, addr_mapping[c])'
      BY <1>1, <1>2, <3>1, <3>2, <3>3 DEF Explains, Contents
    <3> QED BY <1>2, <3>1, <3>4
  <2> QED BY <2>1, <2>2
<1>10. Expected'
  <2> SUFFICES ASSUME NEW u \in Threads, pc'[u] = "read"
               PROVE  /\ Contents(sector[u])' \in legal'[u]
                      /\ \A v \in Threads : Owned(v)' /\ sector'[v] = sector'[u]
                                              => id'[v] \in legal'[u]
    BY DEF Expected
  <2>1. /\ u # t /\ pc[u] = "read" /\ sector'[u] = sector[u] /\ legal'[u] = legal[u]
        /\ sector[u] \in Slots
    BY <1>2 DEF Inv, TypeOK
  <2>2. Contents(sector[u])' \in legal'[u]
    <3>1. CASE data'[sector[u]] = data[sector[u]]
      BY <1>2, <2>1, <3>1 DEF Inv, Expected, Contents
    <3>2. CASE data'[sector[u]] # data[sector[u]]
      <4>1. sector[u] = sector[t] /\ data'[sector[u]] = id[t]
        BY <1>4, <2>1, <3>2
      <4>2. Contents(sector[u])' = id[t]
        BY <1>2, <1>3, <2>1, <4>1 DEF Contents
      <4> QED BY <1>1, <2>1, <4>1, <4>2 DEF Inv, Expected
    <3> QED BY <3>1, <3>2
  <2> QED BY <1>2, <2>1, <2>2 DEF Inv, Expected
<1>11. NotBehind' /\ NoHole'
  BY <1>1 DEF NotBehind, NoHole
<1> QED BY <1>5, <1>6, <1>7, <1>8, <1>9, <1>10, <1>11 DEF Inv

(***************************************************************************)
(* The theorems                                                            *)
(***************************************************************************)
\* Every step of every thread, of the device and of the administrator keeps the
\* invariant.
LEMMA NextKeeps == Inv /\ [Next]_vars => Inv'
<1> SUFFICES ASSUME Inv, [Next]_vars PROVE Inv'
  OBVIOUS
<1>1. CASE \E n \in 0..DevBlocks : Ctr(n)
  BY <1>1, CtrKeeps
<1>2. CASE Dtr
  BY <1>2, DtrKeeps
<1>3. CASE ResetZones
  BY <1>3, ResetZonesKeeps
<1>4. ASSUME NEW t \in Threads, len # 0, NEW bio \in Bios, Map(t, bio)
      PROVE  Inv'
  <2>1. CASE KillRead(t, bio) \/ KillWrite(t, bio)
    BY <2>1, KillKeeps DEF KillRead, KillWrite
  <2>2. CASE AllocAndMap(t, bio)
    <3>1. /\ Allocate(t, bio) /\ pc' = [pc EXCEPT ![t] = "write"]
          /\ UNCHANGED <<engine, len, devVars>>
      BY <2>2 DEF AllocAndMap
    <3>2. sector'[t] = next_sector
      BY <3>1 DEF Inv, TypeOK, Allocate
    <3>3. addr_mapping' = [addr_mapping EXCEPT ![bio.block] = next_sector]
      BY <2>2, <3>2 DEF AllocAndMap
    <3> QED BY <1>4, <3>1, <3>3, AllocateKeeps
  <2>3. CASE Alloc(t, bio)
    <3>1. /\ Allocate(t, bio) /\ pc' = [pc EXCEPT ![t] = "store"]
          /\ UNCHANGED <<engine, len, devVars>> /\ addr_mapping' = addr_mapping
      BY <2>3 DEF Alloc
    <3> QED BY <1>4, <3>1, AllocateKeeps
  <2>4. CASE ReadMapped(t, bio)
    BY <1>4, <2>4, ReadMappedKeeps
  <2> QED BY <1>4, <2>1, <2>2, <2>3, <2>4 DEF Map
<1>5. ASSUME NEW t \in Threads, \/ StoreMapping(t) \/ DeviceReads(t)
                                \/ DeviceWrites(t) \/ DeviceFails(t)
      PROVE  Inv'
  BY <1>5, StoreMappingKeeps, DeviceReadsKeeps, DeviceWritesKeeps, DeviceFailsKeeps
<1>6. CASE UNCHANGED vars
  <2> USE <1>6 DEF vars, devVars, histVars
  <2>1. TypeOK' /\ SectorsExclusive' /\ Lifetime'
    BY DEF Inv, TypeOK, SectorsExclusive, Lifetime, Owned, Idle
  <2>2. Numbers' /\ Fresh' /\ NotBehind' /\ NoHole'
    BY DEF Inv, Numbers, Fresh, NotBehind, NoHole, Owned
  <2>3. Explained' /\ Expected'
    BY DEF Inv, Explained, Expected, Explains, Contents, Owned
  <2> QED BY <2>1, <2>2, <2>3 DEF Inv
<1> QED BY <1>1, <1>2, <1>3, <1>4, <1>5, <1>6 DEF Next

\* The invariant holds in every reachable state, for any number of threads, blocks
\* and writes.
THEOREM InvHolds == Spec => []Inv
BY InitInv, NextKeeps, PTL DEF Spec

\* No sector past the end of the target is handed out or mapped by
\* zns_append4k_write() or zns_allocator_alloc().
THEOREM TypeCorrect == Spec => []TypeOK
<1>1. Inv => TypeOK
  BY DEF Inv
<1> QED BY InvHolds, <1>1, PTL

\* No two blocks share a sector and no other thread touches the sector of a write
\* under way, although append4k-alloc maps it under another lock than the one it
\* was taken under.
THEOREM SectorsStayExclusive == Spec => []SectorsExclusive
<1>1. Inv => SectorsExclusive
  BY DEF Inv
<1> QED BY InvHolds, <1>1, PTL

\* A read sent to the lower device returns the last write of its block or one it
\* overlaps, although the mapping is changed before the lower write is submitted.
THEOREM RegularReads == Spec => []ReadsAreRegular
<1>1. Inv => ReadsAreRegular
  <2> SUFFICES ASSUME Inv PROVE ReadsAreRegular
    OBVIOUS
  <2>1. ASSUME len # 0, NEW b \in Slots, addr_mapping[b] = Unmapped
        PROVE  Zero \in Legal(b)
    BY <2>1 DEF Inv, Explained, Legal
  <2>2. ASSUME len # 0, NEW b \in Slots, addr_mapping[b] # Unmapped
        PROVE  Contents(addr_mapping[b]) \in Legal(b)
    BY <2>2, MappedIsLegal
  <2>3. \A t \in Threads : pc[t] = "read" => Contents(sector[t]) \in legal[t]
    BY DEF Inv, Expected
  <2> QED BY <2>1, <2>2, <2>3 DEF ReadsAreRegular
<1> QED BY InvHolds, <1>1, PTL

\* As long as the device fails no write, the sectors between its write pointer and
\* next_append_sector are exactly those of the writes under way: each is written
\* before the device refuses anything else for good.
THEOREM NoHoleIsLeft == Spec => []NoHole
<1>1. Inv => NoHole
  BY DEF Inv
<1> QED BY InvHolds, <1>1, PTL
=============================================================================
