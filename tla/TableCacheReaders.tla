------------------------- MODULE TableCacheReaders --------------------------
(***************************************************************************)
(* The readers of TableCache: what each has, which references to the two   *)
(* caches that makes, and how a step changes both.  What the caches do     *)
(* with the references is in TableCacheProofs.                             *)
(***************************************************************************)
EXTENDS TableCache, FiniteSetTheorems, NaturalsInduction, TLAPS

\* Zenon is the prover of the steps that name no other.
USE ZenonT(60)

Labels == {"idle", "ready", "open", "insert", "table", "read", "cache", "block"}
HasTable == {"insert", "table", "read", "cache", "block"}

Reader == [pc : Labels, version : SUBSET Files, file : Files \cup {NULL},
           table : Tables \cup {NULL}, block : Blocks \cup {NULL}, cached : BOOLEAN]
Block == [table : Tables, mapped : BOOLEAN]

TypeOK ==
  /\ bound \in Bounds
  /\ current \subseteq Files /\ disk \subseteq Files /\ evicted \in Files \cup {NULL}
  /\ blocks \in [Blocks -> Block \cup {NULL}]
  /\ freed \subseteq {b \in Blocks : blocks[b] # NULL}
  /\ opened \in [Tables -> Files \cup {NULL}]
  /\ reader \in [Readers -> Reader]
  /\ closed \in BOOLEAN

\* The block of x is its own: it was read and is not in the cache.
Private(x) == x.block # NULL /\ ~x.cached

\* Where a reader is tells what it has: from FindTable on a table of its file,
\* and a block of that table.
Consistent(x, files, tables, gone) ==
  /\ x.pc \in HasTable \cup {"open"} => x.file \in x.version
  /\ x.pc \in HasTable => x.table \in Tables /\ files[x.table] = x.file
  /\ x.pc \notin HasTable => x.table = NULL
  /\ x.pc = "cache" => Private(x)
  /\ x.cached => x.block # NULL /\ x.pc = "block"
  /\ x.block # NULL => /\ x.pc \in {"cache", "block"}
                       /\ tables[x.block] # NULL /\ x.block \notin gone
                       /\ tables[x.block].table = x.table

\* Nobody shares a table it has not inserted yet, or a private block.
Unshared(rd) ==
  \A r, q \in Readers :
    /\ rd[r].pc = "insert" /\ rd[q].pc = "insert" /\ rd[r].table = rd[q].table => r = q
    /\ Private(rd[r]) /\ Private(rd[q]) /\ rd[r].block = rd[q].block => r = q

\* What was inserted into the caches.
TablesIn(files, rd) ==
  {t \in Tables : files[t] # NULL /\ \A r \in Readers : rd[r].pc = "insert" => rd[r].table # t}
BlocksIn(tables, gone, rd) ==
  {b \in Blocks : /\ tables[b] # NULL /\ b \notin gone
                  /\ \A r \in Readers : Private(rd[r]) => rd[r].block # b}
TableOf(tables) == [b \in Blocks |-> IF tables[b] = NULL THEN NULL ELSE tables[b].table]

\* A file that is about to be deleted is in no version.
Leaving ==
  evicted # NULL => evicted \notin current /\ \A r \in Readers : evicted \notin reader[r].version

\* After Close there is no reader.
Shut == closed => evicted = NULL /\ \A r \in Readers : reader[r].pc = "idle"

ReadersInv ==
  /\ TypeOK /\ Unshared(reader) /\ Leaving /\ Shut
  /\ \A r \in Readers : Consistent(reader[r], opened, blocks, freed)

\* The same after a step.
ReadersKept ==
  /\ TypeOK' /\ Unshared(reader') /\ Leaving' /\ Shut'
  /\ \A r \in Readers : Consistent(reader'[r], opened', blocks', freed')

\* A step changes nothing that the caches hold.
SameEntries ==
  /\ TablesIn(opened', reader') = TablesIn(opened, reader)
  /\ BlocksIn(blocks', freed', reader') = BlocksIn(blocks, freed, reader)
-----------------------------------------------------------------------------
\* The first of some numbers is one of them.
LEMMA FreshIsIn ==
  ASSUME NEW S, S \subseteq Nat, S # {}
  PROVE  Fresh(S) \in S
<1> DEFINE R == {ss \in Nat \X Nat : ss[1] < ss[2]}
<1>1. IsWellFoundedOn(R, Nat)
  BY NatLessThanWellFounded DEF OpToRel
<1> HIDE DEF R
<1>2. PICK x \in S : \A y \in S : ~(<<y, x>> \in R)
  BY <1>1, WFMin
<1>3. ASSUME NEW y \in S, y < x PROVE FALSE
  <2> DEFINE p == <<y, x>>
  <2>1. p \in Nat \X Nat /\ p[1] = y /\ p[2] = x
    OBVIOUS
  <2> HIDE DEF p
  <2>2. p \in R
    BY <1>3, <2>1 DEF R
  <2> QED BY <1>2, <2>2 DEF p
<1>4. \A y \in S : x <= y
  BY SMTT(30), <1>3
<1> QED BY <1>4 DEF Fresh

(***************************************************************************)
(* The references of the readers.                                          *)
(***************************************************************************)
\* The table and the block that x has a reference to.
OwnTable(x) == IF x.pc = "insert" THEN NULL ELSE x.table
OwnBlock(x) == IF x.cached THEN x.block ELSE NULL
Owners(own, h) == {r \in Readers : own[r] = h}
Count(own, D) == [h \in D |-> Cardinality(Owners(own, h))]

LEMMA OwnersFinite ==
  ASSUME TableCacheAssumption, NEW own, NEW h
  PROVE  IsFiniteSet(Owners(own, h)) /\ Cardinality(Owners(own, h)) \in Nat
<1>1. IsFiniteSet(Readers) /\ Owners(own, h) \subseteq Readers
  BY DEF TableCacheAssumption, Owners
<1>2. IsFiniteSet(Owners(own, h))
  BY <1>1, FS_Subset
<1> QED BY <1>2, FS_CardinalityType

\* A reader that gets a reference, and one that gives it back.
Owns(own, r, h) == [own EXCEPT ![r] = h]
Gained(g, h) == [g EXCEPT ![h] = @ + 1]
Lost(g, h) == [g EXCEPT ![h] = @ - 1]

LEMMA CountGain ==
  ASSUME TableCacheAssumption, NEW D, NULL \notin D, NEW own \in [Readers -> D \cup {NULL}],
         NEW r \in Readers, NEW h \in D, own[r] = NULL
  PROVE  Count(Owns(own, r, h), D) = Gained(Count(own, D), h)
<1> DEFINE new == Owns(own, r, h)
<1>1. Owners(new, h) = Owners(own, h) \cup {r} /\ r \notin Owners(own, h)
  BY DEF Owners, Owns
<1>2. Cardinality(Owners(new, h)) = Cardinality(Owners(own, h)) + 1
  BY <1>1, OwnersFinite, FS_AddElement
<1>3. \A e \in D : e # h => Owners(new, e) = Owners(own, e)
  BY DEF Owners, Owns
<1> QED BY <1>2, <1>3 DEF Count, Gained

LEMMA CountLoss ==
  ASSUME TableCacheAssumption, NEW D, NULL \notin D, NEW own \in [Readers -> D \cup {NULL}],
         NEW r \in Readers, NEW h \in D, own[r] = h
  PROVE  Count(Owns(own, r, NULL), D) = Lost(Count(own, D), h) /\ Count(own, D)[h] > 0
<1> DEFINE new == Owns(own, r, NULL)
<1>1. Owners(new, h) = Owners(own, h) \ {r} /\ r \in Owners(own, h)
  BY DEF Owners, Owns
<1>2. IsFiniteSet(Owners(own, h)) /\ Owners(own, h) # {} /\ Cardinality(Owners(own, h)) \in Nat
  BY <1>1, OwnersFinite
<1>3. Cardinality(Owners(new, h)) = Cardinality(Owners(own, h)) - 1
  BY <1>1, <1>2, FS_RemoveElement
<1>4. Cardinality(Owners(own, h)) # 0
  BY <1>2, FS_EmptySet
<1>5. Count(own, D)[h] > 0
  BY SMTT(30), <1>2, <1>4 DEF Count
<1>6. \A e \in D : e # h => Owners(new, e) = Owners(own, e)
  BY DEF Owners, Owns
<1>7. Count(new, D) = Lost(Count(own, D), h)
  BY <1>3, <1>6 DEF Count, Lost
<1> QED BY <1>5, <1>7

\* The references readers have, before and after a step of r.
OwnTables == [r \in Readers |-> OwnTable(reader[r])]
OwnBlocks == [r \in Readers |-> OwnBlock(reader[r])]

LEMMA HeldIsCount ==
  ASSUME TableCacheAssumption
  PROVE  /\ TablesHeld = Count(OwnTables, Tables) /\ BlocksHeld = Count(OwnBlocks, Blocks)
         /\ TablesHeld' = Count(OwnTables', Tables) /\ BlocksHeld' = Count(OwnBlocks', Blocks)
<1>0. NULL \notin Tables /\ NULL \notin Blocks
  BY DEF TableCacheAssumption
<1>1. ASSUME NEW t \in Tables
      PROVE  /\ {r \in Readers : reader[r].table = t /\ reader[r].pc # "insert"} = Owners(OwnTables, t)
             /\ {r \in Readers : reader'[r].table = t /\ reader'[r].pc # "insert"} = Owners(OwnTables', t)
  BY <1>0 DEF Owners, OwnTables, OwnTable
<1>2. ASSUME NEW b \in Blocks
      PROVE  /\ {r \in Readers : reader[r].block = b /\ reader[r].cached} = Owners(OwnBlocks, b)
             /\ {r \in Readers : reader'[r].block = b /\ reader'[r].cached} = Owners(OwnBlocks', b)
  BY <1>0 DEF Owners, OwnBlocks, OwnBlock
<1> QED BY <1>1, <1>2 DEF TablesHeld, BlocksHeld, Count

LEMMA HeldChange ==
  ASSUME TableCacheAssumption, reader \in [Readers -> Reader], NEW r \in Readers, NEW x,
         reader' = [reader EXCEPT ![r] = x]
  PROVE  LET t == OwnTable(reader[r])
             b == OwnBlock(reader[r])
         IN /\ OwnTable(x) = t => TablesHeld' = TablesHeld
            /\ t = NULL /\ OwnTable(x) \in Tables => TablesHeld' = Gained(TablesHeld, OwnTable(x))
            /\ t \in Tables /\ OwnTable(x) = NULL =>
                 TablesHeld' = Lost(TablesHeld, t) /\ TablesHeld[t] > 0
            /\ OwnBlock(x) = b => BlocksHeld' = BlocksHeld
            /\ b = NULL /\ OwnBlock(x) \in Blocks => BlocksHeld' = Gained(BlocksHeld, OwnBlock(x))
            /\ b \in Blocks /\ OwnBlock(x) = NULL =>
                 BlocksHeld' = Lost(BlocksHeld, b) /\ BlocksHeld[b] > 0
<1> DEFINE t == OwnTable(reader[r])
           b == OwnBlock(reader[r])
<1>0. NULL \notin Tables /\ NULL \notin Blocks
  BY DEF TableCacheAssumption
<1>1. /\ OwnTables \in [Readers -> Tables \cup {NULL}] /\ OwnBlocks \in [Readers -> Blocks \cup {NULL}]
      /\ OwnTables[r] = t /\ OwnBlocks[r] = b
  BY DEF OwnTables, OwnBlocks, OwnTable, OwnBlock, Reader
<1>2. OwnTables' = Owns(OwnTables, r, OwnTable(x))
  BY DEF Owns, OwnTables, OwnTable
<1>3. OwnBlocks' = Owns(OwnBlocks, r, OwnBlock(x))
  BY DEF Owns, OwnBlocks, OwnBlock
<1> HIDE DEF t, b
<1>4. OwnTable(x) = t => TablesHeld' = TablesHeld
  BY <1>1, <1>2, HeldIsCount DEF Owns
<1>5. ASSUME t = NULL, OwnTable(x) \in Tables
      PROVE  TablesHeld' = Gained(TablesHeld, OwnTable(x))
  <2>1. NULL \notin Tables /\ OwnTables \in [Readers -> Tables \cup {NULL}] /\ OwnTables[r] = NULL
    BY <1>0, <1>1, <1>5
  <2>2. Count(OwnTables', Tables) = Gained(Count(OwnTables, Tables), OwnTable(x))
    BY <1>2, <1>5, <2>1, CountGain
  <2> QED BY <2>2, HeldIsCount
<1>6. ASSUME t \in Tables, OwnTable(x) = NULL
      PROVE  TablesHeld' = Lost(TablesHeld, t) /\ TablesHeld[t] > 0
  <2>1. NULL \notin Tables /\ OwnTables \in [Readers -> Tables \cup {NULL}] /\ OwnTables[r] = t
    BY <1>0, <1>1, <1>6
  <2>2. OwnTables' = Owns(OwnTables, r, NULL)
    BY <1>2, <1>6
  <2>3. Count(OwnTables', Tables) = Lost(Count(OwnTables, Tables), t) /\ Count(OwnTables, Tables)[t] > 0
    BY <1>6, <2>1, <2>2, CountLoss
  <2> QED BY <2>3, HeldIsCount
<1>7. OwnBlock(x) = b => BlocksHeld' = BlocksHeld
  BY <1>1, <1>3, HeldIsCount DEF Owns
<1>8. ASSUME b = NULL, OwnBlock(x) \in Blocks
      PROVE  BlocksHeld' = Gained(BlocksHeld, OwnBlock(x))
  <2>1. NULL \notin Blocks /\ OwnBlocks \in [Readers -> Blocks \cup {NULL}] /\ OwnBlocks[r] = NULL
    BY <1>0, <1>1, <1>8
  <2>2. Count(OwnBlocks', Blocks) = Gained(Count(OwnBlocks, Blocks), OwnBlock(x))
    BY <1>3, <1>8, <2>1, CountGain
  <2> QED BY <2>2, HeldIsCount
<1>9. ASSUME b \in Blocks, OwnBlock(x) = NULL
      PROVE  BlocksHeld' = Lost(BlocksHeld, b) /\ BlocksHeld[b] > 0
  <2>1. NULL \notin Blocks /\ OwnBlocks \in [Readers -> Blocks \cup {NULL}] /\ OwnBlocks[r] = b
    BY <1>0, <1>1, <1>9
  <2>2. OwnBlocks' = Owns(OwnBlocks, r, NULL)
    BY <1>3, <1>9
  <2>3. Count(OwnBlocks', Blocks) = Lost(Count(OwnBlocks, Blocks), b) /\ Count(OwnBlocks, Blocks)[b] > 0
    BY <1>9, <2>1, <2>2, CountLoss
  <2> QED BY <2>3, HeldIsCount
<1> QED BY <1>4, <1>5, <1>6, <1>7, <1>8, <1>9 DEF t, b

\* A reader has a reference to whatever is held.
LEMMA HeldOwner ==
  ASSUME TableCacheAssumption
  PROVE  /\ \A t \in Tables : TablesHeld[t] > 0 <=> \E r \in Readers : OwnTable(reader[r]) = t
         /\ \A b \in Blocks : BlocksHeld[b] > 0 <=> \E r \in Readers : OwnBlock(reader[r]) = b
<1>1. ASSUME NEW own, NEW h
      PROVE  Cardinality(Owners(own, h)) > 0 <=> \E r \in Readers : own[r] = h
  <2>1. IsFiniteSet(Owners(own, h)) /\ Cardinality(Owners(own, h)) \in Nat
    BY OwnersFinite
  <2>2. Cardinality(Owners(own, h)) = 0 <=> Owners(own, h) = {}
    BY <2>1, FS_EmptySet
  <2> QED BY SMTT(30), <2>1, <2>2 DEF Owners
<1>2. \A t \in Tables : TablesHeld[t] = Cardinality(Owners(OwnTables, t))
  BY HeldIsCount DEF Count
<1>3. \A b \in Blocks : BlocksHeld[b] = Cardinality(Owners(OwnBlocks, b))
  BY HeldIsCount DEF Count
<1>4. \A t \in Tables : TablesHeld[t] > 0 <=> \E r \in Readers : OwnTables[r] = t
  BY <1>1, <1>2
<1>5. \A b \in Blocks : BlocksHeld[b] > 0 <=> \E r \in Readers : OwnBlocks[r] = b
  BY <1>1, <1>3
<1> QED BY <1>4, <1>5 DEF OwnTables, OwnBlocks

-----------------------------------------------------------------------------
(***************************************************************************)
(* A step of reader r, which becomes x.                                    *)
(***************************************************************************)
\* What it may do so that every reader stays consistent and shares nothing.
LEMMA StaysConsistent ==
  ASSUME TableCacheAssumption, ReadersInv, NEW r \in Readers, NEW x \in Reader,
         reader' = [reader EXCEPT ![r] = x],
         \A t \in Tables : opened[t] # NULL => opened'[t] = opened[t],
         \A b \in Blocks : blocks[b] # NULL => blocks'[b] = blocks[b],
         \A q \in Readers \ {r} : reader[q].block # NULL => reader[q].block \notin freed',
         Consistent(x, opened', blocks', freed'),
         x.pc = "insert" => opened[x.table] = NULL,
         Private(x) => blocks[x.block] = NULL
  PROVE  /\ reader' \in [Readers -> Reader] /\ Unshared(reader')
         /\ \A q \in Readers : Consistent(reader'[q], opened', blocks', freed')
<1>1. /\ reader \in [Readers -> Reader] /\ Unshared(reader)
      /\ \A q \in Readers : Consistent(reader[q], opened, blocks, freed)
      /\ NULL \notin Files
  BY DEF ReadersInv, TypeOK, TableCacheAssumption
<1>2. reader' \in [Readers -> Reader]
  BY <1>1
<1>3. ASSUME NEW q \in Readers, q # r
      PROVE  /\ reader'[q] = reader[q] /\ reader[q] \in Reader
             /\ Consistent(reader[q], opened, blocks, freed)
             /\ reader[q].block # NULL => reader[q].block \notin freed'
  BY <1>1, <1>3
<1>4. ASSUME NEW q \in Readers, q # r
      PROVE  /\ reader[q].pc = "insert" => opened[reader[q].table] # NULL
             /\ Private(reader[q]) => blocks[reader[q].block] # NULL
  <2>1. reader[q].file # NULL \/ reader[q].pc # "insert"
    BY SMTT(30), <1>1, <1>3, <1>4 DEF Consistent, HasTable, Reader
  <2> QED BY <1>3, <1>4, <2>1 DEF Consistent, Private, HasTable
<1>5. ASSUME NEW q \in Readers, q # r
      PROVE  Consistent(reader[q], opened', blocks', freed')
  <2> DEFINE y == reader[q]
  <2>1. y.pc \in HasTable => y.table \in Tables /\ opened[y.table] = y.file /\ y.file \in Files
    BY <1>3, <1>5 DEF Consistent, Reader
  <2>2. y.block # NULL => y.block \in Blocks /\ blocks[y.block] # NULL
    BY <1>3, <1>5 DEF Consistent, Reader
  <2> QED BY SMTT(30), <1>1, <1>3, <1>5, <2>1, <2>2 DEF Consistent
<1>6. reader'[r] = x
  BY <1>1
<1>7. \A q \in Readers : Consistent(reader'[q], opened', blocks', freed')
  BY <1>3, <1>5, <1>6
<1>8. Unshared(reader')
  <2> SUFFICES ASSUME NEW p \in Readers, NEW q \in Readers, p # q
               PROVE  /\ ~(/\ reader'[p].pc = "insert" /\ reader'[q].pc = "insert"
                           /\ reader'[p].table = reader'[q].table)
                      /\ ~(/\ Private(reader'[p]) /\ Private(reader'[q])
                           /\ reader'[p].block = reader'[q].block)
    BY DEF Unshared
  <2>1. CASE p # r /\ q # r
    BY <1>1, <1>3, <2>1 DEF Unshared
  <2>2. CASE p = r
    BY SMTT(30), <1>3, <1>4, <1>6, <2>2
  <2>3. CASE q = r
    BY SMTT(30), <1>3, <1>4, <1>6, <2>3
  <2> QED BY <2>1, <2>2, <2>3
<1> QED BY <1>2, <1>7, <1>8

\* What was inserted stays the same unless r inserts it.
LEMMA SameIn ==
  ASSUME TableCacheAssumption, ReadersInv, NEW r \in Readers, NEW x,
         reader' = [reader EXCEPT ![r] = x]
  PROVE  /\ opened' = opened /\ reader[r].pc # "insert" /\ x.pc # "insert" =>
              TablesIn(opened', reader') = TablesIn(opened, reader)
         /\ blocks' = blocks /\ freed' = freed /\ ~Private(reader[r]) /\ ~Private(x) =>
              BlocksIn(blocks', freed', reader') = BlocksIn(blocks, freed, reader)
<1>1. reader \in [Readers -> Reader]
  BY DEF ReadersInv, TypeOK
<1>2. reader'[r] = x /\ \A q \in Readers : q # r => reader'[q] = reader[q]
  BY <1>1
<1>3. ASSUME opened' = opened, reader[r].pc # "insert", x.pc # "insert"
      PROVE  TablesIn(opened', reader') = TablesIn(opened, reader)
  <2>1. ASSUME NEW t
        PROVE  (\A q \in Readers : reader'[q].pc = "insert" => reader'[q].table # t)
                 <=> (\A q \in Readers : reader[q].pc = "insert" => reader[q].table # t)
    BY <1>2, <1>3
  <2> QED BY <1>3, <2>1 DEF TablesIn
<1>4. ASSUME blocks' = blocks, freed' = freed, ~Private(reader[r]), ~Private(x)
      PROVE  BlocksIn(blocks', freed', reader') = BlocksIn(blocks, freed, reader)
  <2>1. ASSUME NEW b
        PROVE  (\A q \in Readers : Private(reader'[q]) => reader'[q].block # b)
                 <=> (\A q \in Readers : Private(reader[q]) => reader[q].block # b)
    BY <1>2, <1>4
  <2> QED BY <1>4, <2>1 DEF BlocksIn
<1> QED BY <1>3, <1>4

\* So does the rest of the invariant, if the file about to be deleted stays out of
\* its version.
LEMMA ReaderStep ==
  ASSUME TableCacheAssumption, ReadersInv, NEW r \in Readers, NEW x \in Reader,
         reader' = [reader EXCEPT ![r] = x],
         UNCHANGED <<bound, current, disk, evicted, closed>>,
         opened' \in [Tables -> Files \cup {NULL}], blocks' \in [Blocks -> Block \cup {NULL}],
         freed' \subseteq {b \in Blocks : blocks'[b] # NULL},
         \A t \in Tables : opened[t] # NULL => opened'[t] = opened[t],
         \A b \in Blocks : blocks[b] # NULL => blocks'[b] = blocks[b],
         \A q \in Readers \ {r} : reader[q].block # NULL => reader[q].block \notin freed',
         Consistent(x, opened', blocks', freed'),
         x.pc = "insert" => opened[x.table] = NULL,
         Private(x) => blocks[x.block] = NULL,
         x.version \subseteq reader[r].version \/ x.version = current,
         reader[r].pc # "idle" \/ ~closed
  PROVE  ReadersKept
<1>1. /\ reader' \in [Readers -> Reader] /\ Unshared(reader')
      /\ \A q \in Readers : Consistent(reader'[q], opened', blocks', freed')
  BY StaysConsistent
<1>2. TypeOK'
  BY <1>1 DEF ReadersInv, TypeOK
<1>3. reader \in [Readers -> Reader] /\ Leaving /\ Shut
  BY DEF ReadersInv, TypeOK
<1>4. Leaving' /\ Shut'
  BY <1>3 DEF Leaving, Shut
<1> QED BY <1>1, <1>2, <1>4 DEF ReadersKept

\* Nothing that readers have is freed when freed stays the same.
LEMMA StillThere ==
  ASSUME ReadersInv, freed' = freed
  PROVE  \A q \in Readers : reader[q].block # NULL => reader[q].block \notin freed'
BY DEF ReadersInv, Consistent

\* Steps that call no cache.
LEMMA PlainReader ==
  ASSUME TableCacheAssumption, ReadersInv, NEW r \in Readers, NEW x \in Reader,
         reader' = [reader EXCEPT ![r] = x],
         UNCHANGED <<bound, current, disk, evicted, blocks, freed, opened, closed>>,
         Consistent(x, opened, blocks, freed), x.block = NULL, reader[r].block = NULL,
         x.pc # "insert", reader[r].pc # "insert", x.table = reader[r].table,
         x.version \subseteq reader[r].version \/ x.version = current,
         reader[r].pc # "idle" \/ ~closed
  PROVE  ReadersKept /\ SameEntries /\ TablesHeld' = TablesHeld /\ BlocksHeld' = BlocksHeld
<1>1. reader \in [Readers -> Reader] /\ TypeOK
  BY DEF ReadersInv, TypeOK
<1>2. /\ ~Private(x) /\ ~Private(reader[r])
      /\ OwnTable(x) = OwnTable(reader[r]) /\ OwnBlock(x) = OwnBlock(reader[r])
  BY DEF Private, OwnTable, OwnBlock
<1>3. ReadersKept
  <2>1. /\ Consistent(x, opened', blocks', freed')
        /\ opened' \in [Tables -> Files \cup {NULL}] /\ blocks' \in [Blocks -> Block \cup {NULL}]
        /\ freed' \subseteq {b \in Blocks : blocks'[b] # NULL}
    BY <1>1 DEF TypeOK
  <2> QED BY <1>2, <2>1, StillThere, ReaderStep
<1>4. TablesHeld' = TablesHeld /\ BlocksHeld' = BlocksHeld
  BY <1>1, <1>2, HeldChange
<1>5. SameEntries
  BY <1>2, SameIn DEF SameEntries
<1> QED BY <1>3, <1>4, <1>5

LEMMA PlainReaders ==
  ASSUME TableCacheAssumption, ReadersInv, NEW r \in Readers,
         RefVersion(r) \/ OpenFails(r) \/ ReadFails(r) \/ UnrefVersion(r)
  PROVE  /\ ReadersKept /\ SameEntries /\ TablesHeld' = TablesHeld /\ BlocksHeld' = BlocksHeld
         /\ UNCHANGED <<evicted, tc, bc, blocks, opened, closed>>
<1> DEFINE R == ReadersKept /\ SameEntries /\ TablesHeld' = TablesHeld /\ BlocksHeld' = BlocksHeld
<1>0. /\ reader \in [Readers -> Reader] /\ Consistent(reader[r], opened, blocks, freed)
      /\ reader[r] \in Reader /\ current \subseteq Files
  BY DEF ReadersInv, TypeOK
<1>1. ASSUME RefVersion(r) PROVE R
  <2> DEFINE x == [reader[r] EXCEPT !.pc = "ready", !.version = current]
  <2>1. x \in Reader /\ x.pc = "ready" /\ x.version = current /\ x.table = reader[r].table
        /\ x.block = reader[r].block /\ x.cached = reader[r].cached
    BY <1>0 DEF Reader, Labels
  <2>2. /\ reader' = [reader EXCEPT ![r] = x] /\ reader[r].pc = "idle" /\ ~closed
        /\ UNCHANGED <<bound, current, disk, evicted, tc, bc, blocks, freed, opened, closed>>
    BY <1>0, <1>1 DEF RefVersion
  <2> HIDE DEF x
  <2>3. x.block = NULL /\ Consistent(x, opened, blocks, freed)
    BY <1>0, <2>1, <2>2 DEF Consistent, HasTable
  <2> QED BY <2>1, <2>2, <2>3, PlainReader
<1>2. ASSUME OpenFails(r) PROVE R
  <2> DEFINE x == [reader[r] EXCEPT !.file = NULL, !.pc = "ready"]
  <2>1. x \in Reader /\ x.pc = "ready" /\ x.version = reader[r].version
        /\ x.table = reader[r].table /\ x.block = reader[r].block /\ x.cached = reader[r].cached
    BY <1>0 DEF Reader, Labels
  <2>2. /\ reader' = [reader EXCEPT ![r] = x] /\ reader[r].pc = "open"
        /\ UNCHANGED <<bound, current, disk, evicted, tc, bc, blocks, freed, opened, closed>>
    BY <1>0, <1>2 DEF OpenFails
  <2> HIDE DEF x
  <2>3. x.block = NULL /\ Consistent(x, opened, blocks, freed)
    BY <1>0, <2>1, <2>2 DEF Consistent, HasTable
  <2> QED BY <2>1, <2>2, <2>3, PlainReader
<1>3. ASSUME ReadFails(r) PROVE R
  <2> DEFINE x == [reader[r] EXCEPT !.pc = "block"]
  <2>1. x \in Reader /\ x.pc = "block" /\ x.version = reader[r].version /\ x.file = reader[r].file
        /\ x.table = reader[r].table /\ x.block = reader[r].block /\ x.cached = reader[r].cached
    BY <1>0 DEF Reader, Labels
  <2>2. /\ reader' = [reader EXCEPT ![r] = x] /\ reader[r].pc = "read"
        /\ UNCHANGED <<bound, current, disk, evicted, tc, bc, blocks, freed, opened, closed>>
    BY <1>0, <1>3 DEF ReadFails
  <2> HIDE DEF x
  <2>3. x.block = NULL /\ Consistent(x, opened, blocks, freed)
    BY <1>0, <2>1, <2>2 DEF Consistent, HasTable
  <2> QED BY <2>1, <2>2, <2>3, PlainReader
<1>4. ASSUME UnrefVersion(r) PROVE R
  <2> DEFINE x == Idle
  <2>1. x \in Reader /\ x.pc = "idle" /\ x.version = {} /\ x.table = NULL /\ x.block = NULL
        /\ x.cached = FALSE
    BY DEF Reader, Labels, Idle
  <2>2. /\ reader' = [reader EXCEPT ![r] = x] /\ reader[r].pc = "ready"
        /\ UNCHANGED <<bound, current, disk, evicted, tc, bc, blocks, freed, opened, closed>>
    BY <1>0, <1>4 DEF UnrefVersion
  <2> HIDE DEF x
  <2>3. /\ reader[r].block = NULL /\ reader[r].table = NULL
        /\ Consistent(x, opened, blocks, freed)
    BY <1>0, <2>1, <2>2 DEF Consistent, HasTable
  <2> QED BY <2>1, <2>2, <2>3, PlainReader
<1>5. UNCHANGED <<evicted, tc, bc, blocks, opened, closed>>
  BY DEF RefVersion, OpenFails, ReadFails, UnrefVersion
<1> HIDE DEF R
<1>6. R
  BY <1>1, <1>2, <1>3, <1>4
<1> QED BY <1>5, <1>6 DEF R
-----------------------------------------------------------------------------
(***************************************************************************)
(* Steps with tables.                                                      *)
(***************************************************************************)
\* FindTable: the reader gets a reference to the table it finds.
LEMMA LookupTableReader ==
  ASSUME TableCacheAssumption, ReadersInv, NEW r \in Readers, NEW f \in Files, LookupTable(r, f),
         tc.table[f] \in Tables \cup {NULL}, tc.table[f] # NULL => opened[tc.table[f]] = f
  PROVE  /\ ReadersKept /\ SameEntries /\ BlocksHeld' = BlocksHeld
         /\ tc.table[f] = NULL => TablesHeld' = TablesHeld
         /\ tc.table[f] # NULL => TablesHeld' = Gained(TablesHeld, tc.table[f])
<1> DEFINE t == tc.table[f]
           x == [reader[r] EXCEPT !.file = f, !.table = t, !.pc = IF t = NULL THEN "open" ELSE "table"]
<1>0. /\ reader \in [Readers -> Reader] /\ Consistent(reader[r], opened, blocks, freed)
      /\ reader[r] \in Reader /\ TypeOK /\ NULL \notin Tables
  BY DEF ReadersInv, TypeOK, TableCacheAssumption
<1>1. t \in Tables \cup {NULL} /\ (t # NULL => opened[t] = f)
  OBVIOUS
<1>2. /\ reader' = [reader EXCEPT ![r] = x] /\ reader[r].pc = "ready" /\ f \in reader[r].version
      /\ UNCHANGED <<bound, current, disk, evicted, bc, blocks, freed, opened, closed>>
  BY <1>0 DEF LookupTable
<1> HIDE DEF t
<1>3. /\ x \in Reader /\ x.version = reader[r].version /\ x.file = f /\ x.table = t
      /\ x.block = reader[r].block /\ x.cached = reader[r].cached
      /\ x.pc = IF t = NULL THEN "open" ELSE "table"
  BY <1>0, <1>1 DEF Reader, Labels
<1> HIDE DEF x
<1>4. reader[r].block = NULL /\ reader[r].table = NULL /\ ~reader[r].cached
  BY <1>0, <1>2 DEF Consistent, HasTable, Reader
<1>5. Consistent(x, opened', blocks', freed') /\ ~Private(x) /\ ~Private(reader[r]) /\ x.pc # "insert"
  BY <1>0, <1>1, <1>2, <1>3, <1>4 DEF Consistent, HasTable, Private
<1>6. ReadersKept
  <2>1. /\ opened' \in [Tables -> Files \cup {NULL}] /\ blocks' \in [Blocks -> Block \cup {NULL}]
        /\ freed' \subseteq {b \in Blocks : blocks'[b] # NULL}
    BY <1>0, <1>2 DEF TypeOK
  <2> QED BY <1>2, <1>3, <1>5, <2>1, StillThere, ReaderStep
<1>7. SameEntries
  BY <1>2, <1>5, SameIn DEF SameEntries
<1>8. /\ OwnTable(reader[r]) = NULL /\ OwnTable(x) = t /\ OwnBlock(x) = OwnBlock(reader[r])
  BY <1>2, <1>3, <1>4 DEF OwnTable, OwnBlock
<1>9. /\ BlocksHeld' = BlocksHeld /\ (t = NULL => TablesHeld' = TablesHeld)
      /\ t # NULL => TablesHeld' = Gained(TablesHeld, t)
  BY <1>0, <1>1, <1>2, <1>8, HeldChange
<1> QED BY <1>6, <1>7, <1>9 DEF t

\* Table::Open: a table that no cache has yet.
LEMMA OpenTableReader ==
  ASSUME TableCacheAssumption, ReadersInv, NEW r \in Readers, OpenTable(r)
  PROVE  /\ ReadersKept /\ SameEntries /\ TablesHeld' = TablesHeld /\ BlocksHeld' = BlocksHeld
         /\ \A t \in TablesIn(opened, reader) : opened'[t] = opened[t]
<1> DEFINE n == Fresh(NewTables)
           x == [reader[r] EXCEPT !.table = n, !.pc = "insert"]
<1>0. /\ reader \in [Readers -> Reader] /\ Consistent(reader[r], opened, blocks, freed)
      /\ reader[r] \in Reader /\ TypeOK
  BY DEF ReadersInv, TypeOK
<1>1. n \in Tables /\ opened[n] = NULL
  <2>1. bound.tables \in Nat /\ 1..bound.tables \subseteq Tables
    BY <1>0 DEF TypeOK, TableCacheAssumption
  <2>2. NewTables \subseteq Nat /\ NewTables # {}
    BY SMTT(30), <2>1 DEF NewTables, OpenTable
  <2>3. n \in NewTables
    BY <2>2, FreshIsIn
  <2> QED BY <2>1, <2>3 DEF NewTables
<1>2. /\ reader' = [reader EXCEPT ![r] = x] /\ reader[r].pc = "open"
      /\ opened' = [opened EXCEPT ![n] = reader[r].file]
      /\ UNCHANGED <<bound, current, disk, evicted, tc, bc, blocks, freed, closed>>
  BY <1>0 DEF OpenTable
<1> HIDE DEF n
<1>3. /\ x \in Reader /\ x.version = reader[r].version /\ x.file = reader[r].file /\ x.table = n
      /\ x.block = reader[r].block /\ x.cached = reader[r].cached /\ x.pc = "insert"
  BY <1>0, <1>1 DEF Reader, Labels
<1> HIDE DEF x
<1>4. /\ reader[r].block = NULL /\ reader[r].table = NULL /\ ~reader[r].cached
      /\ reader[r].file \in reader[r].version /\ reader[r].file \in Files
  BY <1>0, <1>2 DEF Consistent, HasTable, Reader
<1>5. /\ opened' \in [Tables -> Files \cup {NULL}] /\ opened'[n] = reader[r].file
      /\ \A t \in Tables : t # n => opened'[t] = opened[t]
  BY <1>0, <1>1, <1>2, <1>4 DEF TypeOK
<1>6. Consistent(x, opened', blocks', freed') /\ ~Private(x) /\ ~Private(reader[r])
  BY <1>1, <1>3, <1>4, <1>5 DEF Consistent, HasTable, Private
<1>7. ReadersKept
  <2>1. /\ blocks' \in [Blocks -> Block \cup {NULL}] /\ opened[x.table] = NULL
        /\ freed' \subseteq {b \in Blocks : blocks'[b] # NULL}
        /\ \A t \in Tables : opened[t] # NULL => opened'[t] = opened[t]
    BY <1>0, <1>1, <1>2, <1>3, <1>5 DEF TypeOK
  <2> QED BY <1>2, <1>3, <1>5, <1>6, <2>1, StillThere, ReaderStep
<1>8. TablesHeld' = TablesHeld /\ BlocksHeld' = BlocksHeld
  <2>1. OwnTable(reader[r]) = OwnTable(x) /\ OwnBlock(reader[r]) = OwnBlock(x)
    BY <1>2, <1>3, <1>4 DEF OwnTable, OwnBlock
  <2> QED BY <1>0, <1>2, <2>1, HeldChange
<1>9. TablesIn(opened', reader') = TablesIn(opened, reader)
  <2>1. reader'[r] = x /\ \A q \in Readers : q # r => reader'[q] = reader[q]
    BY <1>0, <1>2
  <2>2. n \notin TablesIn(opened', reader') /\ n \notin TablesIn(opened, reader)
    BY <1>1, <1>3, <2>1 DEF TablesIn
  <2>3. ASSUME NEW t \in Tables, t # n
        PROVE  t \in TablesIn(opened', reader') <=> t \in TablesIn(opened, reader)
    <3>1. (\A q \in Readers : reader'[q].pc = "insert" => reader'[q].table # t)
            <=> (\A q \in Readers : reader[q].pc = "insert" => reader[q].table # t)
      BY <1>2, <1>3, <2>1, <2>3
    <3> QED BY <1>5, <2>3, <3>1 DEF TablesIn
  <2>4. TablesIn(opened', reader') \subseteq Tables /\ TablesIn(opened, reader) \subseteq Tables
    BY DEF TablesIn
  <2> QED BY SMTT(30), <2>2, <2>3, <2>4
<1>10. SameEntries
  BY <1>2, <1>6, <1>9, SameIn DEF SameEntries
<1>11. \A t \in TablesIn(opened, reader) : opened'[t] = opened[t]
  BY <1>1, <1>5 DEF TablesIn
<1> QED BY <1>7, <1>8, <1>10, <1>11

\* FindTable: the table goes into the cache with the reader's reference.
LEMMA InsertTableReader ==
  ASSUME TableCacheAssumption, ReadersInv, NEW r \in Readers, InsertTable(r)
  PROVE  LET t == reader[r].table IN
         /\ ReadersKept /\ BlocksHeld' = BlocksHeld /\ TablesHeld' = Gained(TablesHeld, t)
         /\ BlocksIn(blocks', freed', reader') = BlocksIn(blocks, freed, reader)
         /\ t \in Tables /\ t \notin TablesIn(opened, reader)
         /\ TablesIn(opened', reader') = TablesIn(opened, reader) \cup {t}
         /\ reader[r].file \in Files /\ opened[t] = reader[r].file /\ evicted # reader[r].file
<1> DEFINE t == reader[r].table
           f == reader[r].file
           x == [reader[r] EXCEPT !.pc = "table"]
<1>0. /\ reader \in [Readers -> Reader] /\ Consistent(reader[r], opened, blocks, freed)
      /\ reader[r] \in Reader /\ TypeOK /\ Unshared(reader) /\ Leaving
      /\ NULL \notin Files /\ NULL \notin Tables
  BY DEF ReadersInv, TypeOK, TableCacheAssumption
<1>1. /\ x \in Reader /\ x.version = reader[r].version /\ x.file = f /\ x.table = t
      /\ x.block = reader[r].block /\ x.cached = reader[r].cached /\ x.pc = "table"
  BY <1>0 DEF Reader, Labels
<1>2. /\ reader' = [reader EXCEPT ![r] = x] /\ reader[r].pc = "insert"
      /\ UNCHANGED <<bound, current, disk, evicted, bc, blocks, freed, opened, closed>>
  BY <1>0 DEF InsertTable
<1> HIDE DEF x
<1>3. /\ reader[r].block = NULL /\ ~reader[r].cached /\ t \in Tables /\ opened[t] = f
      /\ f \in reader[r].version /\ f \in Files
  BY <1>0, <1>2 DEF Consistent, HasTable, Reader
<1>4. Consistent(x, opened', blocks', freed') /\ ~Private(x) /\ ~Private(reader[r])
  BY <1>1, <1>2, <1>3 DEF Consistent, HasTable, Private
<1>5. ReadersKept
  <2>1. /\ opened' \in [Tables -> Files \cup {NULL}] /\ blocks' \in [Blocks -> Block \cup {NULL}]
        /\ freed' \subseteq {b \in Blocks : blocks'[b] # NULL}
    BY <1>0, <1>2 DEF TypeOK
  <2> QED BY <1>1, <1>2, <1>4, <2>1, StillThere, ReaderStep
<1>6. BlocksIn(blocks', freed', reader') = BlocksIn(blocks, freed, reader)
  BY <1>2, <1>4, SameIn
<1>7. BlocksHeld' = BlocksHeld /\ TablesHeld' = Gained(TablesHeld, t)
  <2>1. OwnTable(reader[r]) = NULL /\ OwnTable(x) = t /\ OwnBlock(x) = OwnBlock(reader[r])
    BY <1>1, <1>2 DEF OwnTable, OwnBlock
  <2> QED BY <1>0, <1>2, <1>3, <2>1, HeldChange
<1>8. evicted # f
  BY <1>0, <1>3 DEF Leaving
<1> HIDE DEF t, f
<1>9. t \notin TablesIn(opened, reader) /\ TablesIn(opened', reader') = TablesIn(opened, reader) \cup {t}
  <2>1. reader'[r] = x /\ \A q \in Readers : q # r => reader'[q] = reader[q]
    BY <1>0, <1>2
  <2>2. t \notin TablesIn(opened, reader)
    BY <1>2 DEF TablesIn, t
  <2>3. \A q \in Readers : q # r => ~(reader[q].pc = "insert" /\ reader[q].table = t)
    BY <1>0, <1>2 DEF Unshared, t
  <2>4. t \in TablesIn(opened', reader')
    BY <1>0, <1>1, <1>2, <1>3, <2>1, <2>3 DEF TablesIn
  <2>5. ASSUME NEW e \in Tables, e # t
        PROVE  e \in TablesIn(opened', reader') <=> e \in TablesIn(opened, reader)
    <3>1. (\A q \in Readers : reader'[q].pc = "insert" => reader'[q].table # e)
            <=> (\A q \in Readers : reader[q].pc = "insert" => reader[q].table # e)
      BY <1>1, <2>1, <2>5 DEF t
    <3> QED BY <1>2, <2>5, <3>1 DEF TablesIn
  <2>6. TablesIn(opened', reader') \subseteq Tables /\ TablesIn(opened, reader) \subseteq Tables
    BY DEF TablesIn
  <2> QED BY <2>2, <2>4, <2>5, <2>6
<1> QED BY <1>3, <1>5, <1>6, <1>7, <1>8, <1>9 DEF t, f

LEMMA ReleaseTableReader ==
  ASSUME TableCacheAssumption, ReadersInv, NEW r \in Readers, ReleaseTable(r)
  PROVE  LET t == reader[r].table IN
         /\ ReadersKept /\ SameEntries /\ BlocksHeld' = BlocksHeld
         /\ t \in Tables /\ TablesHeld' = Lost(TablesHeld, t) /\ TablesHeld[t] > 0
<1> DEFINE t == reader[r].table
           x == [reader[r] EXCEPT !.file = NULL, !.table = NULL, !.pc = "ready"]
<1>0. /\ reader \in [Readers -> Reader] /\ Consistent(reader[r], opened, blocks, freed)
      /\ reader[r] \in Reader /\ TypeOK
  BY DEF ReadersInv, TypeOK
<1>1. /\ x \in Reader /\ x.version = reader[r].version /\ x.table = NULL
      /\ x.block = reader[r].block /\ x.cached = reader[r].cached /\ x.pc = "ready"
  BY <1>0 DEF Reader, Labels
<1>2. /\ reader' = [reader EXCEPT ![r] = x] /\ reader[r].pc = "table"
      /\ UNCHANGED <<bound, current, disk, evicted, bc, blocks, freed, opened, closed>>
  BY <1>0 DEF ReleaseTable
<1> HIDE DEF x
<1>3. reader[r].block = NULL /\ ~reader[r].cached /\ t \in Tables
  BY <1>0, <1>2 DEF Consistent, HasTable, Reader
<1>4. Consistent(x, opened', blocks', freed') /\ ~Private(x) /\ ~Private(reader[r])
  BY <1>1, <1>2, <1>3 DEF Consistent, HasTable, Private
<1>5. ReadersKept
  <2>1. /\ opened' \in [Tables -> Files \cup {NULL}] /\ blocks' \in [Blocks -> Block \cup {NULL}]
        /\ freed' \subseteq {b \in Blocks : blocks'[b] # NULL}
    BY <1>0, <1>2 DEF TypeOK
  <2> QED BY <1>1, <1>2, <1>4, <2>1, StillThere, ReaderStep
<1>6. SameEntries
  BY <1>1, <1>2, <1>4, SameIn DEF SameEntries
<1>7. BlocksHeld' = BlocksHeld /\ TablesHeld' = Lost(TablesHeld, t) /\ TablesHeld[t] > 0
  <2>1. OwnTable(reader[r]) = t /\ OwnTable(x) = NULL /\ OwnBlock(x) = OwnBlock(reader[r])
    BY <1>1, <1>2 DEF OwnTable, OwnBlock
  <2> QED BY <1>0, <1>2, <1>3, <2>1, HeldChange
<1> QED BY <1>3, <1>5, <1>6, <1>7
-----------------------------------------------------------------------------
(***************************************************************************)
(* Steps with blocks.                                                      *)
(***************************************************************************)
\* BlockReader: the reader gets a reference to the block it finds.
LEMMA LookupBlockReader ==
  ASSUME TableCacheAssumption, ReadersInv, NEW r \in Readers, LookupBlock(r),
         LET b == bc.table[reader[r].table] IN
           /\ b \in Blocks \cup {NULL}
           /\ b # NULL => b \in BlocksIn(blocks, freed, reader) /\ TableOf(blocks)[b] = reader[r].table
  PROVE  LET b == bc.table[reader[r].table] IN
         /\ ReadersKept /\ SameEntries /\ TablesHeld' = TablesHeld
         /\ b = NULL => BlocksHeld' = BlocksHeld
         /\ b # NULL => BlocksHeld' = Gained(BlocksHeld, b)
<1> DEFINE t == reader[r].table
           b == bc.table[t]
           x == [reader[r] EXCEPT !.block = b, !.cached = b # NULL,
                                  !.pc = IF b = NULL THEN "read" ELSE "block"]
<1>0. /\ reader \in [Readers -> Reader] /\ Consistent(reader[r], opened, blocks, freed)
      /\ reader[r] \in Reader /\ TypeOK /\ NULL \notin Blocks
  BY DEF ReadersInv, TypeOK, TableCacheAssumption
<1>1. b \in Blocks \cup {NULL} /\ (b # NULL => b \in BlocksIn(blocks, freed, reader) /\ TableOf(blocks)[b] = t)
  OBVIOUS
<1>2. /\ reader' = [reader EXCEPT ![r] = x] /\ reader[r].pc = "table"
      /\ UNCHANGED <<bound, current, disk, evicted, tc, blocks, freed, opened, closed>>
  BY <1>0 DEF LookupBlock
<1>3. /\ reader[r].block = NULL /\ ~reader[r].cached /\ t \in Tables /\ opened[t] = reader[r].file
      /\ reader[r].file \in reader[r].version
  BY <1>0, <1>2 DEF Consistent, HasTable, Reader
<1> HIDE DEF b
<1>4. b # NULL => blocks[b] # NULL /\ b \notin freed /\ blocks[b].table = t
  BY <1>1 DEF BlocksIn, TableOf
<1>5. /\ x \in Reader /\ x.version = reader[r].version /\ x.file = reader[r].file /\ x.table = t
      /\ x.block = b /\ x.cached = (b # NULL)
      /\ x.pc = IF b = NULL THEN "read" ELSE "block"
  BY <1>0, <1>1 DEF Reader, Labels
<1> HIDE DEF x
<1>6. Consistent(x, opened', blocks', freed') /\ ~Private(x) /\ x.pc # "insert" /\ ~Private(reader[r])
  BY <1>2, <1>3, <1>4, <1>5 DEF Consistent, HasTable, Private
<1>7. ReadersKept
  <2>1. /\ opened' \in [Tables -> Files \cup {NULL}] /\ blocks' \in [Blocks -> Block \cup {NULL}]
        /\ freed' \subseteq {e \in Blocks : blocks'[e] # NULL}
    BY <1>0, <1>2 DEF TypeOK
  <2> QED BY <1>2, <1>5, <1>6, <2>1, StillThere, ReaderStep
<1>8. SameEntries
  BY <1>2, <1>6, SameIn DEF SameEntries
<1>9. /\ TablesHeld' = TablesHeld /\ (b = NULL => BlocksHeld' = BlocksHeld)
      /\ b # NULL => BlocksHeld' = Gained(BlocksHeld, b)
  <2>1. /\ OwnBlock(reader[r]) = NULL /\ OwnBlock(x) = b /\ OwnTable(x) = OwnTable(reader[r])
    BY <1>2, <1>3, <1>5 DEF OwnTable, OwnBlock
  <2> QED BY <1>0, <1>1, <1>2, <2>1, HeldChange
<1> QED BY <1>7, <1>8, <1>9 DEF b

\* ReadBlock: a block that no cache has yet.
LEMMA ReadBlockReader ==
  ASSUME TableCacheAssumption, ReadersInv, NEW r \in Readers,
         NEW mapped \in BOOLEAN, NEW fill_cache \in BOOLEAN, ReadBlock(r, mapped, fill_cache)
  PROVE  /\ ReadersKept /\ SameEntries /\ TablesHeld' = TablesHeld /\ BlocksHeld' = BlocksHeld
         /\ \A b \in BlocksIn(blocks, freed, reader) : TableOf(blocks')[b] = TableOf(blocks)[b]
<1> DEFINE n == Fresh(NewBlocks)
           t == reader[r].table
           y == [table |-> t, mapped |-> mapped]
           x == [reader[r] EXCEPT !.block = n,
                                  !.pc = IF ~mapped /\ fill_cache THEN "cache" ELSE "block"]
           S == BlocksIn(blocks, freed, reader)
<1>0. /\ reader \in [Readers -> Reader] /\ Consistent(reader[r], opened, blocks, freed)
      /\ reader[r] \in Reader /\ TypeOK
  BY DEF ReadersInv, TypeOK
<1>1. n \in Blocks /\ blocks[n] = NULL /\ NULL \notin Blocks
  <2>1. bound.blocks \in Nat /\ 1..bound.blocks \subseteq Blocks
    BY <1>0 DEF TypeOK, TableCacheAssumption
  <2>2. NewBlocks \subseteq Nat /\ NewBlocks # {}
    BY SMTT(30), <2>1 DEF NewBlocks, ReadBlock
  <2>3. n \in NewBlocks
    BY <2>2, FreshIsIn
  <2> QED BY <2>1, <2>3 DEF NewBlocks, TableCacheAssumption
<1>2. /\ reader[r].pc = "read" /\ blocks' = [blocks EXCEPT ![n] = y]
      /\ UNCHANGED <<bound, current, disk, evicted, tc, bc, freed, opened, closed>>
  BY DEF ReadBlock
<1>3. reader' = [reader EXCEPT ![r] = x]
  BY <1>0 DEF ReadBlock
<1> HIDE DEF n
<1>4. /\ reader[r].block = NULL /\ ~reader[r].cached /\ t \in Tables /\ opened[t] = reader[r].file
      /\ reader[r].file \in reader[r].version
  BY <1>0, <1>2 DEF Consistent, HasTable, Reader
<1>5. /\ x \in Reader /\ x.version = reader[r].version /\ x.file = reader[r].file /\ x.table = t
      /\ x.block = n /\ x.cached = reader[r].cached /\ x.pc \in {"cache", "block"}
  BY <1>0, <1>1 DEF Reader, Labels
<1> HIDE DEF x
<1>6. y \in Block /\ y # NULL /\ y.table = t
  BY SMTT(30), <1>4 DEF Block, TableCacheAssumption
<1> HIDE DEF y, t
<1>7. /\ blocks' \in [Blocks -> Block \cup {NULL}] /\ blocks'[n] = y
      /\ \A b \in Blocks : b # n => blocks'[b] = blocks[b]
  BY <1>0, <1>1, <1>2, <1>6 DEF TypeOK
<1>8. n \notin freed /\ freed' \subseteq {b \in Blocks : blocks'[b] # NULL}
  BY <1>0, <1>1, <1>2, <1>6, <1>7 DEF TypeOK
<1>9. Consistent(x, opened', blocks', freed') /\ Private(x) /\ ~Private(reader[r])
  BY <1>1, <1>2, <1>4, <1>5, <1>6, <1>7, <1>8 DEF Consistent, HasTable, Private, t
<1>10. ReadersKept
  <2>1. /\ \A b \in Blocks : blocks[b] # NULL => blocks'[b] = blocks[b]
        /\ x.pc # "insert" /\ blocks[x.block] = NULL
        /\ \A e \in Tables : opened[e] # NULL => opened'[e] = opened[e]
        /\ opened' \in [Tables -> Files \cup {NULL}]
    BY <1>0, <1>1, <1>2, <1>5, <1>7 DEF TypeOK
  <2> QED BY <1>2, <1>3, <1>5, <1>7, <1>8, <1>9, <2>1, StillThere, ReaderStep
<1>11. TablesHeld' = TablesHeld /\ BlocksHeld' = BlocksHeld
  <2>1. OwnTable(reader[r]) = OwnTable(x) /\ OwnBlock(reader[r]) = OwnBlock(x)
    BY <1>2, <1>4, <1>5 DEF OwnTable, OwnBlock, t
  <2> QED BY <1>0, <1>3, <2>1, HeldChange
<1>12. BlocksIn(blocks', freed', reader') = S /\ n \notin S
  <2>1. reader'[r] = x /\ \A q \in Readers : q # r => reader'[q] = reader[q]
    BY <1>0, <1>3
  <2>2. n \notin BlocksIn(blocks', freed', reader') /\ n \notin S
    BY <1>1, <1>5, <1>9, <2>1 DEF BlocksIn
  <2>3. ASSUME NEW b \in Blocks, b # n
        PROVE  b \in BlocksIn(blocks', freed', reader') <=> b \in S
    <3>1. (\A q \in Readers : Private(reader'[q]) => reader'[q].block # b)
            <=> (\A q \in Readers : Private(reader[q]) => reader[q].block # b)
      BY <1>5, <1>9, <2>1, <2>3
    <3> QED BY <1>2, <1>7, <2>3, <3>1 DEF BlocksIn
  <2>4. BlocksIn(blocks', freed', reader') \subseteq Blocks /\ S \subseteq Blocks
    BY DEF BlocksIn
  <2> QED BY SMTT(30), <2>2, <2>3, <2>4
<1>13. SameEntries
  BY <1>2, <1>3, <1>5, <1>12, SameIn DEF SameEntries
<1>14. \A b \in S : TableOf(blocks')[b] = TableOf(blocks)[b]
  BY <1>7, <1>12 DEF TableOf, BlocksIn
<1> QED BY <1>10, <1>11, <1>13, <1>14

\* BlockReader: the block goes into the cache with the reader's reference.
LEMMA InsertBlockReader ==
  ASSUME TableCacheAssumption, ReadersInv, NEW r \in Readers, InsertBlock(r)
  PROVE  LET b == reader[r].block
             S == BlocksIn(blocks, freed, reader)
         IN /\ ReadersKept /\ TablesHeld' = TablesHeld /\ BlocksHeld' = Gained(BlocksHeld, b)
            /\ TablesIn(opened', reader') = TablesIn(opened, reader)
            /\ b \in Blocks /\ b \notin S /\ BlocksIn(blocks', freed', reader') = S \cup {b}
            /\ reader[r].table \in Tables /\ TableOf(blocks)[b] = reader[r].table
<1> DEFINE t == reader[r].table
           b == reader[r].block
           x == [reader[r] EXCEPT !.cached = TRUE, !.pc = "block"]
           S == BlocksIn(blocks, freed, reader)
<1>0. /\ reader \in [Readers -> Reader] /\ Consistent(reader[r], opened, blocks, freed)
      /\ reader[r] \in Reader /\ TypeOK /\ Unshared(reader) /\ NULL \notin Blocks
  BY DEF ReadersInv, TypeOK, TableCacheAssumption
<1>1. /\ x \in Reader /\ x.version = reader[r].version /\ x.file = reader[r].file /\ x.table = t
      /\ x.block = b /\ x.cached = TRUE /\ x.pc = "block"
  BY <1>0 DEF Reader, Labels
<1>2. /\ reader' = [reader EXCEPT ![r] = x] /\ reader[r].pc = "cache"
      /\ UNCHANGED <<bound, current, disk, evicted, tc, blocks, freed, opened, closed>>
  BY <1>0 DEF InsertBlock
<1> HIDE DEF x
<1>3. /\ Private(reader[r]) /\ b \in Blocks /\ t \in Tables /\ opened[t] = reader[r].file
      /\ reader[r].file \in reader[r].version
      /\ blocks[b] # NULL /\ b \notin freed /\ blocks[b].table = t
  BY <1>0, <1>2 DEF Consistent, HasTable, Reader, Private
<1>4. Consistent(x, opened', blocks', freed') /\ ~Private(x)
  BY <1>1, <1>2, <1>3 DEF Consistent, HasTable, Private
<1>5. ReadersKept
  <2>1. /\ opened' \in [Tables -> Files \cup {NULL}] /\ blocks' \in [Blocks -> Block \cup {NULL}]
        /\ freed' \subseteq {e \in Blocks : blocks'[e] # NULL}
    BY <1>0, <1>2 DEF TypeOK
  <2> QED BY <1>1, <1>2, <1>4, <2>1, StillThere, ReaderStep
<1>6. TablesHeld' = TablesHeld /\ BlocksHeld' = Gained(BlocksHeld, b)
  <2>1. OwnBlock(reader[r]) = NULL /\ OwnBlock(x) = b /\ OwnTable(x) = OwnTable(reader[r])
    BY <1>1, <1>2, <1>3 DEF OwnTable, OwnBlock, Private
  <2> QED BY <1>0, <1>2, <1>3, <2>1, HeldChange
<1>7. TablesIn(opened', reader') = TablesIn(opened, reader)
  BY <1>1, <1>2, SameIn
<1>8. TableOf(blocks)[b] = t
  BY <1>3 DEF TableOf
<1> HIDE DEF t, b
<1>9. b \notin S /\ BlocksIn(blocks', freed', reader') = S \cup {b}
  <2>1. reader'[r] = x /\ \A q \in Readers : q # r => reader'[q] = reader[q]
    BY <1>0, <1>2
  <2>2. b \notin S
    BY <1>3 DEF BlocksIn, b
  <2>3. \A q \in Readers : q # r => ~(Private(reader[q]) /\ reader[q].block = b)
    BY <1>0, <1>3 DEF Unshared, b
  <2>4. b \in BlocksIn(blocks', freed', reader')
    BY <1>2, <1>3, <1>4, <2>1, <2>3 DEF BlocksIn
  <2>5. ASSUME NEW e \in Blocks, e # b
        PROVE  e \in BlocksIn(blocks', freed', reader') <=> e \in S
    <3>1. (\A q \in Readers : Private(reader'[q]) => reader'[q].block # e)
            <=> (\A q \in Readers : Private(reader[q]) => reader[q].block # e)
      BY <1>4, <2>1, <2>5 DEF b
    <3> QED BY <1>2, <2>5, <3>1 DEF BlocksIn
  <2>6. BlocksIn(blocks', freed', reader') \subseteq Blocks /\ S \subseteq Blocks
    BY DEF BlocksIn
  <2> QED BY <2>2, <2>4, <2>5, <2>6
<1> QED BY <1>3, <1>5, <1>6, <1>7, <1>8, <1>9 DEF t, b

\* The cleanup of a block iterator: a private block is freed, which nobody else
\* has; a cached one loses a reference.
LEMMA DeleteBlockIteratorReader ==
  ASSUME TableCacheAssumption, ReadersInv, NEW r \in Readers, DeleteBlockIterator(r),
         \A b \in Blocks : BlocksHeld[b] > 0 => b \in BlocksIn(blocks, freed, reader)
  PROVE  LET b == reader[r].block IN
         /\ ReadersKept /\ SameEntries /\ TablesHeld' = TablesHeld
         /\ reader[r].cached => /\ b \in Blocks /\ BlocksHeld' = Lost(BlocksHeld, b)
                                /\ BlocksHeld[b] > 0
         /\ ~reader[r].cached => BlocksHeld' = BlocksHeld
<1> DEFINE t == reader[r].table
           b == reader[r].block
           x == [reader[r] EXCEPT !.block = NULL, !.cached = FALSE, !.pc = "table"]
           S == BlocksIn(blocks, freed, reader)
<1>0. /\ reader \in [Readers -> Reader] /\ Consistent(reader[r], opened, blocks, freed)
      /\ reader[r] \in Reader /\ TypeOK /\ Unshared(reader)
      /\ \A q \in Readers : Consistent(reader[q], opened, blocks, freed)
  BY DEF ReadersInv, TypeOK
<1>1. /\ x \in Reader /\ x.version = reader[r].version /\ x.file = reader[r].file /\ x.table = t
      /\ x.block = NULL /\ x.cached = FALSE /\ x.pc = "table"
  BY <1>0 DEF Reader, Labels
<1>2. /\ reader' = [reader EXCEPT ![r] = x] /\ reader[r].pc = "block"
      /\ UNCHANGED <<bound, current, disk, evicted, tc, blocks, opened, closed>>
  BY <1>0 DEF DeleteBlockIterator
<1>3. freed' = IF Private(reader[r]) THEN freed \cup {b} ELSE freed
  BY DEF DeleteBlockIterator, Private
<1> HIDE DEF x
<1>4. /\ t \in Tables /\ opened[t] = reader[r].file /\ reader[r].file \in reader[r].version
      /\ reader[r].cached => b # NULL
      /\ b # NULL => b \in Blocks /\ blocks[b] # NULL
      /\ NULL \notin Blocks /\ reader[r].cached \in BOOLEAN
  BY <1>0, <1>2 DEF Consistent, HasTable, Reader, TableCacheAssumption
<1>5. Consistent(x, opened', blocks', freed') /\ ~Private(x) /\ x.pc # "insert"
  BY <1>1, <1>2, <1>4 DEF Consistent, HasTable, Private
<1>6. ASSUME NEW q \in Readers, q # r, reader[q].block # NULL
      PROVE  reader[q].block \notin freed'
  <2>1. reader[q].block \notin freed /\ reader[q].block \in Blocks /\ reader[q] \in Reader
    BY <1>0, <1>6 DEF Consistent, Reader
  <2>2. CASE Private(reader[q])
    BY <1>0, <1>3, <1>6, <2>1, <2>2 DEF Unshared
  <2>3. CASE ~Private(reader[q])
    <3>1. OwnBlock(reader[q]) = reader[q].block
      BY <1>6, <2>3 DEF OwnBlock, Private
    <3>2. BlocksHeld[reader[q].block] > 0
      BY <2>1, <3>1, HeldOwner
    <3>3. reader[q].block \in S
      BY <2>1, <3>2
    <3>4. Private(reader[r]) => reader[q].block # b
      BY <3>3 DEF BlocksIn
    <3> QED BY <1>3, <2>1, <3>4
  <2> QED BY <2>2, <2>3
<1>7. ReadersKept
  <2>1. /\ opened' \in [Tables -> Files \cup {NULL}] /\ blocks' \in [Blocks -> Block \cup {NULL}]
    BY <1>0, <1>2 DEF TypeOK
  <2>2. freed' \subseteq {e \in Blocks : blocks'[e] # NULL}
    BY <1>0, <1>2, <1>3, <1>4 DEF TypeOK, Private
  <2> QED BY <1>1, <1>2, <1>5, <1>6, <2>1, <2>2, ReaderStep
<1>8. TablesIn(opened', reader') = TablesIn(opened, reader)
  BY <1>1, <1>2, SameIn
<1>9. BlocksIn(blocks', freed', reader') = S
  <2>1. reader'[r] = x /\ \A q \in Readers : q # r => reader'[q] = reader[q]
    BY <1>0, <1>2
  <2>2. ASSUME NEW e \in Blocks
        PROVE  e \in BlocksIn(blocks', freed', reader') <=> e \in S
    <3>1. CASE Private(reader[r]) /\ e = b
      BY <1>3, <3>1 DEF BlocksIn
    <3>2. CASE ~(Private(reader[r]) /\ e = b)
      <4>1. (\A q \in Readers : Private(reader'[q]) => reader'[q].block # e)
              <=> (\A q \in Readers : Private(reader[q]) => reader[q].block # e)
        BY <1>5, <2>1, <3>2
      <4>2. e \in freed' <=> e \in freed
        BY <1>3, <3>2
      <4> QED BY <1>2, <4>1, <4>2 DEF BlocksIn
    <3> QED BY <3>1, <3>2
  <2>3. BlocksIn(blocks', freed', reader') \subseteq Blocks /\ S \subseteq Blocks
    BY DEF BlocksIn
  <2> QED BY <2>2, <2>3
<1>10. SameEntries
  BY <1>8, <1>9 DEF SameEntries
<1>11. OwnTable(x) = OwnTable(reader[r]) /\ OwnBlock(x) = NULL
  BY <1>1, <1>2 DEF OwnTable, OwnBlock
<1>12. TablesHeld' = TablesHeld
  BY <1>0, <1>2, <1>11, HeldChange
<1>13. ASSUME reader[r].cached
       PROVE  b \in Blocks /\ BlocksHeld' = Lost(BlocksHeld, b) /\ BlocksHeld[b] > 0
  <2>1. b \in Blocks /\ OwnBlock(reader[r]) = b
    BY <1>4, <1>13 DEF OwnBlock
  <2> QED BY <1>0, <1>2, <1>11, <2>1, HeldChange
<1>14. ASSUME ~reader[r].cached PROVE BlocksHeld' = BlocksHeld
  <2>1. OwnBlock(reader[r]) = NULL
    BY <1>14 DEF OwnBlock
  <2> QED BY <1>0, <1>2, <1>11, <2>1, HeldChange
<1> QED BY <1>7, <1>10, <1>12, <1>13, <1>14
-----------------------------------------------------------------------------
\* The steps of the DB leave the readers alone.
LEMMA ReadersStay ==
  ASSUME TableCacheAssumption, ReadersInv, UNCHANGED <<bound, blocks, freed, opened, reader>>,
         current' \subseteq current, disk' \subseteq disk, evicted' \in Files \cup {NULL},
         closed' \in BOOLEAN, Leaving', Shut'
  PROVE  ReadersKept /\ SameEntries /\ TablesHeld' = TablesHeld /\ BlocksHeld' = BlocksHeld
<1>1. OwnTables' = OwnTables /\ OwnBlocks' = OwnBlocks
  BY DEF OwnTables, OwnBlocks, OwnTable, OwnBlock
<1>2. TablesHeld' = TablesHeld /\ BlocksHeld' = BlocksHeld
  BY <1>1, HeldIsCount
<1>3. TypeOK'
  BY DEF ReadersInv, TypeOK
<1> QED BY <1>2, <1>3 DEF ReadersInv, ReadersKept, SameEntries

LEMMA InitReaders ==
  ASSUME TableCacheAssumption, Init
  PROVE  /\ ReadersInv
         /\ TablesIn(opened, reader) = {} /\ BlocksIn(blocks, freed, reader) = {}
         /\ TablesHeld = [t \in Tables |-> 0] /\ BlocksHeld = [b \in Blocks |-> 0]
<1>1. /\ \A r \in Readers : reader[r] = Idle
      /\ NULL \notin Tables /\ NULL \notin Blocks /\ NULL \notin Files
  BY DEF Init, TableCacheAssumption
<1>2. /\ Idle \in Reader /\ Idle.pc = "idle" /\ Idle.table = NULL /\ Idle.block = NULL
      /\ Idle.cached = FALSE /\ Idle.version = {}
  BY DEF Idle, Reader, Labels
<1>3. TypeOK /\ Leaving /\ Shut
  BY <1>1, <1>2 DEF Init, TypeOK, Leaving, Shut
<1>4. Unshared(reader) /\ \A r \in Readers : Consistent(reader[r], opened, blocks, freed)
  BY <1>1, <1>2 DEF Unshared, Private, Consistent, HasTable
<1>5. TablesIn(opened, reader) = {} /\ BlocksIn(blocks, freed, reader) = {}
  BY DEF Init, TablesIn, BlocksIn
<1>6. TablesHeld = [t \in Tables |-> 0] /\ BlocksHeld = [b \in Blocks |-> 0]
  <2>1. ASSUME NEW t \in Tables
        PROVE  {r \in Readers : reader[r].table = t /\ reader[r].pc # "insert"} = {}
    BY <1>1, <1>2
  <2>2. ASSUME NEW b \in Blocks
        PROVE  {r \in Readers : reader[r].block = b /\ reader[r].cached} = {}
    BY <1>1, <1>2
  <2>3. Cardinality({}) = 0
    BY FS_EmptySet
  <2> QED BY <2>1, <2>2, <2>3 DEF TablesHeld, BlocksHeld
<1> QED BY <1>3, <1>4, <1>5, <1>6 DEF ReadersInv

LEMMA ReadersKeptIsInv ==
  ASSUME ReadersKept
  PROVE  ReadersInv'
<1>1. Unshared(reader)'
  BY DEF ReadersKept, Unshared, Private
<1>2. (\A r \in Readers : Consistent(reader[r], opened, blocks, freed))'
  BY DEF ReadersKept, Consistent, Private
<1> QED BY <1>1, <1>2 DEF ReadersKept, ReadersInv

\* Idle readers have no references.
LEMMA IdleHoldsNothing ==
  ASSUME TableCacheAssumption, ReadersInv, \A r \in Readers : reader[r].pc = "idle"
  PROVE  /\ \A r \in Readers : reader[r].table = NULL /\ reader[r].block = NULL
         /\ \A t \in Tables : ~(TablesHeld[t] > 0)
         /\ \A b \in Blocks : ~(BlocksHeld[b] > 0)
<1>1. /\ \A r \in Readers : Consistent(reader[r], opened, blocks, freed) /\ reader[r] \in Reader
      /\ NULL \notin Tables /\ NULL \notin Blocks
  BY DEF ReadersInv, TypeOK, TableCacheAssumption
<1>2. \A r \in Readers : reader[r].table = NULL /\ reader[r].block = NULL
  BY <1>1 DEF Consistent, HasTable
<1>3. \A r \in Readers : OwnTable(reader[r]) = NULL /\ OwnBlock(reader[r]) = NULL
  BY <1>2 DEF OwnTable, OwnBlock
<1>4. /\ \A t \in Tables : ~(TablesHeld[t] > 0)
      /\ \A b \in Blocks : ~(BlocksHeld[b] > 0)
  BY <1>1, <1>3, HeldOwner
<1> QED BY <1>2, <1>4
=============================================================================
