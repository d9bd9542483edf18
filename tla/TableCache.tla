----------------------------- MODULE TableCache -----------------------------
(***************************************************************************)
(* Reads of table files: db/table_cache.cc and the block reads of          *)
(* table/table.cc over two caches of util/cache.cc, one of open tables and *)
(* one of blocks, next to DeleteObsoleteFiles.  Readers run without the    *)
(* DB's mutex_, so each call of a cache or of the file system is a step.   *)
(*                                                                         *)
(* A reader is a Get, an iterator or a compaction that has referenced a    *)
(* version.  A table stands for its TableAndFile, numbered by cache_id;    *)
(* every table has one data block.  Handles of the caches are numbered     *)
(* like what they hold.                                                    *)
(***************************************************************************)
EXTENDS Integers, FiniteSets

CONSTANTS Readers, Files, NULL,
          TableCapacity, BlockCapacity,   \* in entries of charge 1
          Tables, Blocks,                 \* their numbers, from 1
          Bounds    \* possible [readers, tables, blocks]: those that run, and
                    \* how many tables and blocks are ever made

\* Tables and blocks have numbers, enough of them for the bounds.
TableCacheAssumption ==
  /\ IsFiniteSet(Readers)
  /\ NULL \notin Files /\ NULL \notin Tables /\ NULL \notin Blocks
  /\ NULL \notin [table : Tables, mapped : BOOLEAN]
  /\ Tables \subseteq Nat /\ Blocks \subseteq Nat
  /\ TableCapacity \in Nat /\ BlockCapacity \in Nat
  /\ \A b \in Bounds : /\ b.readers \subseteq Readers
                       /\ b.tables \in Nat /\ 1..b.tables \subseteq Tables
                       /\ b.blocks \in Nat /\ 1..b.blocks \subseteq Blocks

VARIABLES
  bound,    \* the one of Bounds
  current,  \* the files of the current version
  disk,     \* the files that exist
  evicted,  \* the file DeleteObsoleteFiles is about to delete, or NULL
  tc, bc,   \* the table cache and the block cache
  blocks,   \* per block: the table it was read from, and whether it is mapped
  freed,    \* private blocks that were deleted
  opened,   \* per table: its file, NULL when there is no such table yet
  reader,   \* per reader: [pc, version, file, table, block, cached]
  closed    \* the DB was deleted

vars == <<bound, current, disk, evicted, tc, bc, blocks, freed, opened, reader, closed>>

\* The references readers have to entries of the two caches.
TablesHeld == [t \in Tables |-> Cardinality(
  {r \in Readers : reader[r].table = t /\ reader[r].pc # "insert"})]
BlocksHeld == [b \in Blocks |-> Cardinality(
  {r \in Readers : reader[r].block = b /\ reader[r].cached})]

T == INSTANCE LRUCache WITH
       Keys <- Files, Handles <- Tables, Values <- Tables, Charges <- {1},
       Capacity <- TableCapacity, cache <- tc, held <- TablesHeld
B == INSTANCE LRUCache WITH
       Keys <- Tables, Handles <- Blocks, Values <- Blocks, Charges <- {1},
       Capacity <- BlockCapacity, cache <- bc, held <- BlocksHeld

Idle == [pc |-> "idle", version |-> {}, file |-> NULL, table |-> NULL,
         block |-> NULL, cached |-> FALSE]

Init ==
  /\ bound \in Bounds
  /\ current = Files /\ disk = Files /\ evicted = NULL
  /\ tc = T!EmptyCache /\ bc = B!EmptyCache
  /\ blocks = [b \in Blocks |-> NULL] /\ freed = {}
  /\ opened = [t \in Tables |-> NULL]
  /\ reader = [r \in Readers |-> Idle]
  /\ closed = FALSE

NewTables == {t \in 1..bound.tables : opened[t] = NULL}
NewBlocks == {b \in 1..bound.blocks : blocks[b] = NULL}
Fresh(S) == CHOOSE x \in S : \A y \in S : x <= y
-----------------------------------------------------------------------------
(***************************************************************************)
(* A reader.                                                               *)
(***************************************************************************)
\* The reader refers to the current version, under mutex_.
RefVersion(r) ==
  /\ r \in bound.readers /\ reader[r].pc = "idle" /\ ~closed
  /\ reader' = [reader EXCEPT ![r].pc = "ready", ![r].version = current]
  /\ UNCHANGED <<bound, current, disk, evicted, tc, bc, blocks, freed, opened, closed>>

\* FindTable: cache_->Lookup.
LookupTable(r, f) ==
  /\ reader[r].pc = "ready" /\ f \in reader[r].version
  /\ tc' = T!Lookup(tc, f)
  /\ reader' = [reader EXCEPT ![r].file = f, ![r].table = tc.table[f],
                              ![r].pc = IF tc.table[f] = NULL THEN "open" ELSE "table"]
  /\ UNCHANGED <<bound, current, disk, evicted, bc, blocks, freed, opened, closed>>

\* NewRandomAccessFile and Table::Open succeed, and the table gets its id.
OpenTable(r) ==
  /\ reader[r].pc = "open" /\ reader[r].file \in disk /\ NewTables # {}
  /\ opened' = [opened EXCEPT ![Fresh(NewTables)] = reader[r].file]
  /\ reader' = [reader EXCEPT ![r].table = Fresh(NewTables), ![r].pc = "insert"]
  /\ UNCHANGED <<bound, current, disk, evicted, tc, bc, blocks, freed, closed>>

\* They fail: the file is closed and the error is not cached.
OpenFails(r) ==
  /\ reader[r].pc = "open"
  /\ reader' = [reader EXCEPT ![r].file = NULL, ![r].pc = "ready"]
  /\ UNCHANGED <<bound, current, disk, evicted, tc, bc, blocks, freed, opened, closed>>

\* FindTable: cache_->Insert, over a table another reader inserted meanwhile.
InsertTable(r) ==
  /\ reader[r].pc = "insert"
  /\ tc' = T!Insert(tc, reader[r].table, reader[r].file, reader[r].table, 1)
  /\ reader' = [reader EXCEPT ![r].pc = "table"]
  /\ UNCHANGED <<bound, current, disk, evicted, bc, blocks, freed, opened, closed>>

\* BlockReader: block_cache->Lookup under the table's cache_id.
LookupBlock(r) ==
  LET b == bc.table[reader[r].table] IN
  /\ reader[r].pc = "table"
  /\ bc' = B!Lookup(bc, reader[r].table)
  /\ reader' = [reader EXCEPT ![r].block = b, ![r].cached = b # NULL,
                              ![r].pc = IF b = NULL THEN "read" ELSE "block"]
  /\ UNCHANGED <<bound, current, disk, evicted, tc, blocks, freed, opened, closed>>

\* ReadBlock: a block in a mapped file is not cachable.
ReadBlock(r, mapped, fill_cache) ==
  /\ reader[r].pc = "read" /\ NewBlocks # {}
  /\ blocks' = [blocks EXCEPT ![Fresh(NewBlocks)] =
                  [table |-> reader[r].table, mapped |-> mapped]]
  /\ reader' = [reader EXCEPT ![r].block = Fresh(NewBlocks),
                              ![r].pc = IF ~mapped /\ fill_cache THEN "cache" ELSE "block"]
  /\ UNCHANGED <<bound, current, disk, evicted, tc, bc, freed, opened, closed>>

\* It fails, and the iterator over the block is an error iterator.
ReadFails(r) ==
  /\ reader[r].pc = "read"
  /\ reader' = [reader EXCEPT ![r].pc = "block"]
  /\ UNCHANGED <<bound, current, disk, evicted, tc, bc, blocks, freed, opened, closed>>

\* BlockReader: block_cache->Insert.
InsertBlock(r) ==
  /\ reader[r].pc = "cache"
  /\ bc' = B!Insert(bc, reader[r].block, reader[r].table, reader[r].block, 1)
  /\ reader' = [reader EXCEPT ![r].cached = TRUE, ![r].pc = "block"]
  /\ UNCHANGED <<bound, current, disk, evicted, tc, blocks, freed, opened, closed>>

\* A variant that registers no cleanup for a private block.
DeleteBlockIteratorOnly(r) ==
  /\ reader[r].pc = "block"
  /\ bc' = IF reader[r].cached THEN B!Release(bc, reader[r].block) ELSE bc
  /\ reader' = [reader EXCEPT ![r].block = NULL, ![r].cached = FALSE, ![r].pc = "table"]
  /\ UNCHANGED <<bound, current, disk, evicted, tc, blocks, freed, opened, closed>>

\* The iterator over the block is deleted and its cleanup runs: DeleteBlock of
\* a private block, ReleaseBlock of a cached one.
DeleteBlockIterator(r) ==
  /\ reader[r].pc = "block"
  /\ freed' = freed \cup (IF reader[r].cached \/ reader[r].block = NULL THEN {}
                          ELSE {reader[r].block})
  /\ bc' = IF reader[r].cached THEN B!Release(bc, reader[r].block) ELSE bc
  /\ reader' = [reader EXCEPT ![r].block = NULL, ![r].cached = FALSE, ![r].pc = "table"]
  /\ UNCHANGED <<bound, current, disk, evicted, tc, blocks, opened, closed>>

\* A variant that does so while a block of the table is still in use.
ReleaseTableEarly(r) ==
  /\ reader[r].pc \in {"table", "block"}
  /\ tc' = T!Release(tc, reader[r].table)
  /\ reader' = [reader EXCEPT ![r].file = NULL, ![r].table = NULL,
                              ![r].pc = IF @ = "table" THEN "ready" ELSE "late"]
  /\ UNCHANGED <<bound, current, disk, evicted, bc, blocks, freed, opened, closed>>

\* The iterator over the table is deleted (UnrefEntry), or Get releases it.
ReleaseTable(r) ==
  /\ reader[r].pc = "table"
  /\ tc' = T!Release(tc, reader[r].table)
  /\ reader' = [reader EXCEPT ![r].file = NULL, ![r].table = NULL, ![r].pc = "ready"]
  /\ UNCHANGED <<bound, current, disk, evicted, bc, blocks, freed, opened, closed>>

UnrefVersion(r) ==
  /\ reader[r].pc = "ready"
  /\ reader' = [reader EXCEPT ![r] = Idle]
  /\ UNCHANGED <<bound, current, disk, evicted, tc, bc, blocks, freed, opened, closed>>
-----------------------------------------------------------------------------
(***************************************************************************)
(* The DB, under mutex_.                                                   *)
(***************************************************************************)
\* A compaction installs a version without f.
DropFile(f) ==
  /\ f \in current /\ ~closed
  /\ current' = current \ {f}
  /\ UNCHANGED <<bound, disk, evicted, tc, bc, blocks, freed, opened, reader, closed>>

\* AddLiveFiles: the files of the versions in use.
LiveFiles == current \cup UNION {reader[r].version : r \in Readers}

\* A variant that does not evict.
EvictObsoleteKeep(f) ==
  /\ evicted = NULL /\ f \in disk \ LiveFiles /\ ~closed
  /\ evicted' = f
  /\ UNCHANGED <<bound, current, disk, tc, bc, blocks, freed, opened, reader, closed>>

\* DeleteObsoleteFiles: table_cache_->Evict, then DeleteFile.
EvictObsolete(f) ==
  /\ evicted = NULL /\ f \in disk \ LiveFiles /\ ~closed
  /\ tc' = T!Erase(tc, f)
  /\ evicted' = f
  /\ UNCHANGED <<bound, current, disk, bc, blocks, freed, opened, reader, closed>>

DeleteObsolete ==
  /\ evicted # NULL
  /\ disk' = disk \ {evicted}
  /\ evicted' = NULL
  /\ UNCHANGED <<bound, current, tc, bc, blocks, freed, opened, reader, closed>>

\* The application may prune the block cache it put into the options.
PruneBlocks ==
  /\ ~closed /\ bc.lru # {}
  /\ bc' = B!Prune(bc)
  /\ UNCHANGED <<bound, current, disk, evicted, tc, blocks, freed, opened, reader, closed>>

\* ~DBImpl after the last reader: delete table_cache_, delete block_cache.
Close ==
  /\ ~closed /\ evicted = NULL
  /\ \A r \in Readers : reader[r].pc = "idle"
  /\ tc' = T!Prune(tc) /\ bc' = B!Prune(bc)
  /\ closed' = TRUE
  /\ UNCHANGED <<bound, current, disk, evicted, blocks, freed, opened, reader>>

Next ==
  \/ \E r \in Readers :
       \/ RefVersion(r) \/ \E f \in Files : LookupTable(r, f)
       \/ OpenTable(r) \/ OpenFails(r) \/ InsertTable(r)
       \/ LookupBlock(r) \/ \E mapped, fill_cache \in BOOLEAN : ReadBlock(r, mapped, fill_cache)
       \/ ReadFails(r) \/ InsertBlock(r)
       \/ DeleteBlockIterator(r) \/ ReleaseTable(r) \/ UnrefVersion(r)
  \/ \E f \in Files : DropFile(f) \/ EvictObsolete(f)
  \/ DeleteObsolete \/ PruneBlocks \/ Close

Spec == Init /\ [][Next]_vars
-----------------------------------------------------------------------------
(***************************************************************************)
(* Properties.                                                             *)
(***************************************************************************)
OpenTables == {t \in Tables : opened[t] # NULL} \ tc.deleted
LiveBlocks == {b \in Blocks : blocks[b] # NULL} \ (freed \cup bc.deleted)

\* Nobody uses freed memory or an unmapped file: the table a reader has is open,
\* the block it has is not deleted, and while it has a block in a mapped file
\* the table that maps the file is open.
OpenWhileUsed ==
  \A r \in Readers :
    LET b == reader[r].block IN
    /\ reader[r].table # NULL => reader[r].table \in OpenTables
    /\ b # NULL => b \in LiveBlocks /\ (blocks[b].mapped => blocks[b].table \in OpenTables)

\* When DeleteObsoleteFiles deletes a table file no table has it open, which
\* Windows would answer with a sharing violation; and no reader will open it.
ClosedBeforeDelete ==
  evicted # NULL =>
    /\ \A t \in OpenTables : opened[t] # evicted
    /\ \A r \in Readers : evicted \notin reader[r].version

\* Readers that race to open a file, errors and evictions leak nothing: when the
\* DB is closed every table and every block it made has been deleted.
NothingLeaks == closed => OpenTables = {} /\ LiveBlocks = {}

=============================================================================
