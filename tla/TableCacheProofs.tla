-------------------------- MODULE TableCacheProofs --------------------------
(***************************************************************************)
(* Readers of table files never use freed memory or a closed file, a table *)
(* file is closed before it is deleted, and closing the DB leaks nothing:  *)
(* for every number of readers, files, tables and blocks and every         *)
(* capacity of the two caches.                                             *)
(*                                                                         *)
(* The caches are those of LRUCacheProofs.  TableCacheReaders shows which  *)
(* references a step of a reader takes and gives back; here each step is   *)
(* put together from that and from what its call does to the cache.        *)
(***************************************************************************)
EXTENDS TableCacheReaders

\* Zenon is the prover of the steps that name no other.
USE ZenonT(60)

LT == INSTANCE LRUCacheProofs WITH
        Keys <- Files, Handles <- Tables, Values <- Tables, Charges <- {1},
        Capacity <- TableCapacity, cache <- tc, held <- TablesHeld
LB == INSTANCE LRUCacheProofs WITH
        Keys <- Tables, Handles <- Blocks, Values <- Blocks, Charges <- {1},
        Capacity <- BlockCapacity, cache <- bc, held <- BlocksHeld

\* The table cache has the references of the readers and what was inserted, not
\* the file that is about to be deleted, and nothing after Close.
TablesFine ==
  /\ LT!Good(tc, TablesHeld) /\ LT!Lives(tc, TablesIn(opened, reader), opened)
  /\ evicted # NULL => tc.table[evicted] = NULL
  /\ closed => tc.cached = {}

BlocksFine ==
  /\ LB!Good(bc, BlocksHeld) /\ LB!Lives(bc, BlocksIn(blocks, freed, reader), TableOf(blocks))
  /\ closed => bc.cached = {}

TableCacheInv == ReadersInv /\ TablesFine /\ BlocksFine

\* The same after a step.
TablesKept ==
  /\ LT!Good(tc', TablesHeld') /\ LT!Lives(tc', TablesIn(opened', reader'), opened')
  /\ evicted' # NULL => tc'.table[evicted'] = NULL
  /\ closed' => tc'.cached = {}

BlocksKept ==
  /\ LB!Good(bc', BlocksHeld') /\ LB!Lives(bc', BlocksIn(blocks', freed', reader'), TableOf(blocks'))
  /\ closed' => bc'.cached = {}

Kept == ReadersKept /\ TablesKept /\ BlocksKept
-----------------------------------------------------------------------------
(***************************************************************************)
(* The caches of TableCache are those of the lemmas.                       *)
(***************************************************************************)
LEMMA CacheConstants ==
  ASSUME TableCacheAssumption
  PROVE  LT!CacheAssumption /\ LB!CacheAssumption
BY SMTT(30) DEF TableCacheAssumption, LT!CacheAssumption, LB!CacheAssumption

LEMMA SameLookup ==
  ASSUME NEW c, NEW k
  PROVE  T!Lookup(c, k) = LT!Lookup(c, k) /\ B!Lookup(c, k) = LB!Lookup(c, k)
BY DEF T!Lookup, LT!Lookup, T!Ref, LT!Ref, T!LRU_Remove, LT!LRU_Remove,
             B!Lookup, LB!Lookup, B!Ref, LB!Ref, B!LRU_Remove, LB!LRU_Remove

LEMMA SameUnref ==
  ASSUME NEW c, NEW h
  PROVE  T!Unref(c, h) = LT!Unref(c, h) /\ B!Unref(c, h) = LB!Unref(c, h)
BY DEF T!Unref, LT!Unref, T!LRU_Remove, LT!LRU_Remove, T!LRU_Append, LT!LRU_Append,
             B!Unref, LB!Unref, B!LRU_Remove, LB!LRU_Remove, B!LRU_Append, LB!LRU_Append

LEMMA SameRelease ==
  ASSUME NEW c, NEW h
  PROVE  T!Release(c, h) = LT!Release(c, h) /\ B!Release(c, h) = LB!Release(c, h)
BY SameUnref DEF T!Release, LT!Release, B!Release, LB!Release

LEMMA SameFinishErase ==
  ASSUME NEW c, NEW h
  PROVE  T!FinishErase(c, h) = LT!FinishErase(c, h) /\ B!FinishErase(c, h) = LB!FinishErase(c, h)
BY SameUnref DEF T!FinishErase, LT!FinishErase, T!LRU_Remove, LT!LRU_Remove,
                        B!FinishErase, LB!FinishErase, B!LRU_Remove, LB!LRU_Remove

LEMMA SameErase ==
  ASSUME NEW c, NEW k
  PROVE  T!Erase(c, k) = LT!Erase(c, k)
BY SameFinishErase DEF T!Erase, LT!Erase

LEMMA SameCharge ==
  ASSUME NEW c, NEW S
  PROVE  T!Charge(c, S) = LT!Charge(c, S) /\ B!Charge(c, S) = LB!Charge(c, S)
BY DEF T!Charge, LT!Charge, T!MapThenSumSet, LT!MapThenSumSet,
             B!Charge, LB!Charge, B!MapThenSumSet, LB!MapThenSumSet,
             T!MapThenFoldSet, LT!MapThenFoldSet, B!MapThenFoldSet, LB!MapThenFoldSet

LEMMA SameEvict ==
  ASSUME NEW c, NEW E
  PROVE  T!Evict(c, E) = LT!Evict(c, E) /\ B!Evict(c, E) = LB!Evict(c, E)
BY SameCharge DEF T!Evict, LT!Evict, B!Evict, LB!Evict

LEMMA SamePrune ==
  ASSUME NEW c
  PROVE  T!Prune(c) = LT!Prune(c) /\ B!Prune(c) = LB!Prune(c)
BY SameEvict DEF T!Prune, LT!Prune, B!Prune, LB!Prune

-----------------------------------------------------------------------------
\* What the calls of the table cache keep.
LEMMA TableCalls ==
  ASSUME TableCacheAssumption, NEW c, NEW g, LT!Good(c, g), NEW S, NEW f, LT!Lives(c, S, f)
  PROVE  /\ \A k \in Files : c.table[k] # NULL =>
              /\ LT!Good(T!Lookup(c, k), Gained(g, c.table[k]))
              /\ LT!Lives(T!Lookup(c, k), S, f) /\ T!Lookup(c, k).table = c.table
         /\ \A h \in Tables : g[h] > 0 =>
              /\ LT!Good(T!Release(c, h), Lost(g, h))
              /\ LT!Lives(T!Release(c, h), S, f) /\ T!Release(c, h).table = c.table
         /\ \A k \in Files :
              /\ LT!Good(T!Erase(c, k), g)
              /\ LT!Lives(T!Erase(c, k), S, f) /\ T!Erase(c, k).table[k] = NULL
         /\ LT!Good(T!Prune(c), g) /\ LT!Lives(T!Prune(c), S, f)
         /\ T!Prune(c).cached = {h \in c.cached : g[h] > 0}
<1>0. LT!CacheAssumption
  BY CacheConstants
<1>1. ASSUME NEW k \in Files, c.table[k] # NULL
      PROVE  /\ LT!Good(T!Lookup(c, k), Gained(g, c.table[k]))
             /\ LT!Lives(T!Lookup(c, k), S, f) /\ T!Lookup(c, k).table = c.table
  BY SMTT(30), <1>0, <1>1, SameLookup, LT!LookupKeepsGood, LT!LookupKeepsLives DEF Gained
<1>2. ASSUME NEW h \in Tables, g[h] > 0
      PROVE  /\ LT!Good(T!Release(c, h), Lost(g, h))
             /\ LT!Lives(T!Release(c, h), S, f) /\ T!Release(c, h).table = c.table
  BY SMTT(30), <1>0, <1>2, SameRelease, LT!ReleaseKeepsGood, LT!ReleaseKeepsLives DEF Lost
<1>3. ASSUME NEW k \in Files
      PROVE  /\ LT!Good(T!Erase(c, k), g)
             /\ LT!Lives(T!Erase(c, k), S, f) /\ T!Erase(c, k).table[k] = NULL
  BY <1>0, SameErase, LT!EraseKeepsGood, LT!EraseKeepsLives
<1>4. /\ LT!Good(T!Prune(c), g) /\ LT!Lives(T!Prune(c), S, f)
      /\ T!Prune(c).cached = {h \in c.cached : g[h] > 0}
  BY SMTT(30), <1>0, SamePrune, LT!PruneKeepsGood, LT!PruneKeepsLives
<1> QED BY <1>1, <1>2, <1>3, <1>4

LEMMA TableInsert ==
  ASSUME TableCacheAssumption, NEW c, NEW g, LT!Good(c, g), NEW S, NEW f, LT!Lives(c, S, f),
         NEW h \in Tables, h \notin S, NEW k \in Files, f[h] = k
  PROVE  /\ LT!Good(T!Insert(c, h, k, h, 1), Gained(g, h))
         /\ LT!Lives(T!Insert(c, h, k, h, 1), S \cup {h}, f)
         /\ \A j \in Files \ {k} : c.table[j] = NULL => T!Insert(c, h, k, h, 1).table[j] = NULL
<1> DEFINE e == LT!Placed(c, h, k, h, 1)
           E == T!Surplus(e)
           u == [g EXCEPT ![h] = 1]
<1>0. LT!CacheAssumption
  BY CacheConstants
<1>1. c.refs \in [Tables -> Nat] /\ g \in [Tables -> Nat] /\ c.refs[h] >= g[h]
  BY SMTT(30) DEF LT!Good, LT!Typed, LT!Refs
<1>2. h \in LT!Free(c) /\ g[h] = 0
  BY SMTT(30), <1>1 DEF LT!Free, LT!Lives
<1>3. T!Insert(c, h, k, h, 1) = LT!Evict(e, E)
  <2>1. /\ T!Entered(c, h, k, h, 1) = LT!Entered(c, h, k, h, 1)
        /\ T!Allocated(c, h, k, h, 1, 1) = LT!Allocated(c, h, k, h, 1, 1)
    BY DEF T!Entered, LT!Entered, T!Allocated, LT!Allocated
  <2> QED BY <2>1, SameFinishErase, SameEvict DEF T!Insert, LT!Placed
<1>4. LT!Good(e, u)
  BY <1>0, <1>2, LT!PlacedKeepsGood
<1>5. LT!Lives(e, S \cup {h}, f) /\ \A j \in Files \ {k} : c.table[j] = NULL => e.table[j] = NULL
  <2>1. LT!Lives(e, S \cup {h}, f)
    BY <1>0, <1>2, LT!PlacedKeepsLives
  <2>2. \A j \in Files \ {k} : c.table[j] = NULL => e.table[j] = NULL
    BY SMTT(30), <1>0, <1>2, LT!PlacedElsewhere
  <2> QED BY <2>1, <2>2
<1> HIDE DEF e
<1>6. E \subseteq e.lru
  BY DEF T!Surplus, T!Oldest
<1> HIDE DEF E
<1>7. LT!Good(LT!Evict(e, E), u)
  BY <1>0, <1>4, <1>6, LT!EvictKeepsGood
<1>8. /\ LT!Lives(LT!Evict(e, E), S \cup {h}, f)
      /\ \A j \in Files : e.table[j] = NULL => LT!Evict(e, E).table[j] = NULL
  BY SMTT(30), <1>0, <1>4, <1>5, <1>6, LT!EvictKeepsLives
<1>9. u = Gained(g, h)
  BY SMTT(30), <1>1, <1>2 DEF Gained
<1> QED BY <1>3, <1>5, <1>7, <1>8, <1>9

\* What the calls of the block cache keep.
LEMMA BlockCalls ==
  ASSUME TableCacheAssumption, NEW c, NEW g, LB!Good(c, g), NEW S, NEW f, LB!Lives(c, S, f)
  PROVE  /\ \A k \in Tables : c.table[k] # NULL =>
              /\ LB!Good(B!Lookup(c, k), Gained(g, c.table[k]))
              /\ LB!Lives(B!Lookup(c, k), S, f)
         /\ \A h \in Blocks : g[h] > 0 =>
              /\ LB!Good(B!Release(c, h), Lost(g, h))
              /\ LB!Lives(B!Release(c, h), S, f)
         /\ LB!Good(B!Prune(c), g) /\ LB!Lives(B!Prune(c), S, f)
         /\ B!Prune(c).cached = {h \in c.cached : g[h] > 0}
<1>0. LB!CacheAssumption
  BY CacheConstants
<1>1. ASSUME NEW k \in Tables, c.table[k] # NULL
      PROVE  /\ LB!Good(B!Lookup(c, k), Gained(g, c.table[k]))
             /\ LB!Lives(B!Lookup(c, k), S, f)
  BY SMTT(30), <1>0, <1>1, SameLookup, LB!LookupKeepsGood, LB!LookupKeepsLives DEF Gained
<1>2. ASSUME NEW h \in Blocks, g[h] > 0
      PROVE  /\ LB!Good(B!Release(c, h), Lost(g, h))
             /\ LB!Lives(B!Release(c, h), S, f)
  BY SMTT(30), <1>0, <1>2, SameRelease, LB!ReleaseKeepsGood, LB!ReleaseKeepsLives DEF Lost
<1>3. /\ LB!Good(B!Prune(c), g) /\ LB!Lives(B!Prune(c), S, f)
      /\ B!Prune(c).cached = {h \in c.cached : g[h] > 0}
  BY SMTT(30), <1>0, SamePrune, LB!PruneKeepsGood, LB!PruneKeepsLives
<1> QED BY <1>1, <1>2, <1>3

LEMMA BlockInsert ==
  ASSUME TableCacheAssumption, NEW c, NEW g, LB!Good(c, g), NEW S, NEW f, LB!Lives(c, S, f),
         NEW h \in Blocks, h \notin S, NEW k \in Tables, f[h] = k
  PROVE  /\ LB!Good(B!Insert(c, h, k, h, 1), Gained(g, h))
         /\ LB!Lives(B!Insert(c, h, k, h, 1), S \cup {h}, f)
<1> DEFINE e == LB!Placed(c, h, k, h, 1)
           E == B!Surplus(e)
           u == [g EXCEPT ![h] = 1]
<1>0. LB!CacheAssumption
  BY CacheConstants
<1>1. c.refs \in [Blocks -> Nat] /\ g \in [Blocks -> Nat] /\ c.refs[h] >= g[h]
  BY SMTT(30) DEF LB!Good, LB!Typed, LB!Refs
<1>2. h \in LB!Free(c) /\ g[h] = 0
  BY SMTT(30), <1>1 DEF LB!Free, LB!Lives
<1>3. B!Insert(c, h, k, h, 1) = LB!Evict(e, E)
  <2>1. /\ B!Entered(c, h, k, h, 1) = LB!Entered(c, h, k, h, 1)
        /\ B!Allocated(c, h, k, h, 1, 1) = LB!Allocated(c, h, k, h, 1, 1)
    BY DEF B!Entered, LB!Entered, B!Allocated, LB!Allocated
  <2> QED BY <2>1, SameFinishErase, SameEvict DEF B!Insert, LB!Placed
<1>4. LB!Good(e, u)
  BY <1>0, <1>2, LB!PlacedKeepsGood
<1>5. LB!Lives(e, S \cup {h}, f)
  BY <1>0, <1>2, LB!PlacedKeepsLives
<1> HIDE DEF e
<1>6. E \subseteq e.lru
  BY DEF B!Surplus, B!Oldest
<1> HIDE DEF E
<1>7. LB!Good(LB!Evict(e, E), u)
  BY <1>0, <1>4, <1>6, LB!EvictKeepsGood
<1>8. LB!Lives(LB!Evict(e, E), S \cup {h}, f)
  BY <1>0, <1>4, <1>5, <1>6, LB!EvictKeepsLives
<1>9. u = Gained(g, h)
  BY SMTT(30), <1>1, <1>2 DEF Gained
<1> QED BY <1>3, <1>7, <1>8, <1>9
\* What a cache finds or a reader refers to was inserted, for its file or table.
LEMMA FoundTables ==
  ASSUME TableCacheAssumption, TableCacheInv
  PROVE  /\ \A k \in Files : tc.table[k] # NULL =>
              tc.table[k] \in TablesIn(opened, reader) /\ opened[tc.table[k]] = k
         /\ \A t \in Tables : TablesHeld[t] > 0 => t \in TablesIn(opened, reader) /\ t \notin tc.deleted
         /\ \A t \in TablesIn(opened, reader) \ tc.deleted :
              TablesHeld[t] > 0 \/ tc.table[opened[t]] = t
<1> DEFINE S == TablesIn(opened, reader)
<1>1. LT!Good(tc, TablesHeld) /\ LT!Lives(tc, S, opened)
  BY DEF TableCacheInv, TablesFine
<1> HIDE DEF S
<1>2. tc.refs \in [Tables -> Nat] /\ TablesHeld \in [Tables -> Nat]
  BY <1>1 DEF LT!Good, LT!Typed
<1>3. \A t \in Tables : tc.refs[t] = TablesHeld[t] + (IF t \in tc.cached THEN 1 ELSE 0)
  BY <1>1 DEF LT!Good, LT!Refs
<1>4. \A t \in Tables : tc.refs[t] > 0 => t \in S
  BY <1>1 DEF LT!Lives
<1>5. tc.deleted = {t \in S : tc.refs[t] = 0} /\ S \subseteq Tables /\ \A t \in S : tc.key[t] = opened[t]
  BY <1>1 DEF LT!Lives
<1>6. tc.cached \subseteq Tables /\ \A k \in Files : tc.table[k] # NULL => tc.table[k] \in tc.cached /\ tc.key[tc.table[k]] = k
  BY <1>1 DEF LT!Good, LT!Typed, LT!Table
<1>7. \A t \in tc.cached : tc.table[tc.key[t]] = t
  BY <1>1 DEF LT!Good, LT!Table
<1>8. \A t \in Tables : TablesHeld[t] > 0 => t \in S /\ t \notin tc.deleted
  BY SMTT(30), <1>2, <1>3, <1>4, <1>5
<1>9. \A t \in tc.cached : t \in S
  BY SMTT(30), <1>2, <1>3, <1>4, <1>6
<1>10. \A k \in Files : tc.table[k] # NULL => tc.table[k] \in S /\ opened[tc.table[k]] = k
  BY <1>5, <1>6, <1>9
<1>11. ASSUME NEW t \in S \ tc.deleted PROVE TablesHeld[t] > 0 \/ tc.table[opened[t]] = t
  BY SMTT(30), <1>2, <1>3, <1>5, <1>7
<1> QED BY <1>8, <1>10, <1>11 DEF S

LEMMA FoundBlocks ==
  ASSUME TableCacheAssumption, TableCacheInv
  PROVE  /\ \A t \in Tables : bc.table[t] # NULL =>
              bc.table[t] \in BlocksIn(blocks, freed, reader) /\ TableOf(blocks)[bc.table[t]] = t
         /\ \A b \in Blocks : BlocksHeld[b] > 0 =>
              b \in BlocksIn(blocks, freed, reader) /\ b \notin bc.deleted
         /\ \A b \in BlocksIn(blocks, freed, reader) \ bc.deleted : BlocksHeld[b] > 0 \/ b \in bc.cached
         /\ bc.deleted \subseteq BlocksIn(blocks, freed, reader)
<1> DEFINE S == BlocksIn(blocks, freed, reader)
           f == TableOf(blocks)
<1>1. LB!Good(bc, BlocksHeld) /\ LB!Lives(bc, S, f)
  BY DEF TableCacheInv, BlocksFine
<1> HIDE DEF S, f
<1>2. bc.refs \in [Blocks -> Nat] /\ BlocksHeld \in [Blocks -> Nat]
  BY <1>1 DEF LB!Good, LB!Typed
<1>3. \A b \in Blocks : bc.refs[b] = BlocksHeld[b] + (IF b \in bc.cached THEN 1 ELSE 0)
  BY <1>1 DEF LB!Good, LB!Refs
<1>4. \A b \in Blocks : bc.refs[b] > 0 => b \in S
  BY <1>1 DEF LB!Lives
<1>5. bc.deleted = {b \in S : bc.refs[b] = 0} /\ S \subseteq Blocks /\ \A b \in S : bc.key[b] = f[b]
  BY <1>1 DEF LB!Lives
<1>6. bc.cached \subseteq Blocks /\ \A t \in Tables : bc.table[t] # NULL => bc.table[t] \in bc.cached /\ bc.key[bc.table[t]] = t
  BY <1>1 DEF LB!Good, LB!Typed, LB!Table
<1>7. \A b \in Blocks : BlocksHeld[b] > 0 => b \in S /\ b \notin bc.deleted
  BY SMTT(30), <1>2, <1>3, <1>4, <1>5
<1>8. \A b \in bc.cached : b \in S
  BY SMTT(30), <1>2, <1>3, <1>4, <1>6
<1>9. \A t \in Tables : bc.table[t] # NULL => bc.table[t] \in S /\ f[bc.table[t]] = t
  BY <1>5, <1>6, <1>8
<1>10. ASSUME NEW b \in S \ bc.deleted PROVE BlocksHeld[b] > 0 \/ b \in bc.cached
  BY SMTT(30), <1>2, <1>3, <1>5
<1> QED BY <1>5, <1>7, <1>9, <1>10 DEF S, f
-----------------------------------------------------------------------------
(***************************************************************************)
(* The steps of the readers.                                               *)
(***************************************************************************)
\* A step leaves the cache alone that it does not call.
LEMMA TablesFrame ==
  ASSUME TablesFine, UNCHANGED <<tc, opened, evicted, closed>>, TablesHeld' = TablesHeld,
         TablesIn(opened', reader') = TablesIn(opened, reader)
  PROVE  TablesKept
BY DEF TablesFine, TablesKept

LEMMA BlocksFrame ==
  ASSUME BlocksFine, UNCHANGED <<bc, blocks, closed>>, BlocksHeld' = BlocksHeld,
         BlocksIn(blocks', freed', reader') = BlocksIn(blocks, freed, reader)
  PROVE  BlocksKept
BY DEF BlocksFine, BlocksKept

LEMMA PlainSteps ==
  ASSUME TableCacheAssumption, TableCacheInv, NEW r \in Readers,
         RefVersion(r) \/ OpenFails(r) \/ ReadFails(r) \/ UnrefVersion(r)
  PROVE  Kept
BY PlainReaders, TablesFrame, BlocksFrame DEF TableCacheInv, Kept, SameEntries

LEMMA LookupTableStep ==
  ASSUME TableCacheAssumption, TableCacheInv, NEW r \in Readers, NEW f \in Files, LookupTable(r, f)
  PROVE  Kept
<1> DEFINE t == tc.table[f]
           S == TablesIn(opened, reader)
<1>1. /\ LT!Good(tc, TablesHeld) /\ LT!Lives(tc, S, opened) /\ ReadersInv
      /\ TablesFine /\ BlocksFine /\ (evicted # NULL => tc.table[evicted] = NULL)
  BY DEF TableCacheInv, TablesFine
<1>2. /\ UNCHANGED <<evicted, bc, blocks, opened, closed>> /\ tc' = T!Lookup(tc, f)
      /\ reader[r].pc = "ready"
  BY DEF LookupTable
<1>3. t \in Tables \cup {NULL} /\ (t # NULL => opened[t] = f)
  BY <1>1, FoundTables DEF LT!Good, LT!Typed
<1>4. /\ ReadersKept /\ SameEntries /\ BlocksHeld' = BlocksHeld
      /\ t = NULL => TablesHeld' = TablesHeld
      /\ t # NULL => TablesHeld' = Gained(TablesHeld, t)
  BY <1>1, <1>3, LookupTableReader
<1>5. BlocksKept
  BY <1>1, <1>2, <1>4, BlocksFrame DEF SameEntries
<1> HIDE DEF S
<1>6. TablesKept
  <2>1. CASE t = NULL
    <3>1. tc' = tc
      BY <1>2, <2>1 DEF T!Lookup
    <3> QED BY <1>1, <1>2, <1>4, <2>1, <3>1, TablesFrame DEF SameEntries
  <2>2. CASE t # NULL
    <3>1. LT!Good(tc', Gained(TablesHeld, t)) /\ LT!Lives(tc', S, opened) /\ tc'.table = tc.table
      BY <1>1, <1>2, <2>2, TableCalls
    <3>2. ~closed'
      BY <1>1, <1>2 DEF ReadersInv, Shut
    <3> QED BY <1>1, <1>2, <1>4, <2>2, <3>1, <3>2 DEF TablesKept, SameEntries, S
  <2> QED BY <2>1, <2>2
<1> QED BY <1>4, <1>5, <1>6 DEF Kept

LEMMA OpenTableStep ==
  ASSUME TableCacheAssumption, TableCacheInv, NEW r \in Readers, OpenTable(r)
  PROVE  Kept
<1> DEFINE S == TablesIn(opened, reader)
<1>1. /\ LT!Good(tc, TablesHeld) /\ LT!Lives(tc, S, opened) /\ ReadersInv
      /\ TablesFine /\ BlocksFine
  BY DEF TableCacheInv, TablesFine
<1>2. UNCHANGED <<evicted, tc, bc, blocks, closed>>
  BY DEF OpenTable
<1>3. /\ ReadersKept /\ SameEntries /\ TablesHeld' = TablesHeld /\ BlocksHeld' = BlocksHeld
      /\ \A t \in S : opened'[t] = opened[t]
  BY <1>1, OpenTableReader
<1>4. BlocksKept
  BY <1>1, <1>2, <1>3, BlocksFrame DEF SameEntries
<1> HIDE DEF S
<1>5. LT!Lives(tc, S, opened')
  BY <1>1, <1>3 DEF LT!Lives
<1>6. TablesKept
  BY <1>1, <1>2, <1>3, <1>5 DEF TablesKept, TablesFine, SameEntries, S
<1> QED BY <1>3, <1>4, <1>6 DEF Kept

LEMMA InsertTableStep ==
  ASSUME TableCacheAssumption, TableCacheInv, NEW r \in Readers, InsertTable(r)
  PROVE  Kept
<1> DEFINE t == reader[r].table
           f == reader[r].file
           S == TablesIn(opened, reader)
<1>1. /\ LT!Good(tc, TablesHeld) /\ LT!Lives(tc, S, opened) /\ ReadersInv
      /\ TablesFine /\ BlocksFine /\ (evicted # NULL => tc.table[evicted] = NULL)
  BY DEF TableCacheInv, TablesFine
<1>2. /\ UNCHANGED <<evicted, bc, blocks, opened, closed>> /\ tc' = T!Insert(tc, t, f, t, 1)
      /\ reader[r].pc = "insert"
  BY DEF InsertTable
<1>3. /\ ReadersKept /\ BlocksHeld' = BlocksHeld /\ TablesHeld' = Gained(TablesHeld, t)
      /\ BlocksIn(blocks', freed', reader') = BlocksIn(blocks, freed, reader)
      /\ t \in Tables /\ t \notin S /\ TablesIn(opened', reader') = S \cup {t}
      /\ f \in Files /\ opened[t] = f /\ evicted # f
  BY <1>1, InsertTableReader
<1>4. BlocksKept
  BY <1>1, <1>2, <1>3, BlocksFrame
<1>5. ~closed' /\ evicted \in Files \cup {NULL}
  BY <1>1, <1>2 DEF ReadersInv, Shut, TypeOK
<1> HIDE DEF S, t, f
<1>6. /\ LT!Good(T!Insert(tc, t, f, t, 1), Gained(TablesHeld, t))
      /\ LT!Lives(T!Insert(tc, t, f, t, 1), S \cup {t}, opened)
      /\ \A j \in Files \ {f} : tc.table[j] = NULL => T!Insert(tc, t, f, t, 1).table[j] = NULL
  BY SMTT(30), <1>1, <1>3, TableInsert
<1>7. TablesKept
  BY <1>1, <1>2, <1>3, <1>5, <1>6 DEF TablesKept
<1> QED BY <1>3, <1>4, <1>7 DEF Kept

LEMMA ReleaseTableStep ==
  ASSUME TableCacheAssumption, TableCacheInv, NEW r \in Readers, ReleaseTable(r)
  PROVE  Kept
<1> DEFINE t == reader[r].table
           S == TablesIn(opened, reader)
<1>1. /\ LT!Good(tc, TablesHeld) /\ LT!Lives(tc, S, opened) /\ ReadersInv
      /\ TablesFine /\ BlocksFine /\ (evicted # NULL => tc.table[evicted] = NULL)
  BY DEF TableCacheInv, TablesFine
<1>2. /\ UNCHANGED <<evicted, bc, blocks, opened, closed>> /\ tc' = T!Release(tc, t)
      /\ reader[r].pc = "table"
  BY DEF ReleaseTable
<1>3. /\ ReadersKept /\ SameEntries /\ BlocksHeld' = BlocksHeld
      /\ t \in Tables /\ TablesHeld' = Lost(TablesHeld, t) /\ TablesHeld[t] > 0
  BY <1>1, ReleaseTableReader
<1>4. BlocksKept
  BY <1>1, <1>2, <1>3, BlocksFrame DEF SameEntries
<1>5. ~closed'
  BY <1>1, <1>2 DEF ReadersInv, Shut
<1> HIDE DEF S, t
<1>6. \A h \in Tables : TablesHeld[h] > 0 =>
        /\ LT!Good(T!Release(tc, h), Lost(TablesHeld, h))
        /\ LT!Lives(T!Release(tc, h), S, opened) /\ T!Release(tc, h).table = tc.table
  BY <1>1, TableCalls
<1>7. LT!Good(tc', Lost(TablesHeld, t)) /\ LT!Lives(tc', S, opened) /\ tc'.table = tc.table
  BY <1>2, <1>3, <1>6
<1>8. TablesKept
  BY <1>1, <1>2, <1>3, <1>5, <1>7 DEF TablesKept, SameEntries, S
<1> QED BY <1>3, <1>4, <1>8 DEF Kept

LEMMA LookupBlockStep ==
  ASSUME TableCacheAssumption, TableCacheInv, NEW r \in Readers, LookupBlock(r)
  PROVE  Kept
<1> DEFINE t == reader[r].table
           b == bc.table[t]
           S == BlocksIn(blocks, freed, reader)
           g == TableOf(blocks)
<1>1. /\ LB!Good(bc, BlocksHeld) /\ LB!Lives(bc, S, g) /\ ReadersInv /\ TablesFine /\ BlocksFine
  BY DEF TableCacheInv, BlocksFine
<1>2. /\ UNCHANGED <<evicted, tc, blocks, opened, closed>> /\ bc' = B!Lookup(bc, t)
      /\ reader[r].pc = "table"
  BY DEF LookupBlock
<1>3. t \in Tables
  BY <1>1, <1>2 DEF ReadersInv, Consistent, HasTable
<1>4. b \in Blocks \cup {NULL} /\ (b # NULL => b \in S /\ g[b] = t)
  BY <1>1, <1>3, FoundBlocks DEF LB!Good, LB!Typed
<1>5. /\ ReadersKept /\ SameEntries /\ TablesHeld' = TablesHeld
      /\ b = NULL => BlocksHeld' = BlocksHeld
      /\ b # NULL => BlocksHeld' = Gained(BlocksHeld, b)
  BY <1>1, <1>4, LookupBlockReader
<1>6. TablesKept
  BY <1>1, <1>2, <1>5, TablesFrame DEF SameEntries
<1> HIDE DEF S, g, t
<1>7. BlocksKept
  <2>1. CASE b = NULL
    <3>1. bc' = bc
      BY <1>2, <2>1 DEF B!Lookup
    <3> QED BY <1>1, <1>2, <1>5, <2>1, <3>1, BlocksFrame DEF SameEntries
  <2>2. CASE b # NULL
    <3>1. LB!Good(bc', Gained(BlocksHeld, b)) /\ LB!Lives(bc', S, g)
      BY <1>1, <1>2, <1>3, <2>2, BlockCalls
    <3>2. ~closed'
      BY <1>1, <1>2 DEF ReadersInv, Shut
    <3> QED BY <1>2, <1>5, <2>2, <3>1, <3>2 DEF BlocksKept, SameEntries, S, g
  <2> QED BY <2>1, <2>2
<1> QED BY <1>5, <1>6, <1>7 DEF Kept

LEMMA ReadBlockStep ==
  ASSUME TableCacheAssumption, TableCacheInv, NEW r \in Readers,
         NEW mapped \in BOOLEAN, NEW fill_cache \in BOOLEAN, ReadBlock(r, mapped, fill_cache)
  PROVE  Kept
<1> DEFINE S == BlocksIn(blocks, freed, reader)
           g == TableOf(blocks)
           n == TableOf(blocks')
<1>1. /\ LB!Good(bc, BlocksHeld) /\ LB!Lives(bc, S, g) /\ ReadersInv /\ TablesFine /\ BlocksFine
  BY DEF TableCacheInv, BlocksFine
<1>2. UNCHANGED <<evicted, tc, bc, opened, closed>>
  BY DEF ReadBlock
<1>3. /\ ReadersKept /\ SameEntries /\ TablesHeld' = TablesHeld /\ BlocksHeld' = BlocksHeld
      /\ \A b \in S : n[b] = g[b]
  BY <1>1, ReadBlockReader
<1>4. TablesKept
  BY <1>1, <1>2, <1>3, TablesFrame DEF SameEntries
<1> HIDE DEF S, g, n
<1>5. LB!Lives(bc, S, n)
  BY <1>1, <1>3 DEF LB!Lives
<1>6. BlocksKept
  BY <1>1, <1>2, <1>3, <1>5 DEF BlocksKept, BlocksFine, SameEntries, S, n
<1> QED BY <1>3, <1>4, <1>6 DEF Kept

LEMMA InsertBlockStep ==
  ASSUME TableCacheAssumption, TableCacheInv, NEW r \in Readers, InsertBlock(r)
  PROVE  Kept
<1> DEFINE t == reader[r].table
           b == reader[r].block
           S == BlocksIn(blocks, freed, reader)
           g == TableOf(blocks)
<1>1. /\ LB!Good(bc, BlocksHeld) /\ LB!Lives(bc, S, g) /\ ReadersInv /\ TablesFine /\ BlocksFine
  BY DEF TableCacheInv, BlocksFine
<1>2. /\ UNCHANGED <<evicted, tc, blocks, opened, closed>> /\ bc' = B!Insert(bc, b, t, b, 1)
      /\ reader[r].pc = "cache"
  BY DEF InsertBlock
<1>3. /\ ReadersKept /\ TablesHeld' = TablesHeld /\ BlocksHeld' = Gained(BlocksHeld, b)
      /\ TablesIn(opened', reader') = TablesIn(opened, reader)
      /\ b \in Blocks /\ b \notin S /\ BlocksIn(blocks', freed', reader') = S \cup {b}
      /\ t \in Tables /\ g[b] = t
  BY <1>1, InsertBlockReader
<1>4. TablesKept
  BY <1>1, <1>2, <1>3, TablesFrame
<1>5. ~closed'
  BY <1>1, <1>2 DEF ReadersInv, Shut
<1> HIDE DEF S, t, b, g
<1>6. /\ LB!Good(B!Insert(bc, b, t, b, 1), Gained(BlocksHeld, b))
      /\ LB!Lives(B!Insert(bc, b, t, b, 1), S \cup {b}, g)
  BY <1>1, <1>3, BlockInsert
<1>7. BlocksKept
  BY <1>2, <1>3, <1>5, <1>6 DEF BlocksKept, g
<1> QED BY <1>3, <1>4, <1>7 DEF Kept

LEMMA DeleteBlockIteratorStep ==
  ASSUME TableCacheAssumption, TableCacheInv, NEW r \in Readers, DeleteBlockIterator(r)
  PROVE  Kept
<1> DEFINE b == reader[r].block
           S == BlocksIn(blocks, freed, reader)
           g == TableOf(blocks)
<1>1. /\ LB!Good(bc, BlocksHeld) /\ LB!Lives(bc, S, g) /\ ReadersInv /\ TablesFine /\ BlocksFine
  BY DEF TableCacheInv, BlocksFine
<1>2. /\ UNCHANGED <<evicted, tc, blocks, opened, closed>>
      /\ bc' = IF reader[r].cached THEN B!Release(bc, b) ELSE bc
      /\ reader[r].pc = "block"
  BY DEF DeleteBlockIterator
<1>3. \A e \in Blocks : BlocksHeld[e] > 0 => e \in S
  BY FoundBlocks
<1>4. /\ ReadersKept /\ SameEntries /\ TablesHeld' = TablesHeld
      /\ reader[r].cached => b \in Blocks /\ BlocksHeld' = Lost(BlocksHeld, b) /\ BlocksHeld[b] > 0
      /\ ~reader[r].cached => BlocksHeld' = BlocksHeld
  BY <1>1, <1>3, DeleteBlockIteratorReader
<1>5. TablesKept
  BY <1>1, <1>2, <1>4, TablesFrame DEF SameEntries
<1>6. ~closed'
  BY <1>1, <1>2 DEF ReadersInv, Shut
<1> HIDE DEF S, b, g
<1>7. \A h \in Blocks : BlocksHeld[h] > 0 =>
        LB!Good(B!Release(bc, h), Lost(BlocksHeld, h)) /\ LB!Lives(B!Release(bc, h), S, g)
  BY <1>1, BlockCalls
<1>8. BlocksKept
  <2>1. CASE reader[r].cached
    <3>1. LB!Good(bc', Lost(BlocksHeld, b)) /\ LB!Lives(bc', S, g)
      BY <1>2, <1>4, <1>7, <2>1
    <3> QED BY <1>2, <1>4, <1>6, <2>1, <3>1 DEF BlocksKept, SameEntries, S, g
  <2>2. CASE ~reader[r].cached
    BY <1>1, <1>2, <1>4, <2>2, BlocksFrame DEF SameEntries
  <2> QED BY <2>1, <2>2
<1> QED BY <1>4, <1>5, <1>8 DEF Kept
-----------------------------------------------------------------------------
(***************************************************************************)
(* The steps of the DB, and every step.                                    *)
(***************************************************************************)
LEMMA FileSteps ==
  ASSUME TableCacheAssumption, TableCacheInv,
         (\E f \in Files : DropFile(f)) \/ DeleteObsolete \/ UNCHANGED vars
  PROVE  Kept
<1>1. /\ UNCHANGED <<bound, tc, bc, blocks, freed, opened, reader, closed>>
      /\ current' \subseteq current /\ disk' \subseteq disk
      /\ evicted' = evicted \/ evicted' = NULL
  BY DEF DropFile, DeleteObsolete, vars
<1>2. ReadersInv /\ TablesFine /\ BlocksFine
  BY DEF TableCacheInv
<1>3. Leaving' /\ Shut' /\ evicted' \in Files \cup {NULL} /\ closed' \in BOOLEAN
  BY <1>1, <1>2 DEF ReadersInv, TypeOK, Leaving, Shut
<1>4. ReadersKept /\ SameEntries /\ TablesHeld' = TablesHeld /\ BlocksHeld' = BlocksHeld
  BY <1>1, <1>2, <1>3, ReadersStay
<1>5. TablesKept
  BY <1>1, <1>2, <1>4 DEF TablesFine, TablesKept, SameEntries
<1>6. BlocksKept
  BY <1>1, <1>2, <1>4, BlocksFrame DEF SameEntries
<1> QED BY <1>4, <1>5, <1>6 DEF Kept

LEMMA EvictObsoleteStep ==
  ASSUME TableCacheAssumption, TableCacheInv, NEW f \in Files, EvictObsolete(f)
  PROVE  Kept
<1> DEFINE S == TablesIn(opened, reader)
<1>1. ReadersInv /\ BlocksFine /\ LT!Good(tc, TablesHeld) /\ LT!Lives(tc, S, opened)
  BY DEF TableCacheInv, TablesFine
<1>2. /\ UNCHANGED <<bound, current, disk, bc, blocks, freed, opened, reader, closed>>
      /\ tc' = T!Erase(tc, f) /\ evicted' = f /\ f \notin LiveFiles /\ ~closed
  BY DEF EvictObsolete
<1>3. Leaving' /\ Shut' /\ evicted' \in Files \cup {NULL} /\ closed' \in BOOLEAN
  BY <1>1, <1>2 DEF ReadersInv, TypeOK, LiveFiles, Leaving, Shut
<1>4. ReadersKept /\ SameEntries /\ TablesHeld' = TablesHeld /\ BlocksHeld' = BlocksHeld
  BY <1>1, <1>2, <1>3, ReadersStay
<1>5. BlocksKept
  BY <1>1, <1>2, <1>4, BlocksFrame DEF SameEntries
<1> HIDE DEF S
<1>6. \A k \in Files : /\ LT!Good(T!Erase(tc, k), TablesHeld)
                       /\ LT!Lives(T!Erase(tc, k), S, opened) /\ T!Erase(tc, k).table[k] = NULL
  BY <1>1, TableCalls
<1>7. TablesKept
  BY <1>2, <1>4, <1>6 DEF TablesKept, SameEntries, S
<1> QED BY <1>4, <1>5, <1>7 DEF Kept

LEMMA PruneBlocksStep ==
  ASSUME TableCacheAssumption, TableCacheInv, PruneBlocks
  PROVE  Kept
<1> DEFINE S == BlocksIn(blocks, freed, reader)
           g == TableOf(blocks)
<1>1. ReadersInv /\ TablesFine /\ LB!Good(bc, BlocksHeld) /\ LB!Lives(bc, S, g)
  BY DEF TableCacheInv, BlocksFine
<1>2. /\ UNCHANGED <<bound, current, disk, evicted, tc, blocks, freed, opened, reader, closed>>
      /\ bc' = B!Prune(bc) /\ ~closed
  BY DEF PruneBlocks
<1>3. Leaving' /\ Shut' /\ evicted' \in Files \cup {NULL} /\ closed' \in BOOLEAN
  BY <1>1, <1>2 DEF ReadersInv, TypeOK, Leaving, Shut
<1>4. ReadersKept /\ SameEntries /\ TablesHeld' = TablesHeld /\ BlocksHeld' = BlocksHeld
  BY <1>1, <1>2, <1>3, ReadersStay
<1>5. TablesKept
  BY <1>1, <1>2, <1>4, TablesFrame DEF SameEntries
<1> HIDE DEF S, g
<1>6. LB!Good(bc', BlocksHeld) /\ LB!Lives(bc', S, g)
  BY <1>1, <1>2, BlockCalls
<1>7. BlocksKept
  BY <1>2, <1>4, <1>6 DEF BlocksKept, SameEntries, S, g
<1> QED BY <1>4, <1>5, <1>7 DEF Kept

LEMMA CloseStep ==
  ASSUME TableCacheAssumption, TableCacheInv, Close
  PROVE  Kept
<1> DEFINE S == BlocksIn(blocks, freed, reader)
           g == TableOf(blocks)
           U == TablesIn(opened, reader)
<1>1. /\ ReadersInv /\ LT!Good(tc, TablesHeld) /\ LT!Lives(tc, U, opened)
      /\ LB!Good(bc, BlocksHeld) /\ LB!Lives(bc, S, g)
  BY DEF TableCacheInv, TablesFine, BlocksFine
<1>2. /\ UNCHANGED <<bound, current, disk, evicted, blocks, freed, opened, reader>>
      /\ tc' = T!Prune(tc) /\ bc' = B!Prune(bc) /\ closed' = TRUE /\ evicted = NULL
      /\ \A r \in Readers : reader[r].pc = "idle"
  BY DEF Close
<1>3. Leaving' /\ Shut' /\ evicted' \in Files \cup {NULL} /\ closed' \in BOOLEAN
  BY <1>1, <1>2 DEF Leaving, Shut
<1>4. ReadersKept /\ SameEntries /\ TablesHeld' = TablesHeld /\ BlocksHeld' = BlocksHeld
  BY <1>1, <1>2, <1>3, ReadersStay
<1>5. (\A t \in Tables : ~(TablesHeld[t] > 0)) /\ \A b \in Blocks : ~(BlocksHeld[b] > 0)
  BY <1>1, <1>2, IdleHoldsNothing
<1> HIDE DEF S, g, U
<1>6. /\ LT!Good(T!Prune(tc), TablesHeld) /\ LT!Lives(T!Prune(tc), U, opened)
      /\ T!Prune(tc).cached = {h \in tc.cached : TablesHeld[h] > 0}
  BY SMTT(30), <1>1, TableCalls
<1>7. /\ LB!Good(B!Prune(bc), BlocksHeld) /\ LB!Lives(B!Prune(bc), S, g)
      /\ B!Prune(bc).cached = {h \in bc.cached : BlocksHeld[h] > 0}
  BY <1>1, BlockCalls
<1>8. tc.cached \subseteq Tables /\ bc.cached \subseteq Blocks
  BY <1>1 DEF LT!Good, LT!Typed, LB!Good, LB!Typed
<1>9. tc'.cached = {} /\ bc'.cached = {}
  BY <1>2, <1>5, <1>6, <1>7, <1>8
<1>10. TablesKept
  BY <1>2, <1>4, <1>6, <1>9 DEF TablesKept, SameEntries, U
<1>11. BlocksKept
  BY <1>2, <1>4, <1>7, <1>9 DEF BlocksKept, SameEntries, S, g
<1> QED BY <1>4, <1>10, <1>11 DEF Kept

LEMMA NextKept ==
  ASSUME TableCacheAssumption, TableCacheInv, [Next]_vars
  PROVE  Kept
<1>1. ASSUME NEW r \in Readers,
             \/ RefVersion(r) \/ \E f \in Files : LookupTable(r, f)
             \/ OpenTable(r) \/ OpenFails(r) \/ InsertTable(r)
             \/ LookupBlock(r) \/ \E mapped, fill_cache \in BOOLEAN : ReadBlock(r, mapped, fill_cache)
             \/ ReadFails(r) \/ InsertBlock(r)
             \/ DeleteBlockIterator(r) \/ ReleaseTable(r) \/ UnrefVersion(r)
      PROVE  Kept
  BY <1>1, PlainSteps, LookupTableStep, OpenTableStep, InsertTableStep, LookupBlockStep,
     ReadBlockStep, InsertBlockStep, DeleteBlockIteratorStep, ReleaseTableStep
<1> QED BY <1>1, FileSteps, EvictObsoleteStep, PruneBlocksStep, CloseStep DEF Next

LEMMA KeptIsInvariant ==
  ASSUME Kept
  PROVE  TableCacheInv'
<1>1. LT!Good(tc, TablesHeld)'
  BY DEF Kept, TablesKept, LT!Good, LT!Shape, LT!Typed, LT!Refs, LT!Lists, LT!Table
<1>2. LB!Good(bc, BlocksHeld)'
  BY DEF Kept, BlocksKept, LB!Good, LB!Shape, LB!Typed, LB!Refs, LB!Lists, LB!Table
<1>3. LT!Lives(tc, TablesIn(opened, reader), opened)'
  BY DEF Kept, TablesKept, LT!Lives, TablesIn
<1>4. LB!Lives(bc, BlocksIn(blocks, freed, reader), TableOf(blocks))'
  BY DEF Kept, BlocksKept, LB!Lives, BlocksIn, TableOf, Private
<1>5. TablesFine' /\ BlocksFine'
  BY <1>1, <1>2, <1>3, <1>4 DEF Kept, TablesKept, BlocksKept, TablesFine, BlocksFine
<1> QED BY <1>5, ReadersKeptIsInv DEF Kept, TableCacheInv

LEMMA InitInvariant ==
  ASSUME TableCacheAssumption, Init
  PROVE  TableCacheInv
<1>1. /\ ReadersInv /\ evicted = NULL /\ closed = FALSE
      /\ TablesIn(opened, reader) = {} /\ BlocksIn(blocks, freed, reader) = {}
      /\ TablesHeld = [t \in Tables |-> 0] /\ BlocksHeld = [b \in Blocks |-> 0]
  BY InitReaders DEF Init
<1>2. NULL \notin Tables /\ NULL \notin Blocks /\ NULL \notin Files
  BY DEF TableCacheAssumption
<1>3. /\ LT!Shape(tc) /\ tc.refs = [h \in Tables |-> 0] /\ tc.key = [h \in Tables |-> NULL]
      /\ tc.value = [h \in Tables |-> NULL] /\ tc.table = [k \in Files |-> NULL]
      /\ tc.cached = {} /\ tc.lru = {} /\ tc.in_use = {} /\ tc.deleted = {}
  BY DEF Init, T!EmptyCache, LT!Shape
<1>4. /\ LB!Shape(bc) /\ bc.refs = [h \in Blocks |-> 0] /\ bc.key = [h \in Blocks |-> NULL]
      /\ bc.value = [h \in Blocks |-> NULL] /\ bc.table = [k \in Tables |-> NULL]
      /\ bc.cached = {} /\ bc.lru = {} /\ bc.in_use = {} /\ bc.deleted = {}
  BY DEF Init, B!EmptyCache, LB!Shape
<1>5. LT!Good(tc, TablesHeld) /\ LB!Good(bc, BlocksHeld)
  <2>1. LT!Good(tc, TablesHeld)
    BY SMTT(30), <1>1, <1>2, <1>3 DEF LT!Good, LT!Typed, LT!Refs, LT!Lists, LT!Table
  <2>2. LB!Good(bc, BlocksHeld)
    BY SMTT(30), <1>1, <1>2, <1>4 DEF LB!Good, LB!Typed, LB!Refs, LB!Lists, LB!Table
  <2> QED BY <2>1, <2>2
<1>6. LT!Lives(tc, {}, opened)
  BY SMTT(30), <1>3 DEF LT!Lives
<1>7. LB!Lives(bc, {}, TableOf(blocks))
  BY SMTT(30), <1>4 DEF LB!Lives
<1> QED BY <1>1, <1>3, <1>4, <1>5, <1>6, <1>7 DEF TableCacheInv, TablesFine, BlocksFine
-----------------------------------------------------------------------------
(***************************************************************************)
(* What the invariant says of the properties.                              *)
(***************************************************************************)
LEMMA UsedIsOpen ==
  ASSUME TableCacheAssumption, TableCacheInv
  PROVE  OpenWhileUsed
<1> SUFFICES ASSUME NEW r \in Readers
             PROVE  LET b == reader[r].block IN
                    /\ reader[r].table # NULL => reader[r].table \in OpenTables
                    /\ b # NULL => b \in LiveBlocks /\ (blocks[b].mapped => blocks[b].table \in OpenTables)
  BY DEF OpenWhileUsed
<1> DEFINE t == reader[r].table
           b == reader[r].block
<1>1. /\ reader[r] \in Reader /\ Consistent(reader[r], opened, blocks, freed)
      /\ NULL \notin Tables /\ NULL \notin Blocks /\ NULL \notin Files
      /\ LT!Lives(tc, TablesIn(opened, reader), opened)
  BY DEF TableCacheInv, ReadersInv, TypeOK, TablesFine, TableCacheAssumption
<1>2. ASSUME t # NULL PROVE t \in OpenTables
  <2>1. t \in Tables /\ opened[t] # NULL
    BY <1>1, <1>2 DEF Consistent, Reader
  <2>2. tc.deleted \subseteq TablesIn(opened, reader)
    BY <1>1 DEF LT!Lives
  <2>3. CASE reader[r].pc = "insert"
    BY <2>1, <2>2, <2>3 DEF OpenTables, TablesIn
  <2>4. CASE reader[r].pc # "insert"
    <3>1. OwnTable(reader[r]) = t
      BY <2>4 DEF OwnTable
    <3>2. t \notin tc.deleted
      BY <2>1, <3>1, HeldOwner, FoundTables
    <3> QED BY <2>1, <3>2 DEF OpenTables
  <2> QED BY <2>3, <2>4
<1>3. ASSUME b # NULL PROVE b \in LiveBlocks /\ blocks[b].table = t /\ t # NULL
  <2>1. /\ b \in Blocks /\ blocks[b] # NULL /\ b \notin freed /\ blocks[b].table = t
        /\ reader[r].pc \in {"cache", "block"} /\ reader[r].cached \in BOOLEAN
    BY <1>1, <1>3 DEF Consistent, Reader
  <2>2. t \in Tables
    BY <1>1, <2>1 DEF Consistent, HasTable
  <2>3. b \notin bc.deleted
    <3>1. CASE reader[r].cached
      <4>1. OwnBlock(reader[r]) = b
        BY <3>1 DEF OwnBlock
      <4> QED BY <2>1, <4>1, HeldOwner, FoundBlocks
    <3>2. CASE ~reader[r].cached
      <4>1. b \notin BlocksIn(blocks, freed, reader)
        BY <1>3, <3>2 DEF BlocksIn, Private
      <4> QED BY <4>1, FoundBlocks
    <3> QED BY <3>1, <3>2
  <2> QED BY <1>1, <2>1, <2>2, <2>3 DEF LiveBlocks
<1> QED BY <1>2, <1>3

LEMMA DeletedIsClosed ==
  ASSUME TableCacheAssumption, TableCacheInv
  PROVE  ClosedBeforeDelete
<1> SUFFICES ASSUME evicted # NULL
             PROVE  /\ \A t \in OpenTables : opened[t] # evicted
                    /\ \A r \in Readers : evicted \notin reader[r].version
  BY DEF ClosedBeforeDelete
<1>1. /\ tc.table[evicted] = NULL /\ \A r \in Readers : evicted \notin reader[r].version
      /\ NULL \notin Tables
      /\ \A r \in Readers : reader[r] \in Reader /\ Consistent(reader[r], opened, blocks, freed)
  BY DEF TableCacheInv, ReadersInv, TypeOK, TablesFine, Leaving, TableCacheAssumption
<1>2. ASSUME NEW r \in Readers, reader[r].table # NULL
      PROVE  opened[reader[r].table] # evicted
  BY <1>1, <1>2 DEF Consistent, HasTable
<1>3. ASSUME NEW t \in OpenTables, opened[t] = evicted
      PROVE  FALSE
  <2>1. t \in Tables /\ opened[t] # NULL /\ t \notin tc.deleted /\ t # NULL
    BY <1>1 DEF OpenTables
  <2>2. CASE t \notin TablesIn(opened, reader)
    BY <1>2, <1>3, <2>1, <2>2 DEF TablesIn
  <2>3. CASE t \in TablesIn(opened, reader)
    <3>1. TablesHeld[t] > 0
      BY <1>1, <1>3, <2>1, <2>3, FoundTables
    <3>2. PICK r \in Readers : OwnTable(reader[r]) = t
      BY <2>1, <3>1, HeldOwner
    <3>3. reader[r].table = t
      BY <2>1, <3>2 DEF OwnTable
    <3> QED BY <1>2, <1>3, <2>1, <3>3
  <2> QED BY <2>2, <2>3
<1> QED BY <1>1, <1>3

LEMMA ClosedIsEmpty ==
  ASSUME TableCacheAssumption, TableCacheInv
  PROVE  NothingLeaks
<1> SUFFICES ASSUME closed PROVE OpenTables = {} /\ LiveBlocks = {}
  BY DEF NothingLeaks
<1>1. /\ tc.cached = {} /\ bc.cached = {} /\ NULL \notin Tables /\ ReadersInv
      /\ \A r \in Readers : reader[r].pc = "idle"
      /\ LT!Good(tc, TablesHeld) /\ opened \in [Tables -> Files \cup {NULL}]
  BY DEF TableCacheInv, ReadersInv, TypeOK, Shut, TablesFine, BlocksFine, TableCacheAssumption
<1>2. \A r \in Readers : reader[r].table = NULL /\ reader[r].block = NULL
  BY <1>1, IdleHoldsNothing
<1>3. (\A t \in Tables : ~(TablesHeld[t] > 0)) /\ \A b \in Blocks : ~(BlocksHeld[b] > 0)
  BY <1>1, IdleHoldsNothing
<1>4. ASSUME NEW t \in OpenTables PROVE FALSE
  <2>1. t \in TablesIn(opened, reader) \ tc.deleted /\ t \in Tables /\ opened[t] \in Files
    BY <1>1, <1>4 DEF OpenTables, TablesIn
  <2>2. tc.table[opened[t]] = t
    BY <1>3, <2>1, FoundTables
  <2>3. t \in tc.cached
    BY <1>1, <2>1, <2>2 DEF LT!Good, LT!Table
  <2> QED BY <1>1, <2>3
<1>5. ASSUME NEW b \in LiveBlocks PROVE FALSE
  <2>1. b \in BlocksIn(blocks, freed, reader) \ bc.deleted /\ b \in Blocks
    BY <1>2, <1>5 DEF LiveBlocks, BlocksIn, Private
  <2> QED BY <1>1, <1>3, <2>1, FoundBlocks
<1> QED BY <1>4, <1>5
-----------------------------------------------------------------------------
(***************************************************************************)
(* The theorems.                                                           *)
(***************************************************************************)
\* The invariant holds in every state.
LEMMA Invariance ==
  ASSUME TableCacheAssumption
  PROVE  Spec => []TableCacheInv
<1>1. Init => TableCacheInv
  BY InitInvariant
<1>2. TableCacheInv /\ [Next]_vars => TableCacheInv'
  BY NextKept, KeptIsInvariant
<1> QED BY <1>1, <1>2, PTL DEF Spec

\* TableCache and Table::BlockReader: the table a reader has is open and its
\* block is not deleted, and the table a mapped block lies in stays open,
\* whatever other readers, evictions and DeleteObsoleteFiles do.
THEOREM NoUseAfterFree ==
  ASSUME TableCacheAssumption
  PROVE  Spec => []OpenWhileUsed
<1>1. TableCacheInv => OpenWhileUsed
  BY UsedIsOpen
<1> QED BY <1>1, Invariance, PTL

\* DeleteObsoleteFiles: when it deletes a table file no table has it open, not
\* even one that another reader was opening, and no reader will open it.
THEOREM NoOpenFileDeleted ==
  ASSUME TableCacheAssumption
  PROVE  Spec => []ClosedBeforeDelete
<1>1. TableCacheInv => ClosedBeforeDelete
  BY DeletedIsClosed
<1> QED BY <1>1, Invariance, PTL

\* ~DBImpl: every table and block that was made has been deleted, those that
\* lost the race of FindTable or BlockReader to insert them included.
THEOREM CloseFreesAll ==
  ASSUME TableCacheAssumption
  PROVE  Spec => []NothingLeaks
<1>1. TableCacheInv => NothingLeaks
  BY ClosedIsEmpty
<1> QED BY <1>1, Invariance, PTL
=============================================================================
