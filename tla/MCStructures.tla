---------------------------- MODULE MCStructures ----------------------------
(***************************************************************************)
(* Instances of the in-memory parts of the library: one shard of the LRU   *)
(* cache and its hash table, the table cache and the block cache with the  *)
(* readers that use them, the skip list, the iterator of NewIterator, and  *)
(* the objects of the .NET binding.                                        *)
(*                                                                         *)
(* The parts do not interact here.  part says which of them a behaviour is *)
(* about; the variables of the others stay NULL, the cache's stay empty.   *)
(***************************************************************************)
EXTENDS LRUCache, Sequences

VARIABLES part,
          mem, tables, sequence, last, iter, call, inserts, view,
          bound, current, disk, evicted, tc, bc, blocks, freed, opened, reader, closed,
          list, elems, entered,
          next, max_height, writer, scan,
          heap, roots

dbiter == <<mem, tables, sequence, last, iter, call, inserts, view>>
files == <<bound, current, disk, evicted, tc, bc, blocks, freed, opened, reader, closed>>
hashed == <<list, elems, entered>>
skip == <<next, max_height, writer, scan>>
objects == <<heap, roots>>

kMaxHeld == 2       \* references a client keeps to one handle
-----------------------------------------------------------------------------
(***************************************************************************)
(* The inputs of the iterator: kWrites writes over three keys, the first a *)
(* put of the middle one, spread over a memtable and two tables so that a  *)
(* newer write of a key is never below an older one; blocks of one or two  *)
(* entries; a snapshot of all writes or of all but the last; the first     *)
(* block of the second table readable or not.                              *)
(***************************************************************************)
Users == {1, 2, 3}
kWrites == 3

\* Only operators of It that do not depend on its variables are used here.
Make(user, seq, type) == [user |-> user, seq |-> seq, type |-> type]
Earlier(a, b) == a.user < b.user \/ (a.user = b.user /\ a.seq > b.seq)
Sorted(S) ==
  CHOOSE s \in [1..Cardinality(S) -> S] :
    \A i, j \in 1..Cardinality(S) : i < j => Earlier(s[i], s[j])
Cut(s, size) ==
  [b \in 1..((Len(s) + size - 1) \div size) |->
     SubSeq(s, (b - 1) * size + 1, Min({b * size, Len(s)}))]

\* The key of a block in the index: its last key, or a separator after it.
IndexKey(c, b) ==
  LET end == c[b][Len(c[b])]
  IN IF b < Len(c) => end.user + 1 >= c[b + 1][1].user THEN end
     ELSE Make(end.user + 1, 99, 1)
TableOf(S, size, bad) ==
  LET c == Cut(Sorted(S), size)
  IN [b \in DOMAIN c |-> [entries |-> c[b], readable |-> b # bad, index |-> IndexKey(c, b)]]

Histories == {h \in [1..kWrites -> Users \X {0, 1}] : h[1] = <<2, 1>>}
\* 0 is the memtable, which holds the newest writes.
Placements(h) ==
  {p \in [1..kWrites -> 0..2] : \A a, b \in 1..kWrites : a < b =>
     /\ p[b] # 0 => p[a] # 0
     /\ h[a][1] = h[b][1] => p[a] >= p[b]}
At(h, p, level) == {Make(h[s][1], s, h[s][2]) : s \in {w \in 1..kWrites : p[w] = level}}
Shapes == {<<2, 0, kWrites - 1>>, <<1, 1, kWrites>>}
IterInputs ==
  UNION {UNION {
    {[mem |-> At(h, p, 0), last |-> kWrites, sequence |-> x[3],
      tables |-> <<TableOf(At(h, p, 1), x[1], 0), TableOf(At(h, p, 2), x[1], x[2])>>] :
       x \in Shapes} : p \in Placements(h)} : h \in Histories}
-----------------------------------------------------------------------------
It == INSTANCE Iterators WITH Inputs <- IterInputs, MaxInserts <- 1

\* What the iterator stands for: of each key that the writes up to sequence
\* leave with a value, its newest write.
View ==
  LET all == mem \cup UNION {UNION {{tables[t][b].entries[i] : i \in DOMAIN tables[t][b].entries} :
                                      b \in DOMAIN tables[t]} : t \in DOMAIN tables}
      seen(u) == {e \in all : e.user = u /\ e.seq <= sequence}
      top(u) == CHOOSE e \in seen(u) : \A f \in seen(u) : f.seq <= e.seq
      keys == {u \in Users : seen(u) # {} /\ top(u).type = It!kTypeValue}
  IN [u \in keys |-> top(u).seq]

Fi == INSTANCE TableCache WITH
        Readers <- {"r1", "r2"}, Files <- {"f1", "f2"}, TableCapacity <- 1, BlockCapacity <- 1,
        Tables <- 1..3, Blocks <- 1..2,
        Bounds <- {[readers |-> {"r1", "r2"}, tables |-> 2, blocks |-> 1],
                   [readers |-> {"r1"}, tables |-> 3, blocks |-> 2]}
Ha == INSTANCE HandleTable WITH
        Keys <- 0..4, Handles <- 0..6, InitialLength <- 1,
        Hash <- [k \in 0..4 |-> k], KeyOf <- [h \in 0..6 |-> h % 5]
Sk == INSTANCE SkipList WITH Keys <- 1..3, kMaxHeight <- 2, Readers <- {"r1"}, reader <- scan
Ob == INSTANCE NativeObjects WITH
        Iterators <- {"i1", "i2"}, Snapshots <- {"s1"}, ReadOptions <- {"o1"}

\* What the proofs about the table files and the skip list ask of the constants.
ASSUME FilesAssumption == Fi!TableCacheAssumption
ASSUME ListAssumption == Sk!SkipListAssumption
-----------------------------------------------------------------------------
NoIter ==
  /\ mem = NULL /\ tables = NULL /\ sequence = NULL /\ last = NULL
  /\ iter = NULL /\ call = NULL /\ inserts = NULL /\ view = NULL
NoFiles ==
  /\ bound = NULL /\ current = NULL /\ disk = NULL /\ evicted = NULL
  /\ tc = NULL /\ bc = NULL /\ blocks = NULL /\ freed = NULL
  /\ opened = NULL /\ reader = NULL /\ closed = NULL
NoTable == list = NULL /\ elems = NULL /\ entered = NULL
NoSkip == next = NULL /\ max_height = NULL /\ writer = NULL /\ scan = NULL
NoObjects == heap = NULL /\ roots = NULL

MCInit ==
  /\ Init
  /\ \/ part = "lru" /\ NoIter /\ NoFiles /\ NoTable /\ NoSkip /\ NoObjects
     \/ part = "iter" /\ It!Init /\ view = View /\ NoFiles /\ NoTable /\ NoSkip /\ NoObjects
     \/ part = "files" /\ Fi!Init /\ NoIter /\ NoTable /\ NoSkip /\ NoObjects
     \/ part = "hash" /\ Ha!Init /\ NoIter /\ NoFiles /\ NoSkip /\ NoObjects
     \/ part = "skip" /\ Sk!Init /\ NoIter /\ NoFiles /\ NoTable /\ NoObjects
     \/ part = "objects" /\ Ob!Init /\ NoIter /\ NoFiles /\ NoTable /\ NoSkip

MCNext ==
  /\ UNCHANGED part
  /\ \/ /\ part = "lru" /\ Next /\ \A h \in Handles : held'[h] <= kMaxHeld
        /\ UNCHANGED <<dbiter, files, hashed, skip, objects>>
     \/ /\ part = "iter" /\ It!Step
        /\ UNCHANGED <<view, vars, files, hashed, skip, objects>>
     \/ /\ part = "files" /\ Fi!Next
        /\ UNCHANGED <<vars, dbiter, hashed, skip, objects>>
     \/ /\ part = "hash" /\ Ha!Next
        /\ UNCHANGED <<vars, dbiter, files, skip, objects>>
     \/ /\ part = "skip" /\ Sk!Next
        /\ UNCHANGED <<vars, dbiter, files, hashed, objects>>
     \/ /\ part = "objects" /\ Ob!Next
        /\ UNCHANGED <<vars, dbiter, files, hashed, skip>>

MCSpec == MCInit /\ [][MCNext]_<<part, vars, dbiter, files, hashed, skip, objects>>
-----------------------------------------------------------------------------
\* The iterator of DB::NewIterator is the cursor that iterator.h describes, over
\* the database as it was when the iterator was made: every call moves to where
\* the same call of Cursor moves, whatever the calls before it, the writes that
\* go into the memtable meanwhile, and the blocks the entries are spread over;
\* entries are passed over only with an error that status() reports from then on.
C == INSTANCE Cursor WITH Keys <- Users, Nowhere <- NULL,
       at <- IF part = "iter" THEN It!Shown(iter) ELSE NULL,
       failed <- IF part = "iter" THEN It!Failed(iter) ELSE FALSE,
       call <- IF part = "iter" THEN call ELSE It!Made("new", NULL)
ImplementsCursor == C!Spec

\* Nobody uses freed memory or an unmapped file, though the caches evict tables
\* and blocks and compactions delete files while readers have them (table_cache.cc,
\* table.cc, cache.cc).
OpenWhileUsed == part = "files" => Fi!OpenWhileUsed

\* When DeleteObsoleteFiles deletes a table file no table has it open, which
\* Windows would answer with a sharing violation; and no reader will open it.
ClosedBeforeDelete == part = "files" => Fi!ClosedBeforeDelete

\* Readers that race to open a file, errors and evictions leak nothing: when the
\* DB is closed every table and every block it made has been deleted.
NothingLeaks == part = "files" => Fi!NothingLeaks

\* Whatever was inserted, replaced, removed and moved by HandleTable::Resize,
\* Lookup finds the last entry inserted for a key and nothing else.
FindsExactly == part = "hash" => Ha!FindsExactly

\* A read of the skip list that overlaps an Insert, without a lock, misses no key
\* that was there when it began and ends on the right side of its target.
ReadsComplete == part = "skip" => Sk!ReadsComplete

\* However Dispose calls, shared ReadOptions, nested disposal and finalizers of
\* the binding follow each other, no native object is destroyed twice, and
\* DB.Dispose leaves no child of the database behind.
DestroyedOnce == part = "objects" => Ob!DestroyedOnce

\* doc/index.html deletes the cache after the database: what the options refer
\* to is live as long as the native database is.
PartsOutliveDB == part = "objects" => Ob!PartsOutliveDB

\* include/leveldb/db.h: an iterator should be deleted before its database is,
\* whoever closes it, a finalizer included.
ChildrenBeforeDB == part = "objects" => Ob!ChildrenBeforeDB
=============================================================================
