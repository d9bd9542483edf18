----------------------------- MODULE Iterators ------------------------------
(***************************************************************************)
(* The iterator DB::NewIterator returns: DBIter (db/db_iter.cc) over       *)
(* MergingIterator (table/merger.cc) over a memtable iterator and          *)
(* TwoLevelIterators (table/two_level_iterator.cc), while a writer goes on *)
(* inserting into that memtable.                                           *)
(*                                                                         *)
(* An entry is an internal key [user, seq, type]; its value is identified  *)
(* by seq.  A table is a sequence of blocks [entries, index, readable]:    *)
(* index is the key of the block in the index block, and a block that is   *)
(* not readable gives an error iterator.  Positions are 1-based; 0 stands  *)
(* for an iterator that is not Valid(), block 0 for data_iter_ = NULL.     *)
(***************************************************************************)
EXTENDS Integers, Sequences

CONSTANTS Users,        \* user keys, integers in the order of the comparator
          NULL,         \* no node, no saved key, no current child
          Inputs,       \* possible [mem, tables, sequence, last] when the iterator is made
          MaxInserts    \* writes while the iterator is in use

VARIABLES mem,       \* entries of the memtable the iterator refers to
          tables,    \* the tables of the version it refers to
          sequence,  \* sequence_
          last,      \* the last sequence number given to a write
          iter,      \* the DBIter and everything below it
          call,      \* the client's last call, [op, key]
          inserts    \* writes left

vars == <<mem, tables, sequence, last, iter, call, inserts>>

Made(op, key) == [op |-> op, key |-> key]

kTypeDeletion == 0
kTypeValue == 1

Entry(user, seq, type) == [user |-> user, seq |-> seq, type |-> type]

\* InternalKeyComparator: increasing user keys, decreasing sequence numbers.
Before(a, b) ==
  a.user < b.user \/ (a.user = b.user /\ a.seq > b.seq)

LeastOf(S) == IF S = {} THEN NULL ELSE CHOOSE e \in S : \A f \in S \ {e} : Before(e, f)
GreatestOf(S) == IF S = {} THEN NULL ELSE CHOOSE e \in S : \A f \in S \ {e} : Before(f, e)
-----------------------------------------------------------------------------
(***************************************************************************)
(* MemTableIterator: a node of the skip list, which may grow meanwhile.    *)
(***************************************************************************)
MemAt(c, node) == [c EXCEPT !.node = node]
MemSeek(c, target) == MemAt(c, LeastOf({e \in mem : ~Before(e, target)}))
MemNext(c) == MemAt(c, LeastOf({e \in mem : Before(c.node, e)}))
MemPrev(c) == MemAt(c, GreatestOf({e \in mem : Before(e, c.node)}))
-----------------------------------------------------------------------------
(***************************************************************************)
(* TwoLevelIterator: [kind, table, index, block, pos, error], where error  *)
(* is !status_.ok().                                                       *)
(***************************************************************************)
Blocks(c) == tables[c.table]
Data(c) == IF c.block = 0 \/ ~Blocks(c)[c.block].readable THEN <<>>
           ELSE Blocks(c)[c.block].entries
DataBad(c) == c.block # 0 /\ ~Blocks(c)[c.block].readable

\* Position p of a sequence of length n, or not valid.
Within(p, n) == IF p \in 1..n THEN p ELSE 0
\* The first position whose key is not before target.
FirstAtLeast(keys, target) ==
  LET at == {p \in 1..Len(keys) : ~Before(keys[p], target)}
  IN IF at = {} THEN 0 ELSE CHOOSE p \in at : \A q \in at : p <= q

\* SetDataIterator saves the error of the iterator it replaces.
SetDataIterator(c, block) ==
  [c EXCEPT !.error = @ \/ DataBad(c), !.block = block, !.pos = 0]

\* A data iterator of the same block is kept, with its position.
InitDataBlock(c) ==
  IF c.index # 0 /\ c.block = c.index THEN c ELSE SetDataIterator(c, c.index)

DataFirst(c) == [c EXCEPT !.pos = Within(1, Len(Data(c)))]
DataLast(c) == [c EXCEPT !.pos = Len(Data(c))]
IndexMove(c, to) == [c EXCEPT !.index = Within(to, Len(Blocks(c)))]

RECURSIVE SkipEmptyDataBlocksForward(_), SkipEmptyDataBlocksBackward(_)
SkipEmptyDataBlocksForward(c) ==
  IF c.pos # 0 THEN c
  ELSE IF c.index = 0 THEN SetDataIterator(c, 0)
  ELSE SkipEmptyDataBlocksForward(DataFirst(InitDataBlock(IndexMove(c, c.index + 1))))
SkipEmptyDataBlocksBackward(c) ==
  IF c.pos # 0 THEN c
  ELSE IF c.index = 0 THEN SetDataIterator(c, 0)
  ELSE SkipEmptyDataBlocksBackward(DataLast(InitDataBlock(IndexMove(c, c.index - 1))))

IndexKeys(c) == [b \in 1..Len(Blocks(c)) |-> Blocks(c)[b].index]

TwoSeek(c, target) ==
  LET d == InitDataBlock(IndexMove(c, FirstAtLeast(IndexKeys(c), target)))
  IN SkipEmptyDataBlocksForward([d EXCEPT !.pos = FirstAtLeast(Data(d), target)])
TwoSeekToFirst(c) ==
  SkipEmptyDataBlocksForward(DataFirst(InitDataBlock(IndexMove(c, 1))))
TwoSeekToLast(c) ==
  SkipEmptyDataBlocksBackward(DataLast(InitDataBlock(IndexMove(c, Len(Blocks(c))))))
TwoNext(c) ==
  SkipEmptyDataBlocksForward([c EXCEPT !.pos = Within(@ + 1, Len(Data(c)))])
TwoPrev(c) ==
  SkipEmptyDataBlocksBackward([c EXCEPT !.pos = @ - 1])
-----------------------------------------------------------------------------
(***************************************************************************)
(* A child of the MergingIterator.  IteratorWrapper caches Valid() and     *)
(* key(): both stay what they were until the child moves, so the cache is  *)
(* not a separate piece of state.                                          *)
(***************************************************************************)
Valid(c) == IF c.kind = "mem" THEN c.node # NULL ELSE c.pos # 0
Key(c) == IF c.kind = "mem" THEN c.node ELSE Data(c)[c.pos]
Bad(c) == c.kind = "table" /\ (c.error \/ DataBad(c))

ChildSeek(c, target) == IF c.kind = "mem" THEN MemSeek(c, target) ELSE TwoSeek(c, target)
ChildSeekToFirst(c) == IF c.kind = "mem" THEN MemAt(c, LeastOf(mem)) ELSE TwoSeekToFirst(c)
ChildSeekToLast(c) == IF c.kind = "mem" THEN MemAt(c, GreatestOf(mem)) ELSE TwoSeekToLast(c)
ChildNext(c) == IF c.kind = "mem" THEN MemNext(c) ELSE TwoNext(c)
ChildPrev(c) == IF c.kind = "mem" THEN MemPrev(c) ELSE TwoPrev(c)
-----------------------------------------------------------------------------
(***************************************************************************)
(* MergingIterator: [children, current, dir].                              *)
(***************************************************************************)
Live(m) == {i \in DOMAIN m.children : Valid(m.children[i])}
MKey(m) == Key(m.children[m.current])

\* Of children with equal keys FindSmallest takes the first, FindLargest the last.
Precedes(m, i, j) ==
  LET a == Key(m.children[i])  b == Key(m.children[j])
  IN Before(a, b) \/ (a = b /\ i <= j)
FindSmallest(m) ==
  [m EXCEPT !.current = IF Live(m) = {} THEN NULL
                        ELSE CHOOSE i \in Live(m) : \A j \in Live(m) : Precedes(m, i, j)]
FindLargest(m) ==
  [m EXCEPT !.current = IF Live(m) = {} THEN NULL
                        ELSE CHOOSE i \in Live(m) : \A j \in Live(m) : Precedes(m, j, i)]

All(m, Op(_)) == [m EXCEPT !.children = [i \in DOMAIN @ |-> Op(@[i])]]
Others(m, Op(_)) ==
  [m EXCEPT !.children = [i \in DOMAIN @ |-> IF i = m.current THEN @[i] ELSE Op(@[i])]]
Current(m, Op(_)) == [m EXCEPT !.children[m.current] = Op(@)]

MSeekToFirst(m) == [FindSmallest(All(m, ChildSeekToFirst)) EXCEPT !.dir = "forward"]
MSeekToLast(m) == [FindLargest(All(m, ChildSeekToLast)) EXCEPT !.dir = "reverse"]
MSeek(m, target) ==
  LET Op(c) == ChildSeek(c, target)
  IN [FindSmallest(All(m, Op)) EXCEPT !.dir = "forward"]

\* The children other than current_, put after key() for a change to Next.
AfterKey(c, key) ==
  LET d == ChildSeek(c, key)
  IN IF Valid(d) /\ Key(d) = key THEN ChildNext(d) ELSE d

\* A variant that leaves a child without entries >= key() where it is.
BeforeKeyNoLast(c, key) ==
  LET d == ChildSeek(c, key) IN IF Valid(d) THEN ChildPrev(d) ELSE d

\* The children other than current_, put before key() for a change to Prev.
BeforeKey(c, key) ==
  LET d == ChildSeek(c, key) IN IF Valid(d) THEN ChildPrev(d) ELSE ChildSeekToLast(d)

MNext(m) ==
  LET Op(c) == AfterKey(c, MKey(m))
      n == IF m.dir = "forward" THEN m ELSE [Others(m, Op) EXCEPT !.dir = "forward"]
  IN FindSmallest(Current(n, ChildNext))
MPrev(m) ==
  LET Op(c) == BeforeKey(c, MKey(m))
      n == IF m.dir = "reverse" THEN m ELSE [Others(m, Op) EXCEPT !.dir = "reverse"]
  IN FindLargest(Current(n, ChildPrev))
MValid(m) == m.current # NULL
MBad(m) == \E i \in DOMAIN m.children : Bad(m.children[i])
-----------------------------------------------------------------------------
(***************************************************************************)
(* DBIter: [m, dir, valid, key, value], key and value being saved_key_ and *)
(* saved_value_.                                                           *)
(***************************************************************************)
Visible(m) == MKey(m).seq <= sequence
End(it) == [it EXCEPT !.valid = FALSE, !.key = NULL]

\* One entry of FindNextUserEntry: the key to skip from here on, or acceptance.
RECURSIVE FindNextUserEntry(_, _)
FindNextUserEntry(it, skip) ==
  LET e == MKey(it.m)
      seen == Visible(it.m)
      hides == seen /\ e.type = kTypeDeletion
      next == [it EXCEPT !.m = MNext(@)]
      skip2 == IF hides THEN e.user ELSE skip
  IN IF seen /\ e.type = kTypeValue /\ (skip = NULL \/ e.user > skip)
     THEN [it EXCEPT !.valid = TRUE, !.key = NULL]
     ELSE IF MValid(next.m) THEN FindNextUserEntry(next, skip2)
     ELSE End(next)

\* type is value_type: the last visible entry of the key that is being saved.
RECURSIVE FindPrevUserEntry(_, _)
FindPrevUserEntry(it, type) ==
  LET e == MKey(it.m)
      saved == IF ~Visible(it.m) THEN it
               ELSE IF e.type = kTypeDeletion THEN [it EXCEPT !.key = NULL, !.value = NULL]
               ELSE [it EXCEPT !.key = e.user, !.value = e.seq]
      type2 == IF Visible(it.m) THEN e.type ELSE type
  IN IF ~MValid(it.m) \/ (Visible(it.m) /\ type # kTypeDeletion /\ e.user < it.key)
     THEN IF type = kTypeDeletion
          THEN [End(it) EXCEPT !.value = NULL, !.dir = "forward"]
          ELSE [it EXCEPT !.valid = TRUE]
     ELSE FindPrevUserEntry([saved EXCEPT !.m = MPrev(@)], type2)

\* Next, after a reverse move too: iter_ is then just before the key's entries.
DBNext(it) ==
  LET m == IF it.dir = "forward" THEN it.m
           ELSE IF MValid(it.m) THEN MNext(it.m) ELSE MSeekToFirst(it.m)
      skip == IF it.dir = "forward" THEN MKey(it.m).user ELSE it.key
      next == [it EXCEPT !.dir = "forward", !.m = m]
  IN IF MValid(m) THEN FindNextUserEntry(next, skip) ELSE End(next)

\* The entries of the current key are passed before the reverse scan starts.
RECURSIVE BackOverKey(_, _)
BackOverKey(m, user) ==
  LET p == MPrev(m)
  IN IF ~MValid(p) \/ MKey(p).user < user THEN p ELSE BackOverKey(p, user)

DBPrev(it) ==
  LET user == MKey(it.m).user
      m == BackOverKey(it.m, user)
      back == [it EXCEPT !.m = m, !.key = user]
  IN IF it.dir = "reverse" THEN FindPrevUserEntry(it, kTypeDeletion)
     ELSE IF ~MValid(m) THEN [End(back) EXCEPT !.value = NULL]
     ELSE FindPrevUserEntry([back EXCEPT !.dir = "reverse"], kTypeDeletion)

Forward(it, m) ==
  LET at == [it EXCEPT !.dir = "forward", !.value = NULL, !.m = m]
  IN IF MValid(m) THEN FindNextUserEntry(at, NULL) ELSE [at EXCEPT !.valid = FALSE]

DBSeek(it, user) == Forward(it, MSeek(it.m, Entry(user, sequence, kTypeValue)))
DBSeekToFirst(it) == Forward(it, MSeekToFirst(it.m))
DBSeekToLast(it) ==
  FindPrevUserEntry([it EXCEPT !.dir = "reverse", !.value = NULL, !.m = MSeekToLast(@)],
                    kTypeDeletion)
-----------------------------------------------------------------------------
(***************************************************************************)
(* The client's calls, and a write into the memtable between two of them.  *)
(***************************************************************************)
TableChild(t) ==
  [kind |-> "table", table |-> t, index |-> 0, block |-> 0, pos |-> 0, error |-> FALSE]

\* NewInternalIterator: the memtable first, then the tables.
NewDBIterator(n) ==
  [m |-> [children |-> [i \in 1..(n + 1) |-> IF i = 1 THEN [kind |-> "mem", node |-> NULL]
                                             ELSE TableChild(i - 1)],
          current |-> NULL, dir |-> "forward"],
   dir |-> "forward", valid |-> FALSE, key |-> NULL, value |-> NULL]

Init ==
  /\ \E in \in Inputs :
       /\ mem = in.mem /\ tables = in.tables
       /\ sequence = in.sequence /\ last = in.last
  /\ iter = NewDBIterator(Len(tables))
  /\ call = Made("new", NULL)
  /\ inserts = MaxInserts

Call(made, moved) ==
  /\ \E it \in {moved} : iter' = it
  /\ call' = made
  /\ UNCHANGED <<mem, tables, sequence, last, inserts>>

SeekToFirst == Call(Made("first", NULL), DBSeekToFirst(iter))
SeekToLast == Call(Made("last", NULL), DBSeekToLast(iter))
Seek(user) == Call(Made("seek", user), DBSeek(iter, user))
Next == iter.valid /\ Call(Made("next", NULL), DBNext(iter))
Prev == iter.valid /\ Call(Made("prev", NULL), DBPrev(iter))

\* MemTable::Add by a writer that came after the iterator.
Insert(user, type) ==
  /\ inserts > 0
  /\ last' = last + 1
  /\ mem' = mem \cup {Entry(user, last', type)}
  /\ inserts' = inserts - 1
  /\ UNCHANGED <<tables, sequence, iter, call>>

Step ==
  \/ SeekToFirst \/ SeekToLast \/ Next \/ Prev
  \/ \E user \in Users : Seek(user)
  \/ \E user \in Users, type \in {kTypeDeletion, kTypeValue} : Insert(user, type)

Spec == Init /\ [][Step]_vars
-----------------------------------------------------------------------------
(***************************************************************************)
(* What the client sees: key(), value() and status().                      *)
(***************************************************************************)
Shown(it) ==
  IF ~it.valid THEN NULL
  ELSE IF it.dir = "forward" THEN <<MKey(it.m).user, MKey(it.m).seq>>
  ELSE <<it.key, it.value>>
Failed(it) == MBad(it.m)
=============================================================================
