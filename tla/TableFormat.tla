---------------------------- MODULE TableFormat -----------------------------
(***************************************************************************)
(* A table file from its first Add to a lookup in it: BuildTable           *)
(* (db/builder.cc), TableBuilder, FilterBlockBuilder, the separators of    *)
(* the internal key order (db/dbformat.cc), the Bloom filter               *)
(* (util/bloom.cc) and Table::InternalGet.  Any call of the file may fail. *)
(*                                                                         *)
(* An internal key is <<u, s>>, a user key and a sequence number.  A block *)
(* is its keys and its handle (offset and size): its bytes are the matter  *)
(* of Block.  Compression may give a block any size.                       *)
(***************************************************************************)
EXTENDS Comparator, FiniteSets

CONSTANTS Entries,         \* internal keys that may be added
          MaxEntries,
          Probes,          \* user keys that are looked up
          MaxSequence,     \* kMaxSequenceNumber
          kBlockSize,      \* Options::block_size, in bytes of keys
          BlockSizes,      \* sizes of a written block
          kTrailer,        \* kBlockTrailerSize
          kFilterBase,
          HashOf,          \* BloomHash of each user key, in 0..2^kWord - 1
          kWord, kRotate, kProbes, kBitsPerKey, kMinBits

VARIABLES b,               \* the TableBuilder
          file,            \* the blocks in the file, as [keys, offset]
          policy,          \* Options::filter_policy # NULL
          phase

vars == <<b, file, policy, phase>>

None == [offset |-> -1, size |-> -1]

KeyLess(x, y) == Less(x[1], y[1]) \/ (x[1] = y[1] /\ x[2] > y[2])
KeyLeq(x, y) == x = y \/ KeyLess(x, y)

\* InternalKeyComparator::FindShortestSeparator and FindShortSuccessor.
Shortened(key, u) ==
  IF Len(u) < Len(key[1]) /\ Less(key[1], u) THEN <<u, MaxSequence>> ELSE key
Separator(start, limit) == Shortened(start, FindShortestSeparator(start[1], limit[1]))
Successor(key) == Shortened(key, FindShortSuccessor(key[1]))
-----------------------------------------------------------------------------
(***************************************************************************)
(* The Bloom filter: [bits, set], the positions of the bits that are 1.    *)
(***************************************************************************)
Word == 2 ^ kWord
Delta(h) == (h \div 2 ^ kRotate) + ((h * 2 ^ (kWord - kRotate)) % Word)
Positions(u, bits) ==
  {((HashOf[u] + j * Delta(HashOf[u])) % Word) % bits : j \in 0..(kProbes - 1)}

CreateFilter(keys) ==
  LET wanted == Cardinality(keys) * kBitsPerKey
      bits == 8 * (((IF wanted < kMinBits THEN kMinBits ELSE wanted) + 7) \div 8)
  IN [bits |-> bits, set |-> UNION {Positions(u, bits) : u \in keys}]

\* No keys, no filter: it has no bytes and matches nothing.
NoKeys == [bits |-> 0, set |-> {}]
PolicyKeyMayMatch(u, filter) ==
  filter.bits > 0 /\ Positions(u, filter.bits) \subseteq filter.set

(***************************************************************************)
(* FilterBlockBuilder: b.filters, and b.keys, the user keys since the last *)
(* filter (InternalFilterPolicy drops the sequence numbers).               *)
(***************************************************************************)
GenerateFilter(r) ==
  [r EXCEPT !.filters = Append(r.filters, IF r.keys = {} THEN NoKeys ELSE CreateFilter(r.keys)),
            !.keys = {}]

RECURSIVE GenerateUpTo(_, _)
GenerateUpTo(r, index) ==
  IF index > Len(r.filters) THEN GenerateUpTo(GenerateFilter(r), index) ELSE r
StartBlock(r, offset) == IF policy THEN GenerateUpTo(r, offset \div kFilterBase) ELSE r
FinishFilters(r) == IF r.keys = {} THEN r ELSE GenerateFilter(r)

KeyMayMatch(offset, u) ==
  LET index == offset \div kFilterBase
  IN index < Len(b.filters) => PolicyKeyMayMatch(u, b.filters[index + 1])
-----------------------------------------------------------------------------
(***************************************************************************)
(* TableBuilder.  A call of WriteRawBlock comes with the size of its block *)
(* and the first call of the file that fails in it, "none" if all succeed. *)
(* bad is status_, and file is what reached the file.                      *)
(***************************************************************************)
Outcomes == [size : BlockSizes, fails : {"none", "append", "trailer", "flush"}]

RECURSIVE Bytes(_)
Bytes(keys) == IF keys = <<>> THEN 0 ELSE Len(Head(keys)[1]) + 1 + Bytes(Tail(keys))

WriteRawBlock(r, o) ==
  [r EXCEPT !.bad = o.fails \in {"append", "trailer"},
            !.offset = @ + IF o.fails \in {"append", "trailer"} THEN 0 ELSE o.size + kTrailer]

\* A variant: the filter of the next block is started before the block is written.
FlushFilterFirst(r, o) ==
  IF r.bad \/ r.data = <<>> THEN r
  ELSE LET w == [WriteRawBlock(StartBlock(r, r.offset), o) EXCEPT !.data = <<>>]
       IN IF w.bad THEN w
          ELSE [w EXCEPT !.bad = o.fails = "flush",
                         !.pending = [offset |-> r.offset, size |-> o.size]]

\* Flush writes the data block, calls Flush of the file and starts a filter.
Flush(r, o) ==
  IF r.bad \/ r.data = <<>> THEN r
  ELSE LET w == [WriteRawBlock(r, o) EXCEPT !.data = <<>>]
           f == IF w.bad THEN w
                ELSE [w EXCEPT !.bad = o.fails = "flush",
                               !.pending = [offset |-> r.offset, size |-> o.size]]
       IN StartBlock(f, f.offset)

\* What Flush adds to the file: only a block whose trailer was written too.
Flushed(r, o) ==
  IF r.bad \/ r.data = <<>> \/ o.fails \in {"append", "trailer"} THEN {}
  ELSE {[keys |-> r.data, offset |-> r.offset]}

\* The index entry of the block before, once the next key is known.
AddIndex(r, key) ==
  IF r.pending = None THEN r
  ELSE [r EXCEPT !.index = Append(@, [key |-> key, handle |-> r.pending]), !.pending = None]

Added(r, key) ==
  [AddIndex(r, Separator(r.last, key)) EXCEPT
     !.keys = IF policy THEN @ \union {key[1]} ELSE @,
     !.last = key, !.num = @ + 1, !.data = Append(@, key)]

Add(key, o) ==
  /\ phase = "add" /\ b.num < MaxEntries
  /\ b.num > 0 => KeyLess(b.last, key)
  /\ IF b.bad THEN o.fails = "none" /\ UNCHANGED <<b, file>>
     ELSE \E r \in {Added(b, key)} :
            IF Bytes(r.data) >= kBlockSize
            THEN b' = Flush(r, o) /\ file' = file \union Flushed(r, o)
            ELSE o.fails = "none" /\ b' = r /\ file' = file
  /\ UNCHANGED <<policy, phase>>

\* Finish: the last data block, then the filter, metaindex and index blocks and
\* the footer; meta is the outcome of those four writes together.
Finish(o, meta) ==
  /\ phase = "add" /\ b.num > 0
  /\ \E r \in {Flush(b, o)} :
       /\ b' = IF r.bad THEN r
               ELSE [AddIndex(FinishFilters(r), Successor(r.last)) EXCEPT !.bad = ~meta]
       /\ file' = file \union Flushed(b, o)
  /\ phase' = "finished"
  /\ UNCHANGED policy

\* The rest of BuildTable: Sync, Close, and a new iterator, which opens the
\* table; a file with an error is deleted.
BuildTable(ok) ==
  /\ phase = "finished"
  /\ phase' = IF ~b.bad /\ ok THEN "kept" ELSE "deleted"
  /\ file' = IF ~b.bad /\ ok THEN file ELSE {}
  /\ UNCHANGED <<b, policy>>

\* A table may be opened again with another filter policy, or none: ReadMeta finds
\* no filter of that name.
Reopen == phase = "kept" /\ policy /\ policy' = FALSE /\ UNCHANGED <<b, file, phase>>
-----------------------------------------------------------------------------
Init ==
  /\ b = [data |-> <<>>, index |-> <<>>, last |-> <<>>, num |-> 0, offset |-> 0,
          bad |-> FALSE, pending |-> None, filters |-> <<>>, keys |-> {}]
  /\ file = {} /\ policy \in BOOLEAN /\ phase = "add"

Next ==
  \/ \E key \in Entries, o \in Outcomes : Add(key, o)
  \/ \E o \in Outcomes, meta \in BOOLEAN : Finish(o, meta)
  \/ \E ok \in BOOLEAN : BuildTable(ok)
  \/ Reopen

Spec == Init /\ [][Next]_vars
-----------------------------------------------------------------------------
(***************************************************************************)
(* Table::InternalGet: {} or the one entry handed to saver, which ignores  *)
(* an entry of another user key.                                           *)
(***************************************************************************)
FirstAtLeast(keys, k) ==
  {keys[i] : i \in {j \in 1..Len(keys) :
     KeyLeq(k, keys[j]) /\ \A m \in 1..(j - 1) : ~KeyLeq(k, keys[m])}}

IndexSeek(k) ==
  {b.index[i].handle : i \in {j \in 1..Len(b.index) :
     KeyLeq(k, b.index[j].key) /\ \A m \in 1..(j - 1) : ~KeyLeq(k, b.index[m].key)}}

InternalGet(k) ==
  {e \in UNION {FirstAtLeast(block.keys, k) :
      block \in {f \in file : \E h \in IndexSeek(k) :
        f.offset = h.offset /\ (policy => KeyMayMatch(h.offset, k[1]))}} : e[1] = k[1]}

AllKeys == UNION {{f.keys[i] : i \in 1..Len(f.keys)} : f \in file}

\* A table that BuildTable keeps holds every key that was added (however its
\* index keys were shortened, wherever its filters begin, whatever failed), and
\* a lookup at a sequence number finds the newest entry of the key up to it.
TableReadsBack ==
  phase = "kept" =>
    /\ Cardinality(AllKeys) = b.num
    /\ \A u \in Probes, s \in 1..MaxSequence :
         InternalGet(<<u, s>>) =
           {e \in AllKeys : e[1] = u /\ e[2] <= s
                            /\ \A d \in AllKeys : d[1] = u /\ d[2] <= s => d[2] <= e[2]}
=============================================================================
