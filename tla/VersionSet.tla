----------------------------- MODULE VersionSet -----------------------------
(***************************************************************************)
(* The files of the store: internal keys (db/dbformat.h), the files of a   *)
(* version and how they are searched, chosen for a compaction and replaced *)
(* (db/version_set.cc).  Operators only; module LSM gives them a state.    *)
(*                                                                         *)
(* A user key is a number, so that the comparator is the order of numbers; *)
(* a value is not represented, because the sequence number of its entry    *)
(* identifies it.  A table is the sorted sequence of its entries and its   *)
(* size is their number.                                                   *)
(***************************************************************************)
EXTENDS Integers, Sequences, FiniteSets, SequencesExt, FiniteSetsExt

CONSTANTS
  NumKeys,                \* user keys are 1..NumKeys
  kNumLevels,             \* 7 in the code
  kMaxMemCompactLevel,    \* 2 in the code
  kL0_CompactionTrigger,  \* 4 in the code
  kMaxSequenceNumber,     \* above every sequence number in use
  GrandParentFactor,      \* 10 in the code
  ExpandedFactor,         \* 25 in the code
  Level1Size,             \* 10 MB in the code
  LevelFactor             \* 10 in the code

ASSUME LevelAssumption ==
  /\ NumKeys \in Nat \ {0}
  /\ kNumLevels \in Nat /\ kMaxMemCompactLevel \in 0..(kNumLevels - 1)
  /\ kL0_CompactionTrigger \in Nat \ {0}
  /\ GrandParentFactor \in Nat /\ ExpandedFactor \in Nat
  /\ Level1Size \in Nat \ {0} /\ LevelFactor \in Nat \ {0}

Keys == 1..NumKeys
Levels == 0..(kNumLevels - 1)

\* The null begin and the null end of a range: before and after every key.
NullBegin == 0
NullEnd == NumKeys + 1

kTypeDeletion == 0
kTypeValue == 1
kValueTypeForSeek == kTypeValue

\* An entry of a memtable or a table, and a key to seek to.
InternalKey(k, s, t) == [key |-> k, seq |-> s, type |-> t]

\* Sequence number and type packed together; larger tags sort first.
Tag(ik) == 2 * ik.seq + ik.type

\* InternalKeyComparator::Compare(a, b) < 0.
Before(a, b) == \/ a.key < b.key
                \/ a.key = b.key /\ Tag(a) > Tag(b)

\* The elements of S in the order Less: the i-th has i - 1 below it.
SortedBy(S, Less(_, _)) ==
  [i \in 1..Cardinality(S) |->
     CHOOSE e \in S : Cardinality({x \in S : Less(x, e)}) = i - 1]

\* Entries in the order in which every iterator yields them.
Sorted(entries) == SortedBy(entries, Before)

\* MemTable::Get, and a seek in one table: the first entry at or after the
\* lookup key, if it has the user key.
Lookup(entries, k, s) ==
  LET at == {e \in entries : e.key = k /\ Tag(e) <= Tag(InternalKey(k, s, kValueTypeForSeek))}
  IN  {e \in at : \A f \in at : Tag(f) <= Tag(e)}

-----------------------------------------------------------------------------
(* FileMetaData: a number and the sorted entries of the table. *)
FileOf(n, entries) == [number |-> n, entries |-> entries]
Smallest(f) == Head(f.entries)
Largest(f) == Last(f.entries)
FileSize(f) == Len(f.entries)
TotalFileSize(files) ==
  LET Sum[i \in 0..Len(files)] == IF i = 0 THEN 0 ELSE Sum[i - 1] + FileSize(files[i])
  IN  Sum[Len(files)]

\* The index of the first file whose largest key is at or after ik, by binary
\* search; Len(files) + 1 when there is none.
FindFile(files, ik) ==
  LET Index == 1..(Len(files) + 1)
      Search[r \in Index \X Index] ==
        LET mid == (r[1] + r[2]) \div 2
        IN  IF r[1] >= r[2] THEN r[2]
            ELSE IF Before(Largest(files[mid]), ik) THEN Search[<<mid + 1, r[2]>>]
                 ELSE Search[<<r[1], mid>>]
  IN  Search[<<1, Len(files) + 1>>]

AfterFile(k, f) == k > Largest(f).key
BeforeFile(k, f) == k < Smallest(f).key

SomeFileOverlapsRange(disjoint_sorted_files, files, b, e) ==
  IF ~disjoint_sorted_files
  THEN \E i \in DOMAIN files : ~AfterFile(b, files[i]) /\ ~BeforeFile(e, files[i])
  ELSE LET index == IF b = NullBegin THEN 1
                    ELSE FindFile(files, InternalKey(b, kMaxSequenceNumber,
                                                     kValueTypeForSeek))
       IN  index <= Len(files) /\ ~BeforeFile(e, files[index])

OverlapInLevel(v, level, b, e) ==
  SomeFileOverlapsRange(level > 0, v[level], b, e)

\* The files of a level that overlap [b, e].  At level 0, where files may
\* overlap each other, a file that sticks out of the range widens it and the
\* search starts again.
GetOverlappingInputs(v, level, b, e) ==
  LET Overlapping(r) ==
        SelectSeq(v[level], LAMBDA f : ~AfterFile(r[1], f) /\ ~BeforeFile(r[2], f))
      Grow[r \in (NullBegin..NullEnd) \X (NullBegin..NullEnd)] ==
        LET files == ToSet(Overlapping(r))
            wider == << Min({r[1]} \cup {Smallest(f).key : f \in files}),
                        Max({r[2]} \cup {Largest(f).key : f \in files}) >>
        IN  IF level > 0 \/ wider = r THEN r ELSE Grow[wider]
  IN  Overlapping(Grow[<<b, e>>])

-----------------------------------------------------------------------------
(* Limits derived from Options::max_file_size. *)
MaxFileSizeForLevel(options) == options.max_file_size
MaxGrandParentOverlapBytes(options) == GrandParentFactor * options.max_file_size
ExpandedCompactionByteSizeLimit(options) == ExpandedFactor * options.max_file_size
MaxBytesForLevel(level) == Level1Size * LevelFactor ^ (IF level > 1 THEN level - 1 ELSE 0)

\* The level to which a memtable with keys b..e is written.
PickLevelForMemTableOutput(options, v, b, e) ==
  LET Push(level) ==
        /\ ~OverlapInLevel(v, level + 1, b, e)
        /\ level + 2 < kNumLevels =>
             TotalFileSize(GetOverlappingInputs(v, level + 2, b, e))
               <= MaxGrandParentOverlapBytes(options)
  IN  IF OverlapInLevel(v, 0, b, e) THEN 0
      ELSE Min({level \in 0..kMaxMemCompactLevel :
                  level = kMaxMemCompactLevel \/ ~Push(level)})

\* VersionSet::Builder: the version that an edit makes of v.  Files are kept in
\* the order of their smallest key.
ApplyEdit(v, deleted, added) ==
  [level \in Levels |->
     SortedBy({f \in ToSet(v[level]) : <<level, f.number>> \notin deleted}
                    \cup {a[2] : a \in {x \in added : x[1] = level}},
                  LAMBDA f, g : \/ Before(Smallest(f), Smallest(g))
                                \/ Smallest(f) = Smallest(g) /\ f.number < g.number)]

-----------------------------------------------------------------------------
(* Finalize and PickCompaction: what to compact next. *)

\* The score of a level, as numerator and denominator.
Score(v, level) ==
  IF level = 0 THEN <<Len(v[0]), kL0_CompactionTrigger>>
  ELSE <<TotalFileSize(v[level]), MaxBytesForLevel(level)>>

\* compaction_level_: the first of the levels with the best score.
CompactionLevel(v) ==
  Min({l \in 0..(kNumLevels - 2) :
         \A m \in 0..(kNumLevels - 2) :
           Score(v, m)[1] * Score(v, l)[2] <= Score(v, l)[1] * Score(v, m)[2]})

\* compaction_score_ >= 1.
SizeCompaction(v) == LET s == Score(v, CompactionLevel(v)) IN s[1] >= s[2]

\* The user keys that files cover.
GetRange(files) == << Min({Smallest(f).key : f \in files}),
                      Max({Largest(f).key : f \in files}) >>

\* The last internal key of files.
LargestKey(files) ==
  CHOOSE ik \in {Largest(f) : f \in files} : \A f \in files : ~Before(ik, Largest(f))

\* Without the files of the next level.
SetupNoOtherInputs(options, v, level, inputs) ==
  [level |-> level, inputs |-> <<inputs, <<>> >>, input_version |-> v,
   largest |-> LargestKey(ToSet(inputs)), grandparents |-> <<>>]

\* SetupOtherInputs: the files of the next level that the inputs overlap, more
\* files of the level itself when that costs no further file of the next, and
\* the grandparents.
SetupOtherInputs(options, v, level, inputs) ==
  LET Next1(in0) == LET r == GetRange(ToSet(in0))
                    IN  GetOverlappingInputs(v, level + 1, r[1], r[2])
      in1 == Next1(inputs)
      all == GetRange(ToSet(inputs) \cup ToSet(in1))
      expanded0 == GetOverlappingInputs(v, level, all[1], all[2])
      expand == /\ in1 # <<>>
                /\ Len(expanded0) > Len(inputs)
                /\ TotalFileSize(in1) + TotalFileSize(expanded0)
                     < ExpandedCompactionByteSizeLimit(options)
                /\ Len(Next1(expanded0)) = Len(in1)
      in0 == IF expand THEN expanded0 ELSE inputs
      range == GetRange(ToSet(in0) \cup ToSet(in1))
  IN  [level |-> level, inputs |-> <<in0, in1>>, input_version |-> v,
       largest |-> LargestKey(ToSet(in0)),
       grandparents |-> IF level + 2 < kNumLevels
                        THEN GetOverlappingInputs(v, level + 2, range[1], range[2])
                        ELSE <<>>]

\* The inputs of a compaction that is due: at the level with the best score the
\* first file after the compaction pointer, around the end of the key space if
\* need be; otherwise the file that was sought too often.
PickCompaction(options, v, compact_pointer, file_to_compact) ==
  LET size == SizeCompaction(v)
      level == IF size THEN CompactionLevel(v) ELSE file_to_compact.level
      After(f) == compact_pointer[level] = <<>> \/ Before(compact_pointer[level][1], Largest(f))
      after == SelectSeq(v[level], After)
      picked == IF ~size THEN file_to_compact.file
                ELSE IF after # <<>> THEN Head(after) ELSE Head(v[level])
      inputs == IF level = 0
                THEN GetOverlappingInputs(v, 0, Smallest(picked).key, Largest(picked).key)
                ELSE <<picked>>
  IN  SetupOtherInputs(options, v, level, inputs)

\* VersionSet::CompactRange: the inputs of a manual compaction; above level 0 no
\* more files than reach the size of one output.
CompactRangeInputs(options, v, level, b, e) ==
  LET inputs == GetOverlappingInputs(v, level, b, e)
      enough == {i \in DOMAIN inputs :
                   TotalFileSize(SubSeq(inputs, 1, i)) >= MaxFileSizeForLevel(options)}
  IN  IF level > 0 /\ enough # {} THEN SubSeq(inputs, 1, Min(enough)) ELSE inputs

IsTrivialMove(options, c) ==
  /\ Len(c.inputs[1 + 0]) = 1 /\ c.inputs[1 + 1] = <<>>
  /\ TotalFileSize(c.grandparents) <= MaxGrandParentOverlapBytes(options)

-----------------------------------------------------------------------------
(* Version::Get *)

\* The files that a lookup reads, in order: the files of level 0 that cover the
\* key, newest first, then at most one file of each level.
FilesToSearch(v, k, s) ==
  LET Covers(f) == ~AfterFile(k, f) /\ ~BeforeFile(k, f)
      newest == SortedBy({f \in ToSet(v[0]) : Covers(f)},
                             LAMBDA f, g : f.number > g.number)
      InLevel(level) ==
        LET i == FindFile(v[level], InternalKey(k, s, kValueTypeForSeek))
        IN  IF i <= Len(v[level]) /\ ~BeforeFile(k, v[level][i])
            THEN <<[level |-> level, file |-> v[level][i]]>> ELSE <<>>
  IN  [i \in DOMAIN newest |-> [level |-> 0, file |-> newest[i]]]
        \o FlattenSeq([level \in 1..(kNumLevels - 1) |-> InLevel(level)])

\* How many of them are read: up to the first that holds the key.
FilesRead(files, k, s) ==
  Min({Len(files)} \cup
      {i \in DOMAIN files : Lookup(ToSet(files[i].file.entries), k, s) # {}})

\* The entry that the lookup finds, as a set of at most one element.
VersionGet(v, k, s) ==
  LET files == FilesToSearch(v, k, s)
      n == FilesRead(files, k, s)
  IN  IF n = 0 THEN {} ELSE Lookup(ToSet(files[n].file.entries), k, s)

\* GetStats: the first file read, when a second one had to be.
SeekFile(v, k, s) ==
  LET files == FilesToSearch(v, k, s)
  IN  IF FilesRead(files, k, s) > 1 THEN {files[1]} ELSE {}

\* RecordReadSample: the first of at least two files that cover a sampled key.
SampledFile(v, k, s) ==
  LET files == FilesToSearch(v, k, s) IN IF Len(files) > 1 THEN {files[1]} ELSE {}
=============================================================================
