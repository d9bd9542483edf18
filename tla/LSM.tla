--------------------------------- MODULE LSM --------------------------------
(***************************************************************************)
(* Memtables, tables and levels under concurrent writes, reads and         *)
(* background work: the data side of db/db_impl.cc over the operators of   *)
(* VersionSet.  Scheduling, the writer queue and suspension are in module  *)
(* DBImpl; here the background thread runs whenever it has work.           *)
(***************************************************************************)
EXTENDS VersionSet

CONSTANTS
  Configs,         \* values of Options::max_file_size, each with bounds on the
                   \* snapshots that are live at a time, the memtables that
                   \* fill up, the calls of CompactRange and of Get, and the
                   \* file errors
  Batches,         \* the batches of updates <<key, type>> that clients may write
                   \* when the last sequence number is s, for every s that is in
                   \* its domain
  Ranges,          \* the ranges clients ask to compact: <<begin, end>>
  MaxSequence,     \* bound on the sequence numbers in use
  kL0_StopWritesTrigger

VARIABLES
  options,          \* a member of Configs
  last_sequence,    \* VersionSet::last_sequence_
  mem, imm,         \* memtables; imm is <<>> or <<entries>>
  writing,          \* updates that the writer at the head has still to insert
  version,          \* VersionSet::current_
  file_to_compact,  \* Version::file_to_compact_ and its level, or <<>>
  compact_pointer,  \* <<>> or <<internal key>>, for every level
  next_file,        \* VersionSet::next_file_number_
  disk,             \* numbers of the tables in the directory
  pending_outputs,
  snapshots,        \* sequence numbers, oldest first
  compaction,       \* the compaction that is running, or <<>>
  flush,            \* the memtable compaction that is running, or <<>>
  manual,           \* manual_compaction_ # NULL
  client,           \* a call of CompactRange, or <<>>
  bg_error,
  read,             \* a call of Get, or <<>>
  count             \* how often the bounded events have happened

memVars == <<last_sequence, mem, imm, writing>>
fileVars == <<version, file_to_compact, compact_pointer, next_file, disk, pending_outputs>>
bgVars == <<compaction, flush, bg_error>>
vars == <<options, memVars, fileVars, bgVars, snapshots, manual, client, read, count>>

Counted == {"switches", "manual", "gets", "errors"}
Count(what) == /\ count[what] < options[what]
               /\ count' = [count EXCEPT ![what] = @ + 1]

Init ==
  /\ options \in Configs
  /\ last_sequence = 0 /\ mem = {} /\ imm = <<>> /\ writing = <<>>
  /\ version = [level \in Levels |-> <<>>]
  /\ file_to_compact = <<>>
  /\ compact_pointer = [level \in Levels |-> <<>>]
  /\ next_file = 1 /\ disk = {} /\ pending_outputs = {}
  /\ snapshots = <<>>
  /\ compaction = <<>> /\ flush = <<>> /\ bg_error = FALSE
  /\ manual = FALSE /\ client = <<>>
  /\ read = <<>>
  /\ count = [what \in Counted |-> 0]

-----------------------------------------------------------------------------
(* DBImpl::Write.  The head of the queue inserts its batch into mem_ without *)
(* the mutex and publishes the sequence numbers afterwards.                  *)

\* MemTable::Add.  A reader that holds this memtable holds the new entry too.
Add(op, seq, rest) ==
  LET e == InternalKey(op[1], seq, op[2])
  IN  /\ mem' = mem \cup {e}
      /\ writing' = [todo |-> rest, seq |-> seq]
      /\ read' = IF read # <<>> /\ read.mem_current
                 THEN [read EXCEPT !.mem = @ \cup {e}] ELSE read
      /\ UNCHANGED <<options, last_sequence, imm, fileVars, bgVars, snapshots,
                     manual, client, count>>

WriteBegin ==
  /\ writing = <<>> /\ ~bg_error
  /\ last_sequence \in DOMAIN Batches
  /\ \E batch \in Batches[last_sequence] :
       Add(Head(batch), last_sequence + 1, Tail(batch))

WriteMore ==
  /\ writing # <<>> /\ writing.todo # <<>>
  /\ Add(Head(writing.todo), writing.seq + 1, Tail(writing.todo))

SetLastSequence ==
  /\ writing # <<>> /\ writing.todo = <<>>
  /\ last_sequence' = writing.seq
  /\ writing' = <<>>
  /\ UNCHANGED <<options, mem, imm, fileVars, bgVars, snapshots, manual, client,
                 read, count>>

\* MakeRoomForWrite when it replaces the memtable.
SwitchMemTable ==
  /\ writing = <<>> /\ ~bg_error
  /\ imm = <<>>
  /\ Len(version[0]) < kL0_StopWritesTrigger
  /\ imm' = <<mem>>
  /\ mem' = {}
  /\ read' = IF read # <<>> THEN [read EXCEPT !.mem_current = FALSE] ELSE read

\* The memtable is full.
MakeRoomForWrite ==
  /\ SwitchMemTable
  /\ mem # {}
  /\ Count("switches")
  /\ UNCHANGED <<options, last_sequence, writing, fileVars, bgVars, snapshots,
                 manual, client>>

-----------------------------------------------------------------------------
(* DBImpl::Get, GetSnapshot and ReleaseSnapshot. *)

\* The entry for k as of sequence number s.
GetIn(m, i, v, k, s) ==
  LET inMem == Lookup(m, k, s)
      inImm == IF i = <<>> THEN {} ELSE Lookup(i[1], k, s)
  IN  IF inMem # {} THEN inMem ELSE IF inImm # {} THEN inImm ELSE VersionGet(v, k, s)

\* Under the mutex: the snapshot is chosen, and memtables and version are held.
GetBegin ==
  /\ read = <<>>
  /\ Count("gets")
  /\ \E k \in Keys, given \in {<<>>} \cup {<<s>> : s \in ToSet(snapshots)} :
       read' = [key |-> k, snapshot |-> given,
                seq |-> IF given = <<>> THEN last_sequence ELSE given[1],
                mem |-> mem, imm |-> imm, version |-> version,
                mem_current |-> TRUE, version_current |-> TRUE]
  /\ UNCHANGED <<options, memVars, fileVars, bgVars, snapshots, manual, client>>

\* Version::UpdateStats.  Whether the seeks that f was allowed are used up is
\* left open; a file is remembered only in the current version.
UpdateStats(charged, is_current) ==
  \/ UNCHANGED file_to_compact
  \/ /\ is_current /\ file_to_compact = <<>> /\ charged # {}
     /\ file_to_compact' \in charged

\* The search ran without the mutex; its statistics are recorded under it.
GetEnd ==
  /\ read # <<>>
  /\ LET searched == GetIn(read.mem, read.imm, [l \in Levels |-> <<>>], read.key, read.seq) = {}
     IN  UpdateStats(IF searched THEN SeekFile(read.version, read.key, read.seq) ELSE {},
                     read.version_current)
  /\ read' = <<>>
  /\ UNCHANGED <<options, memVars, version, compact_pointer, next_file, disk,
                 pending_outputs, bgVars, snapshots, manual, client, count>>

\* DBImpl::RecordReadSample, called by iterators with a key they pass.
RecordReadSample ==
  /\ file_to_compact = <<>>
  /\ \E k \in Keys : \E s \in 1..last_sequence :
       /\ SampledFile(version, k, s) # {}
       /\ file_to_compact' \in SampledFile(version, k, s)
  /\ Count("gets")
  /\ UNCHANGED <<options, memVars, version, compact_pointer, next_file, disk,
                 pending_outputs, bgVars, snapshots, manual, client, read>>

GetSnapshot ==
  /\ Len(snapshots) < options.snapshots
  /\ snapshots' = Append(snapshots, last_sequence)
  /\ UNCHANGED <<options, memVars, fileVars, bgVars, manual, client, read, count>>

\* A read holds the snapshot it was given.
ReleaseSnapshot ==
  /\ \E i \in DOMAIN snapshots :
       /\ read # <<>> => read.snapshot # <<snapshots[i]>>
       /\ snapshots' = RemoveAt(snapshots, i)
  /\ UNCHANGED <<options, memVars, fileVars, bgVars, manual, client, read, count>>

-----------------------------------------------------------------------------
(* Versions, and the files that they keep alive. *)

Numbers(v) == UNION {{f.number : f \in ToSet(v[level])} : level \in Levels}

\* LogAndApply once the manifest is written: v becomes current.
AppendVersion(v) ==
  /\ version' = v
  /\ file_to_compact' = <<>>
  /\ read' = IF read # <<>> THEN [read EXCEPT !.version_current = FALSE] ELSE read

\* Only the current version counts.
AddCurrentFiles(v, c) == Numbers(v)

\* The files of v, of the versions that readers hold, and of the version that
\* a running compaction holds.
AddLiveFiles(v, c) ==
  Numbers(v) \cup (IF read # <<>> THEN Numbers(read.version) ELSE {})
             \cup (IF c # <<>> THEN Numbers(c.input_version) ELSE {})

\* Nothing is deleted after a background error.
DeleteObsoleteFiles(files, v, c, pending, error) ==
  IF error THEN files ELSE files \cap (AddLiveFiles(v, c) \cup pending)

-----------------------------------------------------------------------------
(* CompactMemTable and WriteLevel0Table. *)

\* The number is taken and the table is written without the mutex.
FlushBegin ==
  /\ flush = <<>> /\ imm # <<>>
  /\ flush' = [number |-> next_file, base |-> version]
  /\ next_file' = next_file + 1
  /\ pending_outputs' = pending_outputs \cup {next_file}
  /\ disk' = IF imm[1] = {} THEN disk ELSE disk \cup {next_file}
  /\ UNCHANGED <<options, memVars, version, file_to_compact, compact_pointer,
                 compaction, bg_error, snapshots, manual, client, read, count>>

\* BackgroundCompaction with an immutable memtable.
CompactMemTable == compaction = <<>> /\ ~bg_error /\ FlushBegin

\* The same in the middle of DoCompactionWork, before the next key is read.
CompactMemTableFirst == compaction # <<>> /\ compaction.input # <<>> /\ FlushBegin

FlushEnd ==
  /\ flush # <<>>
  /\ LET file == FileOf(flush.number, Sorted(imm[1]))
         level == PickLevelForMemTableOutput(options, flush.base, Smallest(file).key,
                                             Largest(file).key)
         v == ApplyEdit(version, {}, IF imm[1] = {} THEN {} ELSE {<<level, file>>})
     IN  /\ AppendVersion(v)
         /\ pending_outputs' = pending_outputs \ {flush.number}
         /\ disk' = DeleteObsoleteFiles(disk, v, compaction, pending_outputs', bg_error)
  /\ imm' = <<>>
  /\ flush' = <<>>
  /\ UNCHANGED <<options, last_sequence, mem, writing, compact_pointer, next_file,
                 compaction, bg_error, snapshots, manual, client, count>>

\* The table cannot be written, and is removed, or the manifest cannot be.
FlushFail ==
  /\ flush # <<>>
  /\ Count("errors")
  /\ bg_error' = TRUE
  /\ disk' \in {disk, disk \ {flush.number}}
  /\ pending_outputs' = pending_outputs \ {flush.number}
  /\ flush' = <<>>
  /\ UNCHANGED <<options, memVars, version, file_to_compact, compact_pointer,
                 next_file, compaction, snapshots, manual, client, read>>

-----------------------------------------------------------------------------
(* BackgroundCompaction with no immutable memtable. *)

BackgroundIdle == compaction = <<>> /\ flush = <<>> /\ imm = <<>> /\ ~bg_error

\* DoCompactionWork up to the loop: the oldest snapshot is read once.
StartCompaction(c) ==
  /\ compaction' =
       c @@
       [smallest_snapshot |-> IF snapshots = <<>> THEN last_sequence ELSE Head(snapshots),
        input |-> Sorted(UNION {ToSet(f.entries) :
                                  f \in ToSet(c.inputs[1]) \cup ToSet(c.inputs[2])}),
        grandparent_index |-> 1, seen_key |-> FALSE, overlapped_bytes |-> 0,
        level_ptrs |-> [level \in Levels |-> 1],
        current_user_key |-> 0, last_sequence_for_key |-> kMaxSequenceNumber,
        outputs |-> <<>>, builder |-> FALSE, is_manual |-> manual]

\* SetupOtherInputs moves the compaction pointer at once.
MoveCompactPointer(c) ==
  compact_pointer' = [compact_pointer EXCEPT ![c.level] = <<c.largest>>]

\* The client's call gives the level and the rest of the range.
ManualInputs == CompactRangeInputs(options, version, client.level, client.begin, client.range[2])

StartManual ==
  /\ BackgroundIdle /\ manual
  /\ ManualInputs # <<>>
  /\ LET c == SetupOtherInputs(options, version, client.level, ManualInputs)
     IN  StartCompaction(c) /\ MoveCompactPointer(c)
  /\ UNCHANGED <<options, memVars, version, file_to_compact, next_file, disk,
                 pending_outputs, flush, bg_error, snapshots, manual, client, read, count>>

\* Nothing is left in the range.
ManualDone ==
  /\ BackgroundIdle /\ manual
  /\ ManualInputs = <<>>
  /\ client' = [client EXCEPT !.done = TRUE]
  /\ manual' = FALSE
  /\ UNCHANGED <<options, memVars, fileVars, bgVars, snapshots, read, count>>

NeedsCompaction == SizeCompaction(version) \/ file_to_compact # <<>>

Picked == PickCompaction(options, version, compact_pointer, file_to_compact)

StartAutomatic ==
  /\ BackgroundIdle /\ ~manual /\ NeedsCompaction
  /\ ~IsTrivialMove(options, Picked)
  /\ StartCompaction(Picked) /\ MoveCompactPointer(Picked)
  /\ UNCHANGED <<options, memVars, version, file_to_compact, next_file, disk,
                 pending_outputs, flush, bg_error, snapshots, manual, client, read, count>>

TrivialMove ==
  /\ BackgroundIdle /\ ~manual /\ NeedsCompaction
  /\ IsTrivialMove(options, Picked)
  /\ LET f == Picked.inputs[1][1]
     IN  AppendVersion(ApplyEdit(version, {<<Picked.level, f.number>>},
                                 {<<Picked.level + 1, f>>}))
  /\ MoveCompactPointer(Picked)
  /\ UNCHANGED <<options, memVars, next_file, disk, pending_outputs, bgVars,
                 snapshots, manual, client, count>>

-----------------------------------------------------------------------------
(* DoCompactionWork: one key of the input. *)

\* ShouldStopBefore: whether the current output covers too many grandparents.
Grandparents(c, ik) ==
  LET passed == {i \in c.grandparent_index..Len(c.grandparents) :
                   \A j \in c.grandparent_index..i : Before(Largest(c.grandparents[j]), ik)}
      bytes == c.overlapped_bytes +
               (IF c.seen_key
                THEN TotalFileSize([i \in 1..Cardinality(passed) |->
                                      c.grandparents[c.grandparent_index + i - 1]])
                ELSE 0)
      stop == bytes > MaxGrandParentOverlapBytes(options)
  IN  [stop |-> stop, index |-> c.grandparent_index + Cardinality(passed),
       bytes |-> IF stop THEN 0 ELSE bytes]

\* IsBaseLevelForKey: no file below the output level covers the key.  The
\* pointers of the levels only move forward.
LevelPtrs(c, k) ==
  [level \in Levels |->
     IF level < c.level + 2 THEN c.level_ptrs[level]
     ELSE Min({i \in c.level_ptrs[level]..(Len(c.input_version[level]) + 1) :
                 i <= Len(c.input_version[level]) =>
                   k <= Largest(c.input_version[level][i]).key})]

CoversAt(c, level, i, k) == /\ i <= Len(c.input_version[level])
                            /\ k >= Smallest(c.input_version[level][i]).key

\* Only the next level is looked at.
IsBaseLevelNextOnly(c, ptrs, k) == TRUE

IsBaseLevelForKey(c, ptrs, k) ==
  \A level \in (c.level + 2)..(kNumLevels - 1) : ~CoversAt(c, level, ptrs[level], k)

\* The loop over the levels returns at the first level that has the key.
MovedPtrs(c, ptrs, k) ==
  [level \in Levels |->
     IF \E l \in (c.level + 2)..(level - 1) : CoversAt(c, l, ptrs[l], k)
     THEN c.level_ptrs[level] ELSE ptrs[level]]

\* An entry is dropped when a newer one hides it from every snapshot, or when it
\* is a deletion that hides nothing.
Hidden(c, last) == last <= c.smallest_snapshot
Obsolete(c, e) == e.type = kTypeDeletion /\ e.seq <= c.smallest_snapshot

\* FinishCompactionOutputFile closes the output, OpenCompactionOutputFile starts one.
CompactKey ==
  /\ compaction # <<>> /\ flush = <<>> /\ compaction.input # <<>>
  /\ LET c == compaction
         e == Head(c.input)
         g == Grandparents(c, e)
         last == IF e.key = c.current_user_key THEN c.last_sequence_for_key
                 ELSE kMaxSequenceNumber
         asked == ~Hidden(c, last) /\ Obsolete(c, e)
         ptrs == LevelPtrs(c, e.key)
         drop == \/ Hidden(c, last)
                 \/ asked /\ IsBaseLevelForKey(c, ptrs, e.key)
         open == c.builder /\ ~g.stop
         outputs == IF drop THEN c.outputs
                    ELSE IF open
                         THEN [c.outputs EXCEPT ![Len(c.outputs)].entries = Append(@, e)]
                         ELSE Append(c.outputs, FileOf(next_file, <<e>>))
         full == FileSize(Last(outputs)) >= MaxFileSizeForLevel(options)
     IN  /\ compaction' =
              [c EXCEPT !.input = Tail(@), !.grandparent_index = g.index,
                        !.seen_key = TRUE, !.overlapped_bytes = g.bytes,
                        !.level_ptrs = IF asked THEN MovedPtrs(c, ptrs, e.key) ELSE @,
                        !.current_user_key = e.key, !.last_sequence_for_key = e.seq,
                        !.outputs = outputs,
                        !.builder = IF drop THEN open ELSE ~full]
         /\ IF drop \/ open THEN UNCHANGED <<next_file, disk, pending_outputs>>
            ELSE /\ next_file' = next_file + 1
                 /\ disk' = disk \cup {next_file}
                 /\ pending_outputs' = pending_outputs \cup {next_file}
  /\ UNCHANGED <<options, memVars, version, file_to_compact, compact_pointer, flush,
                 bg_error, snapshots, manual, client, read, count>>

-----------------------------------------------------------------------------
(* The end of a compaction. *)

\* CleanupCompaction, and what is left of a manual range.
Cleanup(ok) ==
  /\ pending_outputs' = pending_outputs \ {f.number : f \in ToSet(compaction.outputs)}
  /\ compaction' = <<>>
  /\ IF compaction.is_manual
     THEN /\ manual' = FALSE
          /\ client' = [client EXCEPT !.begin = IF ok THEN Largest(Last(compaction.inputs[1])).key
                                                ELSE @,
                                      !.done = ~ok]
     ELSE UNCHANGED <<manual, client>>

InstallCompactionResults ==
  /\ compaction # <<>> /\ flush = <<>> /\ compaction.input = <<>>
  /\ LET c == compaction
         deleted == {<<c.level, f.number>> : f \in ToSet(c.inputs[1])}
                      \cup {<<c.level + 1, f.number>> : f \in ToSet(c.inputs[2])}
         v == ApplyEdit(version, deleted, {<<c.level + 1, f>> : f \in ToSet(c.outputs)})
     IN  /\ AppendVersion(v)
         /\ Cleanup(TRUE)
         /\ disk' = DeleteObsoleteFiles(disk, v, <<>>, pending_outputs', bg_error)
  /\ UNCHANGED <<options, memVars, compact_pointer, next_file, flush, bg_error,
                 snapshots, count>>

\* An output or the manifest cannot be written.
CompactionFail ==
  /\ compaction # <<>> /\ flush = <<>>
  /\ Count("errors")
  /\ bg_error' = TRUE
  /\ Cleanup(FALSE)
  /\ UNCHANGED <<options, memVars, version, file_to_compact, compact_pointer,
                 next_file, disk, flush, snapshots, read>>

-----------------------------------------------------------------------------
(* DBImpl::CompactRange in a client thread. *)

CompactRangeBegin ==
  /\ client = <<>>
  /\ Count("manual")
  /\ \E r \in Ranges :
       LET with_files == {level \in Levels \ {0} : OverlapInLevel(version, level, r[1], r[2])}
       IN  client' = [phase |-> "force", level |-> 0, max |-> Max({1} \cup with_files),
                      range |-> r, begin |-> r[1], done |-> FALSE]
  /\ UNCHANGED <<options, memVars, fileVars, bgVars, snapshots, manual, read>>

\* TEST_CompactMemTable: a forced switch, which an error stops, ...
ForceSwitch ==
  /\ client # <<>> /\ client.phase = "force"
  /\ \/ SwitchMemTable
     \/ bg_error /\ writing = <<>> /\ UNCHANGED <<mem, imm, read>>
  /\ client' = [client EXCEPT !.phase = "wait"]
  /\ UNCHANGED <<options, last_sequence, writing, fileVars, bgVars, snapshots,
                 manual, count>>

\* ... and a wait for the memtable to be written.
AwaitFlush ==
  /\ client # <<>> /\ client.phase = "wait"
  /\ imm = <<>> \/ bg_error
  /\ client' = [client EXCEPT !.phase = "level"]
  /\ UNCHANGED <<options, memVars, fileVars, bgVars, snapshots, manual, read, count>>

\* TEST_CompactRange: hand the rest of the range to the background thread.
RequestManual ==
  /\ client # <<>> /\ client.phase = "level"
  /\ client.level < client.max /\ ~client.done /\ ~bg_error
  /\ ~manual
  /\ manual' = TRUE
  /\ UNCHANGED <<options, memVars, fileVars, bgVars, snapshots, client, read, count>>

\* The level is finished, or an error cancels it.  Cancelling a compaction that is
\* running ends the process; module DBImpl shows how, and it is left out here.
NextLevel ==
  /\ client # <<>> /\ client.phase = "level"
  /\ client.level < client.max /\ (client.done \/ bg_error)
  /\ manual => compaction = <<>>
  /\ client' = [client EXCEPT !.level = @ + 1, !.begin = client.range[1], !.done = FALSE]
  /\ manual' = FALSE
  /\ UNCHANGED <<options, memVars, fileVars, bgVars, snapshots, read, count>>

CompactRangeEnd ==
  /\ client # <<>> /\ client.phase = "level" /\ client.level = client.max
  /\ client' = <<>>
  /\ UNCHANGED <<options, memVars, fileVars, bgVars, snapshots, manual, read, count>>

-----------------------------------------------------------------------------
Next ==
  \/ WriteBegin \/ WriteMore \/ SetLastSequence \/ MakeRoomForWrite
  \/ GetBegin \/ GetEnd \/ RecordReadSample \/ GetSnapshot \/ ReleaseSnapshot
  \/ CompactMemTable \/ CompactMemTableFirst \/ FlushEnd \/ FlushFail
  \/ StartManual \/ ManualDone \/ StartAutomatic \/ TrivialMove
  \/ CompactKey \/ InstallCompactionResults \/ CompactionFail
  \/ CompactRangeBegin \/ ForceSwitch \/ AwaitFlush \/ RequestManual \/ NextLevel
  \/ CompactRangeEnd

Spec == Init /\ [][Next]_vars

-----------------------------------------------------------------------------
(* Properties *)

\* Above level 0 the files of a level are sorted and do not overlap, as
\* Builder::SaveTo requires ("Make sure there is no overlap in levels > 0").
LevelsDisjoint ==
  \A level \in Levels \ {0} : \A i \in 2..Len(version[level]) :
    Before(Largest(version[level][i - 1]), Smallest(version[level][i]))

\* The entries of a key in the order in which a lookup meets their places:
\* memtables, then level 0 from the newest file, then the levels.
Places ==
  LET newest == SortedBy(ToSet(version[0]), LAMBDA f, g : f.number > g.number)
      level(l) == UNION {ToSet(f.entries) : f \in ToSet(version[l])}
  IN  <<mem, IF imm = <<>> THEN {} ELSE imm[1]>>
        \o [i \in DOMAIN newest |-> ToSet(newest[i].entries)]
        \o [l \in 1..(kNumLevels - 1) |-> level(l)]

\* What a lookup meets first is newer: for every key, the entries of a place have
\* larger sequence numbers than those of a later place.  Version::Get relies on it
\* ("if we find data in an smaller level, later levels are irrelevant").
NewerFirst ==
  LET p == Places
  IN  \A i, j \in DOMAIN p : i < j =>
        \A e \in p[i], f \in p[j] : e.key = f.key => e.seq > f.seq

\* DeleteObsoleteFiles never removes a table that the current version, a reader, a
\* compaction or a table under construction still needs.
NeededFilesExist ==
  /\ Numbers(version) \subseteq disk
  /\ read # <<>> => Numbers(read.version) \subseteq disk
  /\ compaction # <<>> => {f.number : f \in ToSet(compaction.inputs[1])
                                           \cup ToSet(compaction.inputs[2])} \subseteq disk
  /\ compaction # <<>> => {f.number : f \in ToSet(compaction.outputs)} \subseteq disk
  /\ flush # <<>> /\ imm[1] # {} => flush.number \in disk

\* The refinement: a client sees the values that the entries found for its
\* sequence number carry.
ValueOf(found) == IF \E e \in found : e.type = kTypeValue
                  THEN (CHOOSE e \in found : TRUE).seq ELSE 0
ViewAt(c, s) == [k \in Keys |-> ValueOf(GetIn(c.mem, c.imm, c.version, k, s))]

\* The part of the state that clients can see, and what they see of it.
Concrete == [mem |-> mem, imm |-> imm, version |-> version, last |-> last_sequence,
             snapshots |-> snapshots, read |-> read]
Abstraction(c) ==
  [db |-> ViewAt(c, c.last),
   views |-> [i \in DOMAIN c.snapshots |-> ViewAt(c, c.snapshots[i])],
   read |-> IF c.read = <<>> THEN <<>>
            ELSE [key |-> c.read.key,
                  val |-> ViewAt(c.read, c.read.seq)[c.read.key]]]
=============================================================================
