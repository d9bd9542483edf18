----------------------------- MODULE LogFormat ------------------------------
(***************************************************************************)
(* The log format: log::Writer (db/log_writer.cc) and log::Reader          *)
(* (db/log_reader.cc), down to byte offsets in blocks, over a file whose   *)
(* tail may be torn by a crash, that may be appended to afterwards         *)
(* (options.reuse_logs), and one of whose fragments may be damaged.        *)
(*                                                                         *)
(* The file is a sequence of pieces [at, type, rec, from, len, size, bad]: *)
(* the fragment of bytes from .. from+len-1 of record rec, at offset at;   *)
(* size is what is left of it in the file.  The zeros that fill a block    *)
(* are the gap between two pieces.                                         *)
(***************************************************************************)
EXTENDS Integers, Sequences

CONSTANTS kBlockSize, kHeaderSize,
          Lengths,         \* lengths of records
          MaxRecords, MaxAfterReuse,
          Offsets          \* values of initial_offset

kFullType == 1
kFirstType == 2
kMiddleType == 3
kLastType == 4
kEof == 5
kBadRecord == 6

VARIABLES file,      \* [pieces, size]
          block_offset,
          lengths,   \* per record, in the order of AddRecord: its length
          torn,      \* records written before the tail was torn, or -1
          phase,     \* "write" or "read"
          rd         \* the reader

vars == <<file, block_offset, lengths, torn, phase, rd>>
-----------------------------------------------------------------------------
(***************************************************************************)
(* log::Writer.                                                            *)
(***************************************************************************)
TypeOf(begin, end) ==
  IF begin /\ end THEN kFullType ELSE IF begin THEN kFirstType
  ELSE IF end THEN kLastType ELSE kMiddleType

\* The zeros at the end of a block too short for a header: the size of the file
\* and block_offset_ after them.
SkipTrailer(f, offset) ==
  LET leftover == kBlockSize - offset
  IN IF leftover < kHeaderSize THEN [size |-> f.size + leftover, offset |-> 0]
     ELSE [size |-> f.size, offset |-> offset]

\* The loop of AddRecord, from byte from of the record on.
RECURSIVE AddFragments(_, _, _, _, _, _)
AddFragments(f, offset, rec, begin, from, left) ==
  LET s == SkipTrailer(f, offset)
      avail == kBlockSize - s.offset - kHeaderSize
      n == IF left < avail THEN left ELSE avail
      piece == [at |-> s.size, type |-> TypeOf(begin, left = n), rec |-> rec,
                from |-> from, len |-> n, size |-> kHeaderSize + n, bad |-> FALSE]
      g == [pieces |-> Append(f.pieces, piece), size |-> s.size + kHeaderSize + n]
      end == [file |-> g, offset |-> s.offset + kHeaderSize + n]
  IN IF left > n THEN AddFragments(g, end.offset, rec, FALSE, from + n, left - n) ELSE end

AddRecord(len) ==
  /\ phase = "write"
  /\ Len(lengths) < IF torn = -1 THEN MaxRecords ELSE torn + MaxAfterReuse
  /\ \E w \in {AddFragments(file, block_offset, Len(lengths) + 1, TRUE, 0, len)} :
       file' = w.file /\ block_offset' = w.offset
  /\ lengths' = Append(lengths, len)
  /\ UNCHANGED <<torn, phase, rd>>
-----------------------------------------------------------------------------
(***************************************************************************)
(* What happens to the file.                                               *)
(***************************************************************************)
\* The process dies: the file ends in the middle of the last record.
Tear(size) ==
  LET rec == Len(lengths)
      first == {i \in 1..Len(file.pieces) : file.pieces[i].rec = rec /\ file.pieces[i].from = 0}
      kept == {i \in 1..Len(file.pieces) : file.pieces[i].at < size}
      cut(p) == IF p.at + p.size > size THEN [p EXCEPT !.size = size - p.at] ELSE p
  IN /\ phase = "write" /\ torn = -1 /\ size < file.size
     /\ \E i \in first : file.pieces[i].at < size
     /\ file' = [pieces |-> [i \in kept |-> cut(file.pieces[i])], size |-> size]
     /\ torn' = Len(lengths)
     \* Writer(dest, dest_length), when the log is used again
     /\ block_offset' = size % kBlockSize
     /\ UNCHANGED <<lengths, phase, rd>>

\* A fragment is damaged on the disk.
Damage(i) ==
  /\ phase = "write" /\ torn = -1
  /\ \A j \in 1..Len(file.pieces) : ~file.pieces[j].bad
  /\ file' = [file EXCEPT !.pieces[i].bad = TRUE]
  /\ UNCHANGED <<block_offset, lengths, torn, phase, rd>>
-----------------------------------------------------------------------------
(***************************************************************************)
(* log::Reader: [pos, limit, eof, initial_offset, resyncing, fragmented,   *)
(* scratch, out, reported, done].  buffer_ is what lies between pos and    *)
(* limit = end_of_buffer_offset_; scratch and the records returned in out  *)
(* are sequences of pieces.                                                *)
(***************************************************************************)
\* SkipToInitialBlock
StartReading(initial_offset) ==
  LET inBlock == initial_offset % kBlockSize
      trailer == inBlock > kBlockSize - (kHeaderSize - 1)
      start == initial_offset - inBlock + (IF trailer THEN kBlockSize ELSE 0)
  IN /\ phase = "write" /\ phase' = "read"
     /\ initial_offset > 0 => torn = -1 /\ \A j \in 1..Len(file.pieces) : ~file.pieces[j].bad
     /\ rd' = [pos |-> start, limit |-> start, eof |-> FALSE,
               initial_offset |-> initial_offset, resyncing |-> initial_offset > 0,
               fragmented |-> FALSE, scratch |-> <<>>, out |-> <<>>, reported |-> FALSE,
               done |-> FALSE]
     /\ UNCHANGED <<file, block_offset, lengths, torn>>

\* The next block is read into buffer_.
Refill(r) ==
  LET rest == IF file.size > r.limit THEN file.size - r.limit ELSE 0
      n == IF rest < kBlockSize THEN rest ELSE kBlockSize
  IN [r EXCEPT !.pos = r.limit, !.limit = r.limit + n, !.eof = n < kBlockSize]

NoPiece == [rec |-> 0, from |-> 0, len |-> 0]

\* The rest of buffer_ is dropped.
Drop(r, type, report) ==
  [r |-> [r EXCEPT !.pos = r.limit, !.reported = @ \/ report], type |-> type, piece |-> NoPiece]

\* ReadPhysicalRecord: the reader afterwards, the type returned and the piece.
RECURSIVE ReadPhysicalRecord(_)
ReadPhysicalRecord(r) ==
  LET size == r.limit - r.pos
      p == file.pieces[CHOOSE i \in 1..Len(file.pieces) : file.pieces[i].at = r.pos]
      next == [r EXCEPT !.pos = @ + kHeaderSize + p.len]
  IN IF size < kHeaderSize
     THEN IF r.eof THEN Drop(r, kEof, FALSE) ELSE ReadPhysicalRecord(Refill(r))
     ELSE IF p.size >= kHeaderSize /\ kHeaderSize + p.len > size
     THEN IF r.eof THEN Drop(r, kEof, FALSE) ELSE Drop(r, kBadRecord, TRUE)
     \* the checksum of a damaged fragment, or of one that later bytes complete
     ELSE IF p.bad \/ p.size < kHeaderSize + p.len THEN Drop(r, kBadRecord, TRUE)
     ELSE IF r.pos < r.initial_offset THEN [r |-> next, type |-> kBadRecord, piece |-> NoPiece]
     ELSE [r |-> next, type |-> p.type, piece |-> p]

\* A variant that goes on collecting after a bad record.
KeepFragments(r) == r

\* kBadRecord: the record that was being put together is given up.
GiveUp(r) ==
  [r EXCEPT !.fragmented = FALSE, !.scratch = <<>>, !.reported = @ \/ r.fragmented]

\* One iteration of the loop in ReadRecord, with the resynchronisation.
ReadRecord ==
  LET got == ReadPhysicalRecord(rd)
      type == got.type
      sync == rd.resyncing /\ type \in {kMiddleType, kLastType}
      r == [got.r EXCEPT !.resyncing = @ /\ type = kMiddleType]
      \* an earlier writer could leave an empty kFirstType fragment
      lost == r.fragmented /\ \E i \in 1..Len(r.scratch) : r.scratch[i].len > 0
      more == Append(r.scratch, got.piece)
      step == CASE sync -> r
        [] type = kFullType /\ ~sync ->
             [r EXCEPT !.reported = @ \/ lost, !.scratch = <<>>, !.fragmented = FALSE,
                       !.out = Append(@, <<got.piece>>)]
        [] type = kFirstType /\ ~sync ->
             [r EXCEPT !.reported = @ \/ lost, !.scratch = <<got.piece>>, !.fragmented = TRUE]
        [] type = kMiddleType /\ ~sync ->
             IF r.fragmented THEN [r EXCEPT !.scratch = more]
             ELSE [r EXCEPT !.reported = TRUE]
        [] type = kLastType /\ ~sync ->
             IF r.fragmented THEN [r EXCEPT !.out = Append(@, more), !.scratch = <<>>,
                                            !.fragmented = FALSE]
             ELSE [r EXCEPT !.reported = TRUE]
        [] type = kEof -> [r EXCEPT !.done = TRUE]
        [] type = kBadRecord -> GiveUp(r)
  IN /\ phase = "read" /\ ~rd.done
     /\ \E s \in {step} : rd' = s
     /\ UNCHANGED <<file, block_offset, lengths, torn, phase>>

Init ==
  /\ file = [pieces |-> <<>>, size |-> 0] /\ block_offset = 0
  /\ lengths = <<>> /\ torn = -1 /\ phase = "write"
  /\ rd = [done |-> FALSE]

Next ==
  \/ \E len \in Lengths : AddRecord(len)
  \/ \E size \in 1..file.size : Tear(size)
  \/ \E i \in 1..Len(file.pieces) : Damage(i)
  \/ \E offset \in Offsets : StartReading(offset)
  \/ ReadRecord

Spec == Init /\ [][Next]_vars
-----------------------------------------------------------------------------
(***************************************************************************)
(* Properties.                                                             *)
(***************************************************************************)
Pieces(rec) == SelectSeq(file.pieces, LAMBDA p : p.rec = rec)
BlockOf(p) == p.at \div kBlockSize
Spoiled(p) == p.bad \/ p.size < kHeaderSize + p.len

\* All of the record is in the file, at or after initial_offset, and no block
\* has something unreadable before or in a fragment of it.
Readable(rec) ==
  LET ps == Pieces(rec) IN
  /\ Len(ps) > 0 /\ ps[1].at >= rd.initial_offset
  /\ ps[Len(ps)].from + ps[Len(ps)].len = lengths[rec]
  /\ \A i \in 1..Len(ps), j \in 1..Len(file.pieces) :
       LET q == file.pieces[j]
       IN Spoiled(q) => BlockOf(q) # BlockOf(ps[i]) \/ q.at > ps[i].at

RECURSIVE ReadableFrom(_)
ReadableFrom(rec) ==
  IF rec > Len(lengths) THEN <<>>
  ELSE IF Readable(rec) THEN <<Pieces(rec)>> \o ReadableFrom(rec + 1)
  ELSE ReadableFrom(rec + 1)

\* The reader returns exactly the records that survive, each whole and in the
\* order they were added: it stops before a torn tail, gives up what shares a
\* block with damage, and never puts fragments of two records together.  When a
\* crash tears the tail, and nothing is appended to it, recovery sees a clean end
\* of the log ("Don't report a corruption", db/log_reader.cc).
ReadsExactly ==
  phase = "read" =>
    /\ rd.done => rd.out = ReadableFrom(1)
    /\ rd.initial_offset = 0 /\ (torn = -1 \/ torn = Len(lengths))
          /\ (\A j \in 1..Len(file.pieces) : ~file.pieces[j].bad)
        => ~rd.reported

\* A log that is used again returns what was appended to it.
AppendedReadBack ==
  phase = "read" /\ rd.done /\ torn # -1 =>
    \A rec \in (torn + 1)..Len(lengths) : Readable(rec)
=============================================================================
