----------------------------- MODULE MCFormats ------------------------------
(***************************************************************************)
(* Instances of what the library writes and reads back: log records,       *)
(* blocks, tables, write batches, version edits, and the compression of    *)
(* blocks from zlib_compressor.cc down to the codes and strings of zlib.   *)
(*                                                                         *)
(* The parts do not interact here.  part says which of them a behaviour is *)
(* about; variables that its module does not have stay NULL.               *)
(***************************************************************************)
EXTENDS Integers, Sequences

CONSTANT NULL

VARIABLES part,
          file, block, input, phase,              \* of several parts
          block_offset, lengths, torn, rd,        \* LogFormat
          it, call,                               \* Block
          b, policy,                              \* TableFormat
          rep, ops,                               \* WriteBatch
          edit,                                   \* VersionEdit
          wrap, match, z, buffer, y, output, whole,   \* ZlibCompressor
          trees, bits, got,                       \* Huffman
          level, chunk, s, tokens, t              \* LZ77

log == <<block_offset, lengths, torn, rd>>
iterator == <<it, call>>
table == <<b, policy>>
batch == <<rep, ops>>
stream == <<wrap, match, z, buffer, y, output, whole>>
codes == <<trees, bits, got>>
strings == <<level, chunk, s, tokens, t>>
vars == <<part, file, block, input, phase, log, iterator, table, batch, edit, stream,
          codes, strings>>
-----------------------------------------------------------------------------
\* Blocks of seven bytes, headers of two: records that fill a block exactly,
\* leave less than a header, and span three blocks.
Lo == INSTANCE LogFormat WITH
        kBlockSize <- 7, kHeaderSize <- 2, Lengths <- {0, 1, 3, 4, 9},
        MaxRecords <- 3, MaxAfterReuse <- 1, Offsets <- {0, 1, 6, 7, 8, 13}

\* Up to four keys out of seven that share prefixes, in blocks with one to
\* three keys to a restart point, one of the first two damaged or none.
Universe == << <<>>, <<0>>, <<0, 0>>, <<0, 0, 1>>, <<0, 1>>, <<1>>, <<1, 0>> >>
SortedKeys == {k \in UNION {[1..n -> 1..7] : n \in 0..4} :
                 \A i, j \in DOMAIN k : i < j => k[i] < k[j]}
Bl == INSTANCE Block WITH
        MaxByte <- 1, Nowhere <- NULL,
        Contents <- [keys : SortedKeys, interval : 1..3, bad : 0..2]

\* Keys for which separators and successors are shorter than the keys, with
\* several writes of one key; a hash in which keys collide.
TableKeys == {<< <<0>>, 1>>, << <<0, 2>>, 3>>, << <<0, 2>>, 1>>, << <<0, 3, 3>>, 2>>,
              << <<2>>, 2>>, << <<2, 1>>, 1>>, << <<3, 3>>, 1>>}
TableProbes == {<<>>, <<0>>, <<0, 2>>, <<0, 3>>, <<0, 3, 3>>, <<1>>, <<2>>, <<2, 1>>, <<3>>,
                <<3, 3>>}
BloomHash == [u \in TableProbes |->
                (Len(u) * 5 + (IF Len(u) > 0 THEN u[1] * 7 ELSE 0)
                            + (IF Len(u) > 1 THEN u[2] * 3 ELSE 0)) % 16]
Ta == INSTANCE TableFormat WITH
        MaxByte <- 3, Entries <- TableKeys, MaxEntries <- 4, Probes <- TableProbes,
        MaxSequence <- 3, kBlockSize <- 4, BlockSizes <- {1, 4}, kTrailer <- 1,
        kFilterBase <- 4, HashOf <- BloomHash, kWord <- 4, kRotate <- 2, kProbes <- 2,
        kBitsPerKey <- 2, kMinBits <- 8

\* Varints with four bits to a digit, so that small numbers take one digit or two.
Ba == INSTANCE WriteBatch WITH
        kPayload <- 4, kWidth <- 5, kMaxBytes <- 3, Batches <- {1, 2},
        Strings <- {<<>>, <<0, 1, 1, 0>>}, Starts <- {0, 3}, MaxOps <- 2, MaxBytes <- 16
Ed == INSTANCE VersionEdit WITH
        kPayload <- 4, kWidth <- 5, kMaxBytes <- 3, Names <- {<<0, 1, 1, 0>>},
        Numbers <- {9}, kNumLevels <- 2, MaxItems <- 2

\* Buffers of two and three bytes, that end anywhere in the stream.
Zl == INSTANCE ZlibCompressor WITH
        Inputs <- 0..6, Matches <- 1..3, BUFSIZE <- 3, CHUNK <- 2, kHeader <- 2,
        kTrailer <- 2, kLitBuf <- 2, kMinLookahead <- 2, kWindow <- 4

\* Skewed frequencies, whose codes are longer than limit allows or than the root
\* table of inflate, and runs of equal lengths as long as the run codes and longer.
\* As in the program codes 0 to 2 have no extra bits and no alphabet is shorter.
Zeros(n) == [i \in 1..n |-> 0]
Ones(n) == [i \in 1..n |-> 1]
Skewed ==
  {[lfreq |-> <<f[1], 1, f[2], f[3], f[4]>>, dfreq |-> <<f[3], f[1], 0, f[2]>>,
    lextra |-> <<0, 0, 0, 1, 2>>, dextra |-> <<0, 0, 0, 1>>, end |-> 1, limit |-> 3,
    root |-> r] : f \in [1..4 -> {0, 1, 2, 4, 8}], r \in {1, 2}}
Runs ==
  {[lfreq |-> Ones(a) \o Zeros(n) \o Ones(c) \o Zeros(2),
    dfreq |-> Zeros(d) \o Ones(e) \o Zeros(3),
    lextra |-> Zeros(a + n + c + 2), dextra |-> Zeros(d + e + 3),
    end |-> a + n, limit |-> 5, root |-> 2] :
     a \in {0, 3, 4, 8}, n \in {0, 2, 3, 10, 11, 15}, c \in {1, 2, 5, 7, 8},
     d \in {0, 3}, e \in {0, 1, 7}}
Hu == INSTANCE Huffman WITH
        Blocks <- Skewed \cup Runs, kMaxBits <- 7, kEnough <- 24, kZeroBits <- 2

\* Periodic inputs with one byte changed, three times as long as the window.
Word(w, n, k) ==
  [i \in 1..n |-> LET c == w[((i - 1) % Len(w)) + 1] IN IF i = k THEN 1 - c ELSE c]
Words == {Word(w, n, k) : w \in [1..5 -> {0, 1}], n \in {0, 2, 7, 44}, k \in {4, 9, 22}}
Row(good, slow) == [lazy |-> 4, good |-> good, nice |-> 4, chain |-> 4, slow |-> slow]
Lz == INSTANCE LZ77 WITH
        Inputs <- Words, Levels <- {Row(4, FALSE), Row(3, TRUE)}, Chunks <- {5, 15},
        kMaxMatch <- 4, kWSize <- 13, kHashSize <- 4, kTooFar <- 3
-----------------------------------------------------------------------------
NoLog == block_offset = NULL /\ lengths = NULL /\ torn = NULL /\ rd = NULL
NoIterator == it = NULL /\ call = NULL
NoTable == b = NULL /\ policy = NULL
NoBatch == rep = NULL /\ ops = NULL
NoEdit == edit = NULL
NoStream ==
  /\ wrap = NULL /\ match = NULL /\ z = NULL /\ buffer = NULL
  /\ y = NULL /\ output = NULL /\ whole = NULL
NoCodes == trees = NULL /\ bits = NULL /\ got = NULL
NoStrings == level = NULL /\ chunk = NULL /\ s = NULL /\ tokens = NULL /\ t = NULL

MCInit ==
  \/ /\ part = "log" /\ Lo!Init /\ block = NULL /\ input = NULL
     /\ NoIterator /\ NoTable /\ NoBatch /\ NoEdit /\ NoStream /\ NoCodes /\ NoStrings
  \/ /\ part = "block" /\ Bl!Init /\ file = NULL /\ input = NULL /\ phase = NULL
     /\ NoLog /\ NoTable /\ NoBatch /\ NoEdit /\ NoStream /\ NoCodes /\ NoStrings
  \/ /\ part = "table" /\ Ta!Init /\ block = NULL /\ input = NULL
     /\ NoLog /\ NoIterator /\ NoBatch /\ NoEdit /\ NoStream /\ NoCodes /\ NoStrings
  \/ /\ part = "batch" /\ Ba!Init /\ file = NULL /\ block = NULL /\ input = NULL /\ phase = NULL
     /\ NoLog /\ NoIterator /\ NoTable /\ NoEdit /\ NoStream /\ NoCodes /\ NoStrings
  \/ /\ part = "edit" /\ Ed!Init /\ file = NULL /\ block = NULL /\ input = NULL /\ phase = NULL
     /\ NoLog /\ NoIterator /\ NoTable /\ NoBatch /\ NoStream /\ NoCodes /\ NoStrings
  \/ /\ part = "zlib" /\ Zl!Init /\ file = NULL /\ block = NULL
     /\ NoLog /\ NoIterator /\ NoTable /\ NoBatch /\ NoEdit /\ NoCodes /\ NoStrings
  \/ /\ part = "codes" /\ Hu!Init /\ file = NULL /\ input = NULL
     /\ NoLog /\ NoIterator /\ NoTable /\ NoBatch /\ NoEdit /\ NoStream /\ NoStrings
  \/ /\ part = "strings" /\ Lz!Init /\ file = NULL /\ block = NULL
     /\ NoLog /\ NoIterator /\ NoTable /\ NoBatch /\ NoEdit /\ NoStream /\ NoCodes

Zlib ==
  /\ part = "zlib" /\ Zl!Next
  /\ UNCHANGED <<part, file, block, log, iterator, table, batch, edit, codes, strings>>

MCNext ==
  \/ Zlib
  \/ /\ part = "log" /\ Lo!Next
     /\ UNCHANGED <<part, block, input, iterator, table, batch, edit, stream, codes, strings>>
  \/ /\ part = "block" /\ Bl!Step
     /\ UNCHANGED <<part, file, input, phase, log, table, batch, edit, stream, codes, strings>>
  \/ /\ part = "table" /\ Ta!Next
     /\ UNCHANGED <<part, block, input, log, iterator, batch, edit, stream, codes, strings>>
  \/ /\ part = "batch" /\ Ba!Next
     /\ UNCHANGED <<part, file, block, input, phase, log, iterator, table, edit, stream,
                    codes, strings>>
  \/ /\ part = "edit" /\ Ed!Next
     /\ UNCHANGED <<part, file, block, input, phase, log, iterator, table, batch, stream,
                    codes, strings>>
  \/ /\ part = "codes" /\ Hu!Next
     /\ UNCHANGED <<part, file, input, log, iterator, table, batch, edit, stream, strings>>
  \/ /\ part = "strings" /\ Lz!Next
     /\ UNCHANGED <<part, file, block, log, iterator, table, batch, edit, stream, codes>>

\* compressImpl and inflate are sequential code: they go on until they return.
MCSpec == MCInit /\ [][MCNext]_vars /\ WF_vars(Zlib)
-----------------------------------------------------------------------------
\* The log reader returns exactly the records that survive, each whole and in the
\* order they were added: it stops before a torn tail, gives up what shares a
\* block with damage, never puts fragments of two records together, and reports no
\* corruption where a crash tore the tail.
ReadsExactly == part = "log" => Lo!ReadsExactly

\* include/leveldb/options.h, reuse_logs: appending to an existing log is the same
\* as writing a new one, so that what was appended is read back.
AppendedReadBack == part = "log" => Lo!AppendedReadBack

\* The iterator of block.cc over a block that block_builder.cc made is a cursor
\* over its entries, whatever prefixes they share and wherever the restart
\* points are: it steps over a damaged entry only with an error, and reports no
\* error in a sound block.
C == INSTANCE Cursor WITH
       Keys <- 1..Len(Universe), Nowhere <- NULL,
       view <- IF part = "block" THEN Bl!View ELSE NULL,
       at <- IF part = "block" THEN Bl!Shown ELSE NULL,
       failed <- IF part = "block" THEN Bl!Excused ELSE FALSE,
       call <- IF part = "block" THEN call ELSE Bl!Made("new", NULL)
BlockImplementsCursor == C!Spec

\* A table that BuildTable keeps holds every key that was added, however its
\* index keys were shortened, wherever its filters begin, whatever failed, and a
\* lookup at a sequence number finds the newest entry of the key up to it.
TableReadsBack == part = "table" => Ta!TableReadsBack

\* WriteBatchInternal::InsertInto applies exactly the updates asked for, in their
\* order, at consecutive sequence numbers, as many as Write adds to the last
\* sequence; and a batch that was cut anywhere is reported.
BatchAppliedExactly == part = "batch" => Ba!BatchAppliedExactly

\* What VersionEdit::EncodeTo writes is the edit that DecodeFrom reads; and a
\* part of it is reported or is an edit that says less.
EditReadBack == part = "edit" => Ed!EditReadBack

\* A block that decompress accepts is the block that was compressed, wherever the
\* ends of the buffers of zlib_compressor.cc fall; a whole one is accepted; and
\* no assert of compressImpl fails.
DecompressExact == part = "zlib" => Zl!DecompressExact

\* The loops of compressImpl and inflate end, on any input.
LoopsEnd == <>(part = "zlib" => phase \in {"read", "failed"})

\* Every block of deflate is one inflate understands: the header is accepted, none
\* of its bits is left over, and every symbol is decoded through the tables of
\* inflate_table, whatever follows it; and opt_len is the number of its bits.
CodesReadBack == part = "codes" => Hu!CodesReadBack

\* Every string deflate tallies is a copy of the input within reach of a decoder's
\* window, and inflate writes the input again, byte by byte and however small its
\* output buffer is, out of its circular window.
OutputExact == part = "strings" => Lz!OutputExact
=============================================================================
