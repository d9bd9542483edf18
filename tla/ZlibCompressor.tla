--------------------------- MODULE ZlibCompressor ---------------------------
(***************************************************************************)
(* db/zlib_compressor.cc over the deflate and inflate calls of zlib: a     *)
(* block is compressed through a buffer of BUFSIZE bytes and decompressed  *)
(* through one of CHUNK bytes, one call of zlib per step.  In between the  *)
(* compressed bytes may be cut, or one of them changed.                    *)
(*                                                                         *)
(* zlib's coding is abstract: a compressed byte is part of the header, the *)
(* beginning of a block, a string of the input (a literal or a match), the *)
(* end of a block, or part of the check value, which is the whole input.   *)
(* What is kept is when deflate and inflate return, with what, and what    *)
(* they hold back until the next call.                                     *)
(***************************************************************************)
EXTENDS Integers, Sequences

CONSTANTS Inputs,          \* lengths of a block
          Matches,         \* lengths of the strings that are found in it
          BUFSIZE, CHUNK,
          kHeader, kTrailer,   \* bytes
          kLitBuf,         \* lit_bufsize - 1, the strings of a block
          kMinLookahead, kWindow

VARIABLES input, wrap, match,
          z,               \* the deflate stream
          buffer,          \* compressed output
          y,               \* the inflate stream
          output, phase,
          whole            \* the compressed bytes are read as they were written

vars == <<input, wrap, match, z, buffer, y, output, phase, whole>>

Least(a, b) == IF a < b THEN a ELSE b
Drop(s, n) == SubSeq(s, n + 1, Len(s))
Byte(kind, last, data) == [kind |-> kind, last |-> last, data |-> data]
-----------------------------------------------------------------------------
(***************************************************************************)
(* deflate: in is what next_in points at, look the lookahead, tally the    *)
(* strings of the block so far, pending the pending buffer, temp and room  *)
(* the output buffer and avail_out.                                        *)
(***************************************************************************)
FlushPending(s) ==
  LET n == Least(Len(s.pending), s.room)
  IN [s EXCEPT !.temp = @ \o SubSeq(s.pending, 1, n), !.room = @ - n,
               !.pending = Drop(@, n)]

\* _tr_flush_block and flush_pending
FlushBlock(s, last) ==
  FlushPending([s EXCEPT !.tally = <<>>,
    !.pending = @ \o <<Byte("type", last, <<>>)>> \o s.tally \o <<Byte("end", last, <<>>)>>])

\* fill_window reads as much as there is room for.
FillWindow(s) ==
  LET n == Least(Len(s.in), kWindow - Len(s.look))
  IN IF Len(s.look) >= kMinLookahead THEN s
     ELSE [s EXCEPT !.look = @ \o SubSeq(s.in, 1, n), !.in = Drop(@, n)]

Tally(s) ==
  LET n == Least(match, Len(s.look))
  IN [s EXCEPT !.tally = Append(@, Byte("lit", FALSE, SubSeq(s.look, 1, n))),
               !.look = Drop(@, n)]

\* One turn of the loop of deflate_slow; "again" if it goes on.
SlowTurn(w, flush) ==
  LET t == Tally(w)
      f == IF Len(t.tally) = kLitBuf THEN FlushBlock(t, FALSE) ELSE t
      end == FlushBlock(w, TRUE)
  IN CASE Len(w.look) < kMinLookahead /\ flush = "no" -> [s |-> w, state |-> "need_more"]
       [] w.look = <<>> /\ flush # "no" ->
            [s |-> end, state |-> IF end.room = 0 THEN "finish_started" ELSE "finish_done"]
       [] OTHER -> [s |-> f, state |-> IF f.room = 0 THEN "need_more" ELSE "again"]

RECURSIVE DeflateSlow(_, _)
DeflateSlow(s, flush) ==
  CHOOSE r \in {IF d.state = "again" THEN DeflateSlow(d.s, flush) ELSE d :
                 d \in {SlowTurn(w, flush) : w \in {FillWindow(s)}}} : TRUE

Ret(s, ret) == [s |-> s, ret |-> ret]

\* The trailer is written once, and the rest of it at the next calls.
WriteTrailer(s) ==
  LET t == FlushPending([s EXCEPT !.trailed = TRUE, !.pending =
             @ \o [i \in 1..kTrailer |-> Byte("check", FALSE, input)]])
  IN IF wrap = 0 \/ s.trailed THEN Ret(s, "end")
     ELSE Ret(t, IF t.pending # <<>> THEN "ok" ELSE "end")

\* A variant that takes the end of the last block for the end of the stream, and
\* does not wait until its bytes are written.
CompressEarlyEnd(s, flush) ==
  LET d == DeflateSlow(s, flush)
      r == [d.s EXCEPT !.status = IF d.state = "need_more" THEN @ ELSE "finish"]
  IN IF s.in = <<>> /\ s.look = <<>> /\ (flush = "no" \/ s.status = "finish")
     THEN IF flush = "no" THEN Ret(s, "ok") ELSE WriteTrailer(s)
     ELSE IF d.state = "need_more" THEN Ret(r, "ok") ELSE WriteTrailer(r)

\* The last part of deflate: a block, then the trailer.
Compress(s, flush) ==
  LET d == DeflateSlow(s, flush)
      r == [d.s EXCEPT !.status = IF d.state = "need_more" THEN @ ELSE "finish"]
  IN IF s.in = <<>> /\ s.look = <<>> /\ (flush = "no" \/ s.status = "finish")
     THEN IF flush = "no" THEN Ret(s, "ok") ELSE WriteTrailer(s)
     ELSE IF d.state \in {"need_more", "finish_started"} THEN Ret(r, "ok")
     ELSE WriteTrailer(r)

WriteHeader(s) ==
  IF s.status # "init" THEN s
  ELSE FlushPending([s EXCEPT !.status = "busy", !.pending =
         [i \in 1..kHeader |-> Byte("head", FALSE, <<>>)]])

Deflate(s, flush) ==
  LET f == FlushPending(s)
      h == WriteHeader(f)
  IN IF s.room = 0 THEN Ret(s, "error")
     ELSE IF s.pending # <<>> /\ f.room = 0 THEN Ret(f, "ok")
     ELSE IF s.status = "finish" /\ (s.in # <<>> \/ flush = "no") THEN Ret(s, "error")
     ELSE IF s.status = "init" /\ h.pending # <<>> THEN Ret(h, "ok")
     ELSE Compress(h, flush)
-----------------------------------------------------------------------------
(***************************************************************************)
(* inflate: have is what next_in points at, n the bytes in the bit buffer, *)
(* hold a string that is not written yet, out and left the output buffer   *)
(* and avail_out, all what was written so far.  Each mode returns when it  *)
(* has no input or no room.                                                *)
(***************************************************************************)
Wrote(s, data) == [s EXCEPT !.out = @ \o data, !.left = @ - Len(data), !.all = @ \o data]

\* One turn of the switch; unchanged where it leaves.
Turn(s) ==
  LET byte == Head(s.have)
      pulled == [s EXCEPT !.have = Tail(@)]
      bad == [pulled EXCEPT !.mode = "BAD"]
      n == Least(Len(s.hold), s.left)
      Need(kind, limit, next) ==
        IF byte.kind # kind THEN bad
        ELSE IF s.n + 1 < limit THEN [pulled EXCEPT !.n = @ + 1]
        ELSE [pulled EXCEPT !.n = 0, !.mode = next]
  IN CASE s.mode = "HEAD" /\ wrap = 0 -> [s EXCEPT !.mode = "TYPE"]
       [] s.mode = "TYPE" /\ s.last -> [s EXCEPT !.mode = "CHECK"]
       [] s.mode = "CHECK" /\ wrap = 0 -> [s EXCEPT !.mode = "DONE"]
       [] s.mode = "MATCH" /\ s.left > 0 ->
            [Wrote(s, SubSeq(s.hold, 1, n)) EXCEPT
               !.hold = Drop(@, n), !.mode = IF n = Len(s.hold) THEN "LEN" ELSE "MATCH"]
       [] s.mode \in {"MATCH", "DONE", "BAD"} \/ s.have = <<>> -> s
       [] s.mode = "HEAD" /\ s.have # <<>> -> Need("head", kHeader, "TYPE")
       [] s.mode = "TYPE" -> IF byte.kind # "type" THEN bad
                             ELSE [pulled EXCEPT !.mode = "LEN", !.last = byte.last]
       [] s.mode = "LEN" /\ byte.kind = "lit" -> [pulled EXCEPT !.mode = "MATCH", !.hold = byte.data]
       [] s.mode = "LEN" -> IF byte.kind # "end" THEN bad ELSE [pulled EXCEPT !.mode = "TYPE"]
       [] s.mode = "CHECK" -> IF byte.data # s.all THEN bad ELSE Need("check", kTrailer, "DONE")

RECURSIVE Run(_)
Run(s) == CHOOSE r \in {IF t = s THEN s ELSE Run(t) : t \in {Turn(s)}} : TRUE

\* A variant that does not notice that there is no progress.
InflatePatient(s) ==
  CHOOSE d \in {
    Ret(r, CASE r.mode = "DONE" -> "end"
             [] r.mode = "BAD" -> "error"
             [] OTHER -> "ok") : r \in {Run(s)}} : TRUE

\* inf_leave: without progress it is a buffer error.
Inflate(s) ==
  CHOOSE d \in {
    Ret(r, CASE r.mode = "DONE" -> "end"
             [] r.mode = "BAD" -> "error"
             [] r.have = s.have /\ r.left = s.left -> "error"
             [] OTHER -> "ok") : r \in {Run(s)}} : TRUE
-----------------------------------------------------------------------------
(***************************************************************************)
(* compressImpl: first while there is input, then until deflate has ended. *)
(* phase is "assert" where an assert of it fails.                          *)
(***************************************************************************)
Emptied(s) == [s EXCEPT !.temp = <<>>, !.room = BUFSIZE]

DeflateInput ==
  /\ phase = "input"
  /\ IF z.in = <<>> THEN phase' = "finish" /\ UNCHANGED <<z, buffer>>
     ELSE \E d \in {Deflate(z, "no")} :
            /\ phase' = IF d.ret = "ok" THEN "input" ELSE "assert"
            /\ z' = IF d.s.room = 0 THEN Emptied(d.s) ELSE d.s
            /\ buffer' = IF d.s.room = 0 THEN buffer \o d.s.temp ELSE buffer
  /\ UNCHANGED <<input, wrap, match, y, output, whole>>

DeflateFinish ==
  /\ phase = "finish"
  /\ \E d \in {Deflate(IF z.room = 0 THEN Emptied(z) ELSE z, "finish")},
        b \in {IF z.room = 0 THEN buffer \o z.temp ELSE buffer} :
       /\ z' = d.s
       /\ phase' = CASE d.ret = "ok" -> "finish" [] d.ret = "end" -> "compressed"
                     [] OTHER -> "assert"
       /\ buffer' = IF d.ret = "ok" THEN b ELSE b \o d.s.temp
  /\ UNCHANGED <<input, wrap, match, y, output, whole>>

Fresh(bytes) == [mode |-> "HEAD", have |-> bytes, n |-> 0, last |-> FALSE,
                 hold |-> <<>>, out |-> <<>>, left |-> 0, all |-> <<>>]

\* The block is read: whole, cut, or with one byte changed.  Without zlib's check
\* value (wrap = 0) a change is for the block's own checksum to find.
ReadBlock(bytes) ==
  /\ phase = "compressed" /\ phase' = "inflate"
  /\ y' = Fresh(bytes) /\ whole' = (bytes = buffer)
  /\ UNCHANGED <<input, wrap, match, z, buffer, output>>

ReadWhole == ReadBlock(buffer)
ReadCut(n) == n < Len(buffer) /\ ReadBlock(SubSeq(buffer, 1, n))
ReadChanged(i, byte) ==
  wrap = 1 /\ i <= Len(buffer) /\ buffer[i] # byte /\ ReadBlock([buffer EXCEPT ![i] = byte])

\* inflate of the compressor: both loops end when the buffer is not full and the
\* stream has ended.
InflateChunk ==
  /\ phase = "inflate"
  /\ \E d \in {Inflate([y EXCEPT !.out = <<>>, !.left = CHUNK])} :
       /\ y' = d.s
       /\ output' = IF d.ret = "error" THEN output ELSE output \o d.s.out
       /\ phase' = CASE d.ret = "error" -> "failed"
                     [] d.s.left = 0 \/ d.ret # "end" -> "inflate"
                     [] OTHER -> "read"
  /\ UNCHANGED <<input, wrap, match, z, buffer, whole>>
-----------------------------------------------------------------------------
Init ==
  /\ \E n \in Inputs : input = [i \in 1..n |-> i]
  /\ wrap \in {0, 1} /\ match \in Matches
  /\ z = [in |-> input, look |-> <<>>, tally |-> <<>>, pending |-> <<>>, temp |-> <<>>,
          room |-> BUFSIZE, trailed |-> FALSE, status |-> IF wrap = 0 THEN "busy" ELSE "init"]
  /\ buffer = <<>> /\ y = Fresh(<<>>) /\ output = <<>> /\ phase = "input" /\ whole = TRUE

Changes == {Byte("lit", FALSE, <<0>>), Byte("end", FALSE, <<>>), Byte("type", TRUE, <<>>)}

Next ==
  \/ DeflateInput \/ DeflateFinish \/ ReadWhole \/ InflateChunk
  \/ \E n \in 0..Len(buffer) : ReadCut(n)
  \/ \E i \in 1..Len(buffer), byte \in Changes : ReadChanged(i, byte)

Spec == Init /\ [][Next]_vars /\ WF_vars(Next)
-----------------------------------------------------------------------------
\* A block that decompress accepts is the block that was compressed, wherever the
\* ends of the buffers fall; a whole one is accepted; and no assert of
\* compressImpl fails.
DecompressExact ==
  /\ phase = "read" => output = input
  /\ phase = "failed" => ~whole
  /\ phase # "assert"

\* The loops of compressImpl and inflate end, on any input.
LoopsEnd == <>(phase \in {"read", "failed"})
=============================================================================
