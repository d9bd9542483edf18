-------------------------------- MODULE LZ77 --------------------------------
(***************************************************************************)
(* The strings of a deflate stream: how deflate finds them (fill_window,   *)
(* longest_match, deflate_fast and deflate_slow of zlib's deflate.c) in a  *)
(* window that slides, and how inflate copies them (inflate.c, inffast.c)  *)
(* out of the current output buffer or a circular window of what earlier   *)
(* calls wrote.  A byte is a bit, and the hash keeps the last bits that    *)
(* went into it.  The input is all there at the first call, as in          *)
(* zlib_compressor.cc, so s->insert stays zero.                            *)
(***************************************************************************)
EXTENDS Integers, Sequences, SequencesExt, FiniteSetsExt

CONSTANTS Inputs,              \* sequences of bytes
          Levels,              \* rows of configuration_table: lazy, good, nice, chain, slow
          Chunks,              \* sizes of the output buffer of inflate
          kMaxMatch, kWSize, kHashSize, kTooFar

kMinMatch == 3
kMinLookahead == kMaxMatch + kMinMatch + 1
kMaxDist == kWSize - kMinLookahead
kWindowSize == 2 * kWSize
NIL == 0

VARIABLES input, level, chunk,
          s,                   \* the deflate state
          tokens,              \* what was tallied: length and distance, or a literal
          t,                   \* the inflate state
          phase

vars == <<input, level, chunk, s, tokens, t, phase>>

Literal(c) == [len |-> 1, dist |-> 0, c |-> c]
Match(len, dist) == [len |-> len, dist |-> dist, c |-> 0]
-----------------------------------------------------------------------------
(***************************************************************************)
(* deflate                                                                 *)
(***************************************************************************)
UpdateHash(h, c) == (2 * h + c) % kHashSize

\* INSERT_STRING; found is the head of the chain before.
InsertString(d, str) ==
  LET h == UpdateHash(d.ins_h, d.window[str + 2])
  IN [d EXCEPT !.ins_h = h, !.found = d.head[h], !.prev[str % kWSize] = d.head[h],
               !.head[h] = str]

SlideHash(d) ==
  LET Slid(m) == IF m >= kWSize THEN m - kWSize ELSE NIL
  IN [d EXCEPT !.head = [h \in DOMAIN d.head |-> Slid(d.head[h])],
               !.prev = [p \in DOMAIN d.prev |-> Slid(d.prev[p])]]

\* The upper half of the window moves to the lower half.
Slide(d) ==
  LET more == kWindowSize - d.lookahead - d.strstart
  IN IF d.strstart < kWSize + kMaxDist THEN d
     ELSE SlideHash([d EXCEPT !.strstart = @ - kWSize, !.match_start = @ - kWSize,
            !.window = [i \in DOMAIN d.window |->
              IF i < kWSize - more THEN d.window[i + kWSize] ELSE d.window[i]]])

\* One turn of the loop of fill_window.
ReadBuf(d) ==
  LET at == d.strstart + d.lookahead
      n == Min({Len(d.in), kWindowSize - at})
      read == [d EXCEPT !.in = SubSeq(d.in, n + 1, Len(d.in)), !.lookahead = @ + n,
                 !.window = [i \in DOMAIN d.window |->
                   IF i \in at..(at + n - 1) THEN d.in[i - at + 1] ELSE d.window[i]]]
  IN IF d.in = <<>> THEN d
     ELSE IF read.lookahead < kMinMatch THEN read
     ELSE [read EXCEPT !.ins_h =
             UpdateHash(read.window[read.strstart], read.window[read.strstart + 1])]

\* The bytes after the data that were never written become zero.
HighWater(d) ==
  LET curr == d.strstart + d.lookahead
      end == Min({curr + kMaxMatch, kWindowSize})
  IN IF d.high_water >= kWindowSize \/ d.high_water >= curr + kMaxMatch THEN d
     ELSE [d EXCEPT !.high_water = end, !.window = [i \in DOMAIN d.window |->
             IF i \in Max({curr, d.high_water})..(end - 1) THEN 0 ELSE d.window[i]]]

RECURSIVE FillTurns(_)
FillTurns(d) ==
  CHOOSE r \in {IF e.lookahead < kMinLookahead /\ e.in # <<>> THEN FillTurns(e) ELSE e :
                 e \in {ReadBuf(f) : f \in {Slide(d)}}} : TRUE

FillWindow(d) ==
  IF d.lookahead >= kMinLookahead THEN d
  ELSE CHOOSE r \in {HighWater(f) : f \in {FillTurns(d)}} : TRUE

\* The length of the match at cur, whose third byte is not compared.
MatchLength(d, cur) ==
  Max({n \in kMinMatch..kMaxMatch :
        \A i \in kMinMatch..(n - 1) : d.window[cur + i] = d.window[d.strstart + i]})

\* The checks that a match can be longer than best.
Candidate(d, cur, best) ==
  \A i \in {best, best - 1, 0, 1} : d.window[cur + i] = d.window[d.strstart + i]

\* The loop of longest_match.
RECURSIVE Chain(_, _, _, _, _, _)
Chain(d, cur, best, start, chain, nice) ==
  LET limit == IF d.strstart > kMaxDist THEN d.strstart - kMaxDist ELSE NIL
      len == MatchLength(d, cur)
      better == Candidate(d, cur, best) /\ len > best
      b == IF better THEN len ELSE best
      at == IF better THEN cur ELSE start
      next == d.prev[cur % kWSize]
  IN IF (better /\ len >= nice) \/ next <= limit \/ chain = 1 THEN [len |-> b, start |-> at]
     ELSE CHOOSE r \in {Chain(d, next, x, y, chain - 1, nice) : x \in {b}, y \in {at}} : TRUE

LongestMatch(d, cur) ==
  LET chain == IF d.prev_length >= level.good THEN level.chain \div 4 ELSE level.chain
      m == Chain(d, cur, d.prev_length, d.match_start, chain, Min({level.nice, d.lookahead}))
  IN [d EXCEPT !.match_length = Min({m.len, d.lookahead}), !.match_start = m.start]

Found(d) == IF d.lookahead < kMinMatch THEN [d EXCEPT !.found = NIL]
            ELSE InsertString(d, d.strstart)

Step(d, token) == [d |-> d, token |-> token]
Inserted(d, positions) == FoldLeft(InsertString, d, positions)
Positions(from, to) == [i \in 1..Max({0, to - from + 1}) |-> from + i - 1]

TryMatch(d) ==
  IF d.found = NIL \/ d.strstart - d.found > kMaxDist THEN d ELSE LongestMatch(d, d.found)

\* A turn of the loop of deflate_fast, with the lookahead there.
FastTurn(d0) ==
  LET d == CHOOSE m \in {TryMatch(f) : f \in {Found(d0)}} : TRUE
      len == d.match_length
      end == d.strstart + len
      after == [d EXCEPT !.lookahead = @ - len, !.match_length = 0, !.strstart = end]
  IN IF len < kMinMatch
     THEN Step([d EXCEPT !.lookahead = @ - 1, !.strstart = @ + 1], Literal(d.window[d.strstart]))
     ELSE Step(IF len <= level.lazy /\ after.lookahead >= kMinMatch
               THEN Inserted(after, Positions(d.strstart + 1, end - 1))
               ELSE [after EXCEPT !.ins_h = UpdateHash(d.window[end], d.window[end + 1])],
               Match(len, d.strstart - d.match_start))

\* In deflate_slow a short match is not worth it when it is far.
TooFar(d) ==
  IF d.match_length = kMinMatch /\ d.strstart - d.match_start > kTooFar
  THEN [d EXCEPT !.match_length = kMinMatch - 1] ELSE d

NoToken == [len |-> 0, dist |-> 0, c |-> 0]

\* A turn of the loop of deflate_slow: a match is taken when the next one is
\* not longer.
SlowTurn(d0) ==
  LET f == Found(d0)
      g == [f EXCEPT !.prev_length = f.match_length, !.prev_match = f.match_start,
                     !.match_length = kMinMatch - 1]
      d == CHOOSE m \in {IF h.prev_length < level.lazy THEN TooFar(TryMatch(h)) ELSE h : h \in {g}} : TRUE
      last == d.strstart + d.lookahead - kMinMatch
      end == d.strstart + d.prev_length - 2
      advanced == [d EXCEPT !.strstart = @ + 1, !.lookahead = @ - 1]
  IN IF d.prev_length >= kMinMatch /\ d.match_length <= d.prev_length
     THEN Step([Inserted(d, Positions(d.strstart + 1, Min({end, last}))) EXCEPT
                  !.lookahead = d.lookahead - (d.prev_length - 1), !.prev_length = 0,
                  !.match_available = FALSE, !.match_length = kMinMatch - 1, !.strstart = end + 1],
               Match(d.prev_length, d.strstart - 1 - d.prev_match))
     ELSE IF d.match_available THEN Step(advanced, Literal(d.window[d.strstart - 1]))
     ELSE Step([advanced EXCEPT !.match_available = TRUE], NoToken)
-----------------------------------------------------------------------------
(***************************************************************************)
(* inflate: out is what this call has written, window what earlier calls   *)
(* wrote, token and length what is left of the current string.             *)
(***************************************************************************)
Room(i) == chunk - Len(i.out)

\* The positions of the window from which n bytes are copied, if the first one is
\* back bytes behind the next one to write.
FromWindow(i, back, n) ==
  [k \in 1..n |-> i.window[IF back > i.wnext THEN kWSize + i.wnext - back + k - 1
                           ELSE i.wnext - back + k - 1]]

\* n bytes from dist behind: each may have been written by this copy.
RECURSIVE FromOutput(_, _, _)
FromOutput(out, dist, n) ==
  IF n = 0 THEN out
  ELSE CHOOSE r \in {FromOutput(o, dist, n - 1) : o \in {Append(out, out[Len(out) - dist + 1])}} : TRUE

\* The mode MATCH: one stretch of the window, or the output.
CopyMatch(i) ==
  LET back == i.token.dist - Len(i.out)
      stretch == IF back > i.wnext THEN back - i.wnext ELSE back
      n == Min({i.length, Room(i)} \cup (IF back > 0 THEN {stretch} ELSE {}))
      done == [i EXCEPT !.length = @ - n, !.mode = IF n = i.length THEN "LEN" ELSE @]
  IN IF back > i.whave THEN [i EXCEPT !.mode = "BAD"]
     ELSE IF back > 0 THEN [done EXCEPT !.out = @ \o FromWindow(i, back, n)]
     ELSE [done EXCEPT !.out = FromOutput(i.out, i.token.dist, n)]

\* inflate_fast, which has room for the longest match: the end of the window,
\* its beginning, then the output.
CopyFast(i, token) ==
  LET back == token.dist - Len(i.out)
      wraps == i.wnext # 0 /\ i.wnext < back
      n1 == Min({token.len, IF wraps THEN back - i.wnext ELSE back})
      n2 == IF wraps THEN Min({token.len - n1, i.wnext}) ELSE 0
      begin == [k \in 1..n2 |-> i.window[k - 1]]
      out == i.out \o FromWindow(i, back, n1) \o begin
  IN IF token.dist = 0 THEN [i EXCEPT !.out = Append(@, token.c)]
     ELSE IF back <= 0 THEN [i EXCEPT !.out = FromOutput(@, token.dist, token.len)]
     ELSE IF back > i.whave THEN [i EXCEPT !.mode = "BAD"]
     ELSE [i EXCEPT !.out = FromOutput(out, token.dist, token.len - n1 - n2)]

\* A variant that does not go back to the beginning of the window when it is
\* filled to its end.
UpdateWindowNoWrap(i) ==
  LET copy == Len(i.out)
      window == [k \in 0..(kWSize - 1) |->
                  IF k >= i.wnext /\ k - i.wnext < copy THEN i.out[k - i.wnext + 1] ELSE i.window[k]]
  IN [i EXCEPT !.window = window, !.wnext = Min({@ + copy, kWSize - 1}),
               !.whave = Min({@ + copy, kWSize})]

UpdateWindow(i) ==
  LET copy == Len(i.out)
      first == Min({kWSize - i.wnext, copy})
      rest == copy - first
      Split(k) == IF k < rest THEN i.out[first + k + 1]
                  ELSE IF k >= i.wnext /\ k - i.wnext < first THEN i.out[k - i.wnext + 1]
                  ELSE i.window[k]
  IN IF copy >= kWSize
     THEN [i EXCEPT !.window = [k \in 0..(kWSize - 1) |-> i.out[copy - kWSize + k + 1]],
                    !.wnext = 0, !.whave = kWSize]
     ELSE [i EXCEPT !.window = [k \in 0..(kWSize - 1) |-> Split(k)],
                    !.wnext = IF rest > 0 THEN rest ELSE (@ + first) % kWSize,
                    !.whave = IF rest > 0 \/ @ = kWSize THEN kWSize ELSE @ + first]
-----------------------------------------------------------------------------
Init ==
  /\ input \in Inputs /\ level \in Levels /\ chunk \in Chunks
  /\ \E garbage \in {0, 1} :
       s = [in |-> input, window |-> [i \in 0..(kWindowSize - 1) |-> garbage], high_water |-> 0,
            strstart |-> 0, lookahead |-> 0, ins_h |-> 0, found |-> NIL,
            head |-> [h \in 0..(kHashSize - 1) |-> NIL], prev |-> [p \in 0..(kWSize - 1) |-> garbage],
            match_length |-> kMinMatch - 1, prev_length |-> kMinMatch - 1,
            match_start |-> 0, prev_match |-> 0, match_available |-> FALSE]
  /\ tokens = <<>>
  /\ t = [mode |-> "LEN", next |-> 1, token |-> NoToken, length |-> 0, out |-> <<>>, all |-> <<>>,
          window |-> [k \in 0..(kWSize - 1) |-> 0], wnext |-> 0, whave |-> 0]
  /\ phase = "deflate"

Tally(token) == tokens' = IF token = NoToken THEN tokens ELSE Append(tokens, token)

DeflateFast ==
  /\ phase = "deflate" /\ ~level.slow
  /\ \E d \in {FillWindow(s)} :
       /\ d.lookahead > 0
       /\ \E r \in {FastTurn(d)} : s' = r.d /\ Tally(r.token)
  /\ UNCHANGED <<input, level, chunk, t, phase>>

DeflateSlow ==
  /\ phase = "deflate" /\ level.slow
  /\ \E d \in {FillWindow(s)} :
       /\ d.lookahead > 0
       /\ \E r \in {SlowTurn(d)} : s' = r.d /\ Tally(r.token)
  /\ UNCHANGED <<input, level, chunk, t, phase>>

\* The loop ends, and deflate_slow tallies the last literal.
DeflateEnd ==
  /\ phase = "deflate"
  /\ \E d \in {FillWindow(s)} :
       /\ d.lookahead = 0
       /\ s' = [d EXCEPT !.match_available = FALSE]
       /\ Tally(IF level.slow /\ d.match_available THEN Literal(d.window[d.strstart - 1]) ELSE NoToken)
  /\ phase' = "inflate"
  /\ UNCHANGED <<input, level, chunk, t>>

\* The mode LEN, with the next code of the stream.
InflateLen ==
  /\ phase = "inflate" /\ t.mode = "LEN" /\ t.next <= Len(tokens)
  /\ LET token == tokens[t.next]
     IN t' = [t EXCEPT !.next = @ + 1, !.token = token, !.length = token.len,
                       !.mode = IF token.dist = 0 THEN "LIT" ELSE "MATCH"]
  /\ UNCHANGED <<input, level, chunk, s, tokens, phase>>

\* One turn of inflate_fast
InflateFast ==
  /\ phase = "inflate" /\ t.mode = "LEN" /\ t.next <= Len(tokens)
  /\ Room(t) >= kMaxMatch
  /\ \E i \in {CopyFast(t, tokens[t.next])} : t' = [i EXCEPT !.next = @ + 1]
  /\ UNCHANGED <<input, level, chunk, s, tokens, phase>>

InflateLit ==
  /\ phase = "inflate" /\ t.mode = "LIT" /\ Room(t) > 0
  /\ t' = [t EXCEPT !.out = Append(@, t.token.c), !.mode = "LEN"]
  /\ UNCHANGED <<input, level, chunk, s, tokens, phase>>

InflateMatch ==
  /\ phase = "inflate" /\ t.mode = "MATCH" /\ Room(t) > 0
  /\ \E i \in {CopyMatch(t)} : t' = i
  /\ UNCHANGED <<input, level, chunk, s, tokens, phase>>

\* inf_leave: the output buffer is full, or the stream ends; the caller takes
\* the output and calls inflate again.
InflateLeave ==
  /\ phase = "inflate"
  /\ \/ t.mode \in {"LIT", "MATCH"} /\ Room(t) = 0
     \/ t.mode = "LEN" /\ t.next > Len(tokens)
  /\ \E i \in {UpdateWindow(t)} : t' = [i EXCEPT !.all = @ \o t.out, !.out = <<>>]
  /\ phase' = IF t.mode = "LEN" THEN "done" ELSE phase
  /\ UNCHANGED <<input, level, chunk, s, tokens>>

Next == \/ DeflateFast \/ DeflateSlow \/ DeflateEnd
        \/ InflateLen \/ InflateFast \/ InflateLit \/ InflateMatch \/ InflateLeave

Spec == Init /\ [][Next]_vars
-----------------------------------------------------------------------------
\* The last string tallied stands at its distance before in the input, and at the
\* end of deflate the strings make up the input.
MatchesExact ==
  LET Size(n) == MapThenSumSet(LAMBDA i : tokens[i].len, 1..n)
      last == tokens[Len(tokens)]
      end == Size(Len(tokens))
  IN /\ tokens # <<>> /\ phase = "deflate" =>
          /\ end <= Len(input)
          /\ last.dist <= kMaxDist
          /\ IF last.dist = 0 THEN last.c = input[end]
             ELSE \A k \in (end - last.len + 1)..end : k > last.dist /\ input[k] = input[k - last.dist]
     /\ phase # "deflate" => end = Len(input)

\* Every string deflate tallies is a copy of the input no farther back than a
\* decoder's window reaches (check_match, deflate.c:1448), whatever was in memory
\* when the window and the chains were allocated; and inflate writes the input
\* again, byte by byte and however small its output buffer is: no string is said
\* to be too far back, and what is copied out of the circular window is what was
\* written.
OutputExact ==
  /\ MatchesExact
  /\ t.mode # "BAD"
  /\ t.all \o t.out = SubSeq(input, 1, Len(t.all) + Len(t.out))
  /\ phase = "done" => t.all = input
=============================================================================
