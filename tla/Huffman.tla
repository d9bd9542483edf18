------------------------------- MODULE Huffman -------------------------------
(***************************************************************************)
(* The codes of one deflate block with dynamic trees (zlib's trees.c) and  *)
(* the tables inflate decodes it with (inftrees.c and inflate.c): the      *)
(* trees are built from the frequencies of the block, their code lengths   *)
(* are sent in the header of the block, and inflate makes its tables from  *)
(* that header.                                                            *)
(*                                                                         *)
(* A tree is a record: freq, dad, len and depth of its nodes, the leaves   *)
(* first; heap, the lower part of the array s->heap; sorted, its upper     *)
(* part; opt, what the tree adds to opt_len.  Bits are 0 and 1, in the     *)
(* order they are sent.                                                    *)
(***************************************************************************)
EXTENDS Integers, Sequences, SequencesExt, FiniteSetsExt

CONSTANTS Blocks,        \* what is coded: lfreq, dfreq, lextra, dextra (from code 0),
                         \* end (END_BLOCK), limit (max_length), root (lenbits, distbits)
          kMaxBits,      \* MAX_BITS and MAXBITS
          kEnough,       \* ENOUGH_LENS and ENOUGH_DISTS
          kZeroBits      \* extra bits of REPZ_11_138, 7 in the code

VARIABLES block, trees, bits, got, phase

vars == <<block, trees, bits, got, phase>>

Indices(f) == 0..(Len(f) - 1)
At(s, n) == s[n + 1]
-----------------------------------------------------------------------------
(***************************************************************************)
(* build_tree                                                              *)
(***************************************************************************)
Smaller(t, n, m) ==
  \/ t.freq[n] < t.freq[m]
  \/ t.freq[n] = t.freq[m] /\ t.depth[n] <= t.depth[m]

\* pqdownheap: v moves down from k.
RECURSIVE Sift(_, _, _, _)
Sift(t, heap, k, v) ==
  LET j == IF 2*k < Len(heap) /\ Smaller(t, heap[2*k + 1], heap[2*k]) THEN 2*k + 1 ELSE 2*k
  IN IF 2*k > Len(heap) \/ (2*k <= Len(heap) => Smaller(t, v, heap[j]))
     THEN [heap EXCEPT ![k] = v]
     ELSE CHOOSE r \in {Sift(t, h, i, v) : h \in {[heap EXCEPT ![k] = heap[j]]}, i \in {j}} : TRUE

PqDownHeap(t, k) == [t EXCEPT !.heap = Sift(t, t.heap, k, t.heap[k])]

PqRemove(t) ==
  PqDownHeap([t EXCEPT !.heap = [Front(t.heap) EXCEPT ![1] = Last(t.heap)]], 1)

\* At least two codes get a frequency, so that none has a length of zero bits.
RECURSIVE ForceTwo(_)
ForceTwo(t) ==
  LET node == IF t.max < 2 THEN t.max + 1 ELSE 0
  IN IF Len(t.heap) >= 2 THEN t
     ELSE ForceTwo([t EXCEPT !.heap = Append(@, node), !.freq[node] = 1,
                             !.max = IF t.max < 2 THEN node ELSE @, !.opt = @ - 1])

\* The codes that occur, in a heap.
InitialHeap(freq) ==
  LET elems == Len(freq)
      used == SelectSeq([i \in 1..elems |-> i - 1], LAMBDA n : At(freq, n) # 0)
      nodes == 0..(2 * elems)
      forced == ForceTwo([elems |-> elems, node |-> elems, heap |-> used, sorted |-> <<>>,
                          max |-> IF used = <<>> THEN -1 ELSE Last(used), opt |-> 0,
                          freq |-> [n \in nodes |-> IF n < elems THEN At(freq, n) ELSE 0],
                          depth |-> [n \in nodes |-> 0], dad |-> [n \in nodes |-> 0],
                          len |-> [n \in nodes |-> 0]])
  IN FoldLeft(PqDownHeap, forced, Reverse([i \in 1..(Len(forced.heap) \div 2) |-> i]))

\* The two least frequent nodes become the sons of a new one.
Combine(t) ==
  LET n == t.heap[1]
      r == PqRemove(t)
      m == r.heap[1]
      node == r.node
  IN PqDownHeap([r EXCEPT !.sorted = <<m, n>> \o @, !.node = @ + 1, !.heap[1] = node,
                          !.freq[node] = r.freq[n] + r.freq[m],
                          !.depth[node] = Max({r.depth[n], r.depth[m]}) + 1,
                          !.dad[n] = node, !.dad[m] = node], 1)

RECURSIVE CombineAll(_)
CombineAll(t) ==
  IF Len(t.heap) < 2 THEN [t EXCEPT !.sorted = t.heap \o @]
  ELSE CHOOSE r \in {CombineAll(c) : c \in {Combine(t)}} : TRUE

\* The code lengths of a tree whose lengths were cut at limit, by their number:
\* a leaf moves down, and an overflowing one becomes its brother.
RECURSIVE MoveDown(_, _, _)
MoveDown(count, limit, overflow) ==
  LET b == Max({c \in 1..(limit - 1) : count[c] # 0})
      moved == [count EXCEPT ![b] = @ - 1]
      brother == [moved EXCEPT ![b + 1] = @ + 2]
  IN IF overflow <= 0 THEN count
     ELSE MoveDown([brother EXCEPT ![limit] = @ - 1], limit, overflow - 2)

Cost(t, extra) ==
  MapThenSumSet(LAMBDA n : t.freq[n] * (t.len[n] + At(extra, n)), 0..t.max)

\* The first pass of gen_bitlen: depths in the tree, cut at limit.
Depths(t, limit) ==
  LET Depth(s, n) == [s EXCEPT !.len[n] = Min({s.len[s.dad[n]] + 1, limit}),
                               !.cut = @ + IF s.len[s.dad[n]] + 1 > limit THEN 1 ELSE 0]
  IN FoldLeft(Depth, [len |-> t.len, dad |-> t.dad, cut |-> 0], Tail(t.sorted))

\* When some were cut the leaves get new lengths, the longest to the least frequent.
GenBitlen(t, limit, extra) ==
  LET leaves == Reverse(SelectSeq(t.sorted, LAMBDA m : m <= t.max))
      first == CHOOSE d \in {Depths(t, limit)} : TRUE
      count == MoveDown([b \in 0..kMaxBits |->
                 Cardinality({i \in DOMAIN leaves : b > 0 /\ first.len[leaves[i]] = b})],
                 limit, first.cut)
      AtLeast(b) == MapThenSumSet(LAMBDA c : count[c], b..limit)
      NewLen(n) == Max({b \in 1..limit : AtLeast(b) >= CHOOSE i \in DOMAIN leaves : leaves[i] = n})
      sized == [t EXCEPT !.len = [n \in DOMAIN t.len |->
                 IF first.cut > 0 /\ n <= t.max /\ t.freq[n] # 0 THEN NewLen(n) ELSE first.len[n]]]
  IN [len |-> sized.len, freq |-> t.freq, max |-> t.max, count |-> count,
      opt |-> t.opt + Cost(sized, extra)]

\* bi_reverse
Bit(v, i) == (v \div 2^i) % 2
BiReverse(v, len) == MapThenSumSet(LAMBDA i : Bit(v, i) * 2^(len - 1 - i), 0..(len - 1))

GenCodes(t) ==
  LET next[b \in 0..kMaxBits] == IF b = 0 THEN 0 ELSE 2 * (next[b - 1] + t.count[b - 1])
      Before(n) == Cardinality({m \in 0..(n - 1) : t.len[m] = t.len[n]})
  IN [len |-> [n \in 0..t.max |-> t.len[n]], max |-> t.max, opt |-> t.opt,
      code |-> [n \in 0..t.max |->
                 IF t.len[n] = 0 THEN 0 ELSE BiReverse(next[t.len[n]] + Before(n), t.len[n])]]

BuildTree(freq, limit, extra) ==
  CHOOSE r \in {GenCodes(g) : g \in {GenBitlen(t, limit, extra) :
                 t \in {CombineAll(h) : h \in {InitialHeap(freq)}}}} : TRUE
-----------------------------------------------------------------------------
(***************************************************************************)
(* The code lengths in the header of the block: runs of equal lengths, the *)
(* bit length tree that codes them, and what is sent.                      *)
(***************************************************************************)
kBlCodes == 19
kRep3To6 == 16
kRepz3To10 == 17
kRepz11To138 == 18
kMaxBlBits == 7
kMaxZeros == 10 + 2^kZeroBits    \* 138
ExtraBl == [i \in 1..kBlCodes |-> CASE i = 17 -> 2 [] i = 18 -> 3 [] i = 19 -> kZeroBits [] OTHER -> 0]
BlOrder == <<16, 17, 18, 0, 8, 7, 9, 6, 10, 5, 11, 4, 12, 3, 13, 2, 14, 1, 15>>

\* The loop of scan_tree and send_tree, from n on: a run ends where the length
\* changes or the repeat count is at its limit.
RECURSIVE Runs(_, _, _, _, _)
Runs(t, n, count, prev, limits) ==
  LET cur == t.len[n]
      next == IF n = t.max THEN -1 ELSE t.len[n + 1]
      new == IF next = 0 THEN [max |-> kMaxZeros, min |-> 3]
             ELSE IF cur = next THEN [max |-> 6, min |-> 3] ELSE [max |-> 7, min |-> 4]
  IN IF n > t.max THEN <<>>
     ELSE IF count + 1 < limits.max /\ cur = next THEN Runs(t, n + 1, count + 1, prev, limits)
     ELSE <<[len |-> cur, count |-> count + 1, same |-> cur = prev, min |-> limits.min]>>
            \o Runs(t, n + 1, 0, cur, new)

TreeRuns(t) ==
  Runs(t, 0, 0, -1, IF t.len[0] = 0 THEN [max |-> kMaxZeros, min |-> 3] ELSE [max |-> 7, min |-> 4])

\* scan_tree: how often a run uses each code of the bit length tree.
ScanRun(run, code) ==
  IF run.count < run.min THEN IF code = run.len THEN run.count ELSE 0
  ELSE IF run.len # 0 THEN IF code = kRep3To6 \/ (code = run.len /\ ~run.same) THEN 1 ELSE 0
  ELSE IF code = (IF run.count <= 10 THEN kRepz3To10 ELSE kRepz11To138) THEN 1 ELSE 0

SendBits(v, n) == [i \in 1..n |-> Bit(v, i - 1)]
SendCode(c, t) == SendBits(t.code[c], t.len[c])

\* A variant that counts the length it has sent in full among its repetitions.
RepeatsAll(run) == run.count

\* The repetitions of a run after its first length, which is sent if it is new.
Repeats(run) == IF run.same THEN run.count ELSE run.count - 1

\* send_tree
SendRun(run, bl) ==
  LET first == IF run.same THEN <<>> ELSE SendCode(run.len, bl)
  IN IF run.count < run.min THEN FlattenSeq([i \in 1..run.count |-> SendCode(run.len, bl)])
     ELSE IF run.len # 0 THEN first \o SendCode(kRep3To6, bl) \o SendBits(Repeats(run) - 3, 2)
     ELSE IF run.count <= 10 THEN SendCode(kRepz3To10, bl) \o SendBits(run.count - 3, 3)
     ELSE SendCode(kRepz11To138, bl) \o SendBits(run.count - 11, kZeroBits)

SendTree(t, bl) == LET runs == TreeRuns(t)
                   IN FlattenSeq([i \in DOMAIN runs |-> SendRun(runs[i], bl)])

\* build_bl_tree: the tree, and the last index of BlOrder that is sent.
BuildBlTree(l, d) ==
  LET runs == TreeRuns(l) \o TreeRuns(d)
      freq == [i \in 1..kBlCodes |->
                MapThenSumSet(LAMBDA r : ScanRun(runs[r], i - 1), DOMAIN runs)]
      bl == BuildTree(freq, kMaxBlBits, ExtraBl)
      Len0(c) == IF c > bl.max THEN 0 ELSE bl.len[c]
      index == Max({2} \cup {i \in 3..(kBlCodes - 1) : Len0(At(BlOrder, i)) # 0})
  IN [tree |-> bl, index |-> index, opt |-> bl.opt + 3 * (index + 1) + 5 + 5 + 4]

SendAllTrees(l, d, bl) ==
  SendBits(l.max - block.end, 5) \o SendBits(d.max, 5) \o SendBits(bl.index + 1 - 4, 4)
  \o FlattenSeq([i \in 1..(bl.index + 1) |->
       SendBits(IF BlOrder[i] > bl.tree.max THEN 0 ELSE bl.tree.len[BlOrder[i]], 3)])
  \o SendTree(l, bl.tree) \o SendTree(d, bl.tree)
-----------------------------------------------------------------------------
(***************************************************************************)
(* inflate_table.  A table entry is a symbol, a sub-table at val of 2^size *)
(* entries, an invalid code, or not set; op, base and extra bits of a      *)
(* symbol are the symbol itself.                                           *)
(***************************************************************************)
Entry(op, n, val, size) == [op |-> op, bits |-> n, val |-> val, size |-> size]
Unset == Entry("unset", 0, 0, 0)
Invalid(n) == Entry("bad", n, 0, 0)

\* The code after huff, whose bits are counted from the top.
NextHuff(huff, len) ==
  LET clear == {i \in 0..(len - 1) : Bit(huff, i) = 0}
  IN IF clear = {} THEN 0 ELSE (huff % 2^Max(clear)) + 2^Max(clear)

\* The index bits of the sub-table for the codes from length len on.
RECURSIVE SubTableBits(_, _, _, _, _)
SubTableBits(curr, drop, left, count, max) ==
  LET rest == left - count[curr + drop]
  IN IF curr + drop >= max \/ (curr + drop < max => rest <= 0) THEN curr
     ELSE SubTableBits(curr + 1, drop, 2 * rest, count, max)

\* A symbol is entered in the current table, and a sub-table is opened if the
\* next one needs it.
EnterCode(s, work, lens) ==
  LET here == Entry("sym", s.len - s.drop, work[s.sym], 0)
      at == {s.next + (s.huff \div 2^s.drop) + i * 2^(s.len - s.drop) :
              i \in 0..(2^(s.curr - (s.len - s.drop)) - 1)}
      filled == [i \in DOMAIN s.table |-> IF i \in at THEN here ELSE s.table[i]]
      huff == NextHuff(s.huff, s.len)
      count == [s.count EXCEPT ![s.len] = @ - 1]
      done == count[s.len] = 0 /\ s.len = s.max
      len == IF count[s.len] = 0 /\ ~done THEN At(lens, work[s.sym + 1]) ELSE s.len
      low == huff % 2^s.root
      next == s.next + 2^s.curr
      curr == SubTableBits(len - s.root, s.root, 2^(len - s.root), count, s.max)
      used == s.used + 2^curr
      linked == [i \in 0..(used - 1) |->
                  IF i = low THEN Entry("sub", s.root, next, curr)
                  ELSE IF i < s.used THEN filled[i] ELSE Unset]
      moved == [s EXCEPT !.table = filled, !.huff = huff, !.count = count, !.sym = @ + 1,
                         !.len = len, !.done = done]
  IN IF done \/ len <= s.root \/ low = s.low THEN moved
     ELSE IF used > kEnough /\ s.kind # "CODES" THEN [moved EXCEPT !.ret = 1]
     ELSE [moved EXCEPT !.table = linked, !.drop = s.root, !.next = next, !.curr = curr,
                        !.used = used, !.low = low]

RECURSIVE EnterCodes(_, _, _)
EnterCodes(s, work, lens) ==
  IF s.done \/ s.ret # 0 THEN s
  ELSE CHOOSE r \in {EnterCodes(e, work, lens) : e \in {EnterCode(s, work, lens)}} : TRUE

InflateTable(kind, lens, bits0) ==
  LET count == [b \in 0..kMaxBits |-> Cardinality({i \in DOMAIN lens : lens[i] = b})]
      used == {b \in 1..kMaxBits : count[b] # 0}
      root == Max({Min({bits0, Max(used)}), Min(used)})
      left[b \in 0..kMaxBits] == IF b = 0 THEN 1 ELSE 2 * left[b - 1] - count[b]
      work == FlattenSeq([b \in 1..kMaxBits |->
                SelectSeq([i \in 1..Len(lens) |-> i - 1], LAMBDA n : At(lens, n) = b)])
      start == [kind |-> kind, ret |-> 0, done |-> FALSE, huff |-> 0, sym |-> 1, len |-> Min(used),
                max |-> Max(used), root |-> root, next |-> 0, curr |-> root, drop |-> 0,
                low |-> -1, used |-> 2^root, count |-> count, table |-> [i \in 0..(2^root - 1) |-> Unset]]
      end == EnterCodes(start, work, lens)
      Result(ret, table, r) == [ret |-> ret, table |-> table, root |-> r]
  IN IF used = {} THEN Result(0, [i \in 0..1 |-> Invalid(1)], 1)
     ELSE IF \E b \in 1..kMaxBits : left[b] < 0 THEN Result(-1, <<>>, 0)
     ELSE IF left[kMaxBits] > 0 /\ (kind = "CODES" \/ Max(used) # 1) THEN Result(-1, <<>>, 0)
     ELSE IF 2^root > kEnough /\ kind # "CODES" THEN Result(1, <<>>, 0)
     ELSE CHOOSE r \in {Result(e.ret, IF e.ret # 0 \/ e.huff = 0 THEN e.table
                          ELSE [e.table EXCEPT ![e.next + e.huff] = Invalid(e.len - e.drop)], e.root) :
                        e \in {end}} : TRUE
-----------------------------------------------------------------------------
(***************************************************************************)
(* inflate: the modes TABLE, LENLENS and CODELENS, and the decoding of a   *)
(* symbol in LEN and DIST.                                                 *)
(***************************************************************************)
Bits(bs, n) == MapThenSumSet(LAMBDA i : bs[i] * 2^(i - 1), 1..Min({n, Len(bs)}))
DropBits(bs, n) == SubSeq(bs, n + 1, Len(bs))
Bad == [ok |-> FALSE, lens |-> <<>>, rest |-> <<>>]

Decode(tab, bs) ==
  LET last == tab.table[Bits(bs, tab.root)]
      here == tab.table[last.val + (Bits(bs, last.bits + last.size) \div 2^last.bits)]
  IN IF last.op # "sub" THEN last ELSE [here EXCEPT !.bits = last.bits + @]

RECURSIVE ReadCodeLens(_, _, _, _)
ReadCodeLens(tab, bs, lens, total) ==
  LET here == tab.table[Bits(bs, tab.root)]
      after == DropBits(bs, here.bits)
      extra == ExtraBl[here.val + 1]
      copy == (IF here.val = kRepz11To138 THEN 11 ELSE 3) + Bits(after, extra)
      len == IF here.val = kRep3To6 THEN Last(lens) ELSE 0
  IN IF Len(lens) >= total THEN [ok |-> TRUE, lens |-> lens, rest |-> bs]
     ELSE IF here.bits > Len(bs) \/ here.op # "sym" THEN Bad
     ELSE IF here.val < 16
     THEN CHOOSE r \in {ReadCodeLens(tab, a, l, total) : a \in {after}, l \in {Append(lens, here.val)}} : TRUE
     ELSE IF here.val = kRep3To6 /\ lens = <<>> THEN Bad
     ELSE IF Len(lens) + copy > total THEN Bad
     ELSE CHOOSE r \in {ReadCodeLens(tab, a, l, total) :
                         a \in {DropBits(after, extra)}, l \in {lens \o [i \in 1..copy |-> len]}} : TRUE

ReadHeader(bs) ==
  LET nlen == Bits(bs, 5) + block.end + 1
      ndist == Bits(DropBits(bs, 5), 5) + 1
      ncode == Bits(DropBits(bs, 10), 4) + 4
      Sent(c) == CHOOSE i \in DOMAIN BlOrder : BlOrder[i] = c
      bl == [c \in 1..kBlCodes |->
              IF Sent(c - 1) > ncode THEN 0 ELSE Bits(DropBits(bs, 14 + 3 * (Sent(c - 1) - 1)), 3)]
      codes == InflateTable("CODES", bl, 7)
      read == ReadCodeLens(codes, DropBits(bs, 14 + 3 * ncode), <<>>, nlen + ndist)
      lencode == InflateTable("LENS", SubSeq(read.lens, 1, nlen), block.root)
      distcode == InflateTable("DISTS", SubSeq(read.lens, nlen + 1, nlen + ndist), block.root)
      Failed == [ok |-> FALSE]
  IN IF nlen > Len(block.lfreq) \/ ndist > Len(block.dfreq) \/ codes.ret # 0 THEN Failed
     ELSE IF ~read.ok THEN Failed
     ELSE IF At(read.lens, block.end) = 0 THEN Failed
     ELSE IF lencode.ret # 0 \/ distcode.ret # 0 THEN Failed
     ELSE [ok |-> TRUE, rest |-> read.rest, lencode |-> lencode, distcode |-> distcode]
-----------------------------------------------------------------------------
Init ==
  /\ block \in Blocks
  /\ trees = <<>> /\ bits = <<>> /\ got = <<>>
  /\ phase = "tallied"

\* The first part of _tr_flush_block
BuildTrees ==
  /\ phase = "tallied"
  /\ \E l \in {BuildTree(block.lfreq, block.limit, block.lextra)} :
     \E d \in {BuildTree(block.dfreq, block.limit, block.dextra)} :
     \E bl \in {BuildBlTree(l, d)} :
       trees' = [l |-> l, d |-> d, bl |-> bl, opt |-> l.opt + d.opt + bl.opt]
  /\ phase' = "built"
  /\ UNCHANGED <<block, bits, got>>

SendTrees ==
  /\ phase = "built"
  /\ bits' = SendAllTrees(trees.l, trees.d, trees.bl)
  /\ phase' = "sent"
  /\ UNCHANGED <<block, trees, got>>

ReadTrees ==
  /\ phase = "sent"
  /\ \E h \in {ReadHeader(bits)} : got' = h
  /\ phase' = "read"
  /\ UNCHANGED <<block, trees, bits>>

Next == BuildTrees \/ SendTrees \/ ReadTrees
Spec == Init /\ [][Next]_vars
-----------------------------------------------------------------------------
\* The codes of tree t that occur in the block, each sent before the bits of
\* tail, are decoded to themselves and take the bits that were sent.
DecodesAll(freq, t, tab) ==
  \A n \in Indices(freq) : \A tail \in {<<>>, <<0, 0, 0>>, <<1, 1, 1>>, <<0, 1, 0>>} :
    At(freq, n) # 0 =>
      /\ t.len[n] > 0
      /\ LET e == Decode(tab, SendCode(n, t) \o tail)
         IN e.op = "sym" /\ e.val = n /\ e.bits = t.len[n]

\* opt_len is the number of bits of the header and of the symbols.
OptLenExact ==
  LET Data(freq, t, extra) ==
        MapThenSumSet(LAMBDA n : At(freq, n) * (t.len[n] + At(extra, n)), 0..t.max)
  IN trees.opt = Len(bits) + Data(block.lfreq, trees.l, block.lextra)
                           + Data(block.dfreq, trees.d, block.dextra)

\* Every block of deflate is one inflate understands: the header build_tree,
\* scan_tree and send_tree make is accepted, none of its bits is left over, and
\* every symbol of the block is decoded through the tables of inflate_table,
\* whatever follows it.  And the block is as long as _tr_flush_block thought when
\* it chose its kind ("bad compressed size", trees.c:994), also after gen_bitlen
\* has shortened codes that were too long and when a code without a frequency was
\* added.
CodesReadBack ==
  /\ phase = "sent" => OptLenExact
  /\ phase = "read" =>
       /\ got.ok
       /\ got.rest = <<>>
       /\ DecodesAll(block.lfreq, trees.l, got.lencode)
       /\ DecodesAll(block.dfreq, trees.d, got.distcode)
=============================================================================
