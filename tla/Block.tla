------------------------------- MODULE Block --------------------------------
(***************************************************************************)
(* A block of a table: BlockBuilder (table/block_builder.cc) and the       *)
(* iterator of table/block.cc, with prefix-compressed keys and restart     *)
(* points, down to byte offsets.                                           *)
(*                                                                         *)
(* A key is a sequence of bytes, compared bytewise; an entry in the block  *)
(* is [at, shared, delta, value, bad], where bad is an entry that          *)
(* DecodeEntry rejects.  A value is one byte.                              *)
(***************************************************************************)
EXTENDS Comparator

CONSTANTS Universe,   \* all keys and targets, as a sequence in their order
          Contents,   \* possible [keys, interval, bad]: the keys of a block, by
                      \* position in Universe, the restart interval, and the
                      \* entry that is damaged, 0 for none
          Nowhere

VARIABLES block,      \* [entries, restarts, limit]
          it,         \* the iterator
          call        \* the last call, [op, key]

vars == <<block, it, call>>

Made(op, key) == [op |-> op, key |-> key]

\* The bytes of the three lengths and of the value.
kOverhead == 3
kValueSize == 1

Size(e) == kOverhead + Len(e.delta) + kValueSize
-----------------------------------------------------------------------------
(***************************************************************************)
(* BlockBuilder.                                                           *)
(***************************************************************************)
Empty == [entries |-> <<>>, restarts |-> <<0>>, limit |-> 0, counter |-> 0, last |-> <<>>]

\* A variant that shares a prefix across a restart point.
AddShared(b, key, value, interval, bad) ==
  LET restart == b.counter >= interval
      shared == Common(b.last, key)
      e == [at |-> b.limit, shared |-> shared, value |-> value, bad |-> bad,
            delta |-> SubSeq(key, shared + 1, Len(key))]
  IN [entries |-> Append(b.entries, e),
      restarts |-> IF restart THEN Append(b.restarts, b.limit) ELSE b.restarts,
      limit |-> b.limit + Size(e), last |-> key,
      counter |-> IF restart THEN 1 ELSE b.counter + 1]

Add(b, key, value, interval, bad) ==
  LET restart == b.counter >= interval
      shared == IF restart THEN 0 ELSE Common(b.last, key)
      e == [at |-> b.limit, shared |-> shared, value |-> value, bad |-> bad,
            delta |-> SubSeq(key, shared + 1, Len(key))]
  IN [entries |-> Append(b.entries, e),
      restarts |-> IF restart THEN Append(b.restarts, b.limit) ELSE b.restarts,
      limit |-> b.limit + Size(e), last |-> key,
      counter |-> IF restart THEN 1 ELSE b.counter + 1]

\* The block of the keys in positions n and up, added to b.
RECURSIVE AddAll(_, _, _)
AddAll(b, c, n) ==
  IF n > Len(c.keys) THEN b
  ELSE AddAll(Add(b, Universe[c.keys[n]], c.keys[n], c.interval, n = c.bad), c, n + 1)

\* Finish writes the restart points after the entries, at offset limit.
Finish(c) ==
  LET b == AddAll(Empty, c, 1)
  IN [entries |-> b.entries, restarts |-> b.restarts, limit |-> b.limit]
-----------------------------------------------------------------------------
(***************************************************************************)
(* Block::Iter: [current, restart, key, value, end, failed].  current is   *)
(* current_, limit when not Valid(); restart is restart_index_, from 0;    *)
(* end is NextEntryOffset(), the end of value_.                            *)
(***************************************************************************)
EntryAt(at) == block.entries[CHOOSE i \in 1..Len(block.entries) : block.entries[i].at = at]
NumRestarts == Len(block.restarts)
GetRestartPoint(index) == block.restarts[index + 1]

SeekToRestartPoint(i, index) ==
  [i EXCEPT !.key = <<>>, !.restart = index, !.end = GetRestartPoint(index)]

Invalid(i) == [i EXCEPT !.current = block.limit, !.restart = NumRestarts]

CorruptionError(i) ==
  [Invalid(i) EXCEPT !.failed = TRUE, !.key = <<>>, !.end = 0]

\* restart_index_ follows current_ past restart points.
AdvanceRestart(index, current) ==
  CHOOSE n \in index..NumRestarts :
    /\ \A m \in (index + 1)..n : GetRestartPoint(m) < current
    /\ n + 1 < NumRestarts => GetRestartPoint(n + 1) >= current

\* ParseNextKey: the iterator and whether there was an entry.
ParseNextKey(i) ==
  LET e == EntryAt(i.end) IN
  IF i.end >= block.limit THEN [it |-> Invalid(i), ok |-> FALSE]
  ELSE IF e.bad \/ Len(i.key) < e.shared THEN [it |-> CorruptionError(i), ok |-> FALSE]
  ELSE [it |-> [i EXCEPT !.current = i.end, !.end = i.end + Size(e), !.value = e.value,
                         !.key = SubSeq(i.key, 1, e.shared) \o e.delta,
                         !.restart = AdvanceRestart(i.restart, i.end)],
        ok |-> TRUE]

\* do ... while (ParseNextKey() && NextEntryOffset() < offset)
RECURSIVE ScanTo(_, _)
ScanTo(i, offset) ==
  LET p == ParseNextKey(i)
  IN IF p.ok /\ p.it.end < offset THEN ScanTo(p.it, offset) ELSE p.it

RECURSIVE ScanFor(_, _)
ScanFor(i, target) ==
  LET p == ParseNextKey(i)
  IN IF p.ok /\ Less(p.it.key, target) THEN ScanFor(p.it, target) ELSE p.it

\* The binary search of Seek; -1 stands for a restart point that is no full key.
RECURSIVE Search(_, _, _)
Search(left, right, target) ==
  LET mid == (left + right + 1) \div 2
      e == EntryAt(GetRestartPoint(mid))
  IN IF left >= right THEN left
     ELSE IF e.bad \/ e.shared # 0 THEN -1
     ELSE IF Less(e.delta, target) THEN Search(mid, right, target)
     ELSE Search(left, mid - 1, target)

\* The restart point before the entry at offset original, -1 for none.
RECURSIVE RestartBefore(_, _)
RestartBefore(index, original) ==
  IF GetRestartPoint(index) < original THEN index
  ELSE IF index = 0 THEN -1 ELSE RestartBefore(index - 1, original)

SeekOp(i, target) ==
  LET left == Search(0, NumRestarts - 1, target)
  IN IF left = -1 THEN CorruptionError(i)
     ELSE ScanFor(SeekToRestartPoint(i, left), target)
PrevOp(i) ==
  LET index == RestartBefore(i.restart, i.current)
  IN IF index = -1 THEN Invalid(i)
     ELSE ScanTo(SeekToRestartPoint(i, index), i.current)
-----------------------------------------------------------------------------
Init ==
  /\ \E c \in Contents : block = Finish(c)
  /\ it = [current |-> block.limit, restart |-> NumRestarts, key |-> <<>>,
           value |-> 0, end |-> 0, failed |-> FALSE]
  /\ call = Made("new", Nowhere)

Valid == it.current < block.limit
Call(made, moved) ==
  call' = made /\ (\E i \in {moved} : it' = i) /\ UNCHANGED block

SeekToFirst ==
  Call(Made("first", Nowhere), ParseNextKey(SeekToRestartPoint(it, 0)).it)
SeekToLast ==
  Call(Made("last", Nowhere), ScanTo(SeekToRestartPoint(it, NumRestarts - 1), block.limit))
Seek(n) == Call(Made("seek", n), SeekOp(it, Universe[n]))
Next == Valid /\ Call(Made("next", Nowhere), ParseNextKey(it).it)
Prev == Valid /\ Call(Made("prev", Nowhere), PrevOp(it))

Step ==
  \/ SeekToFirst \/ SeekToLast \/ Next \/ Prev
  \/ \E n \in 1..Len(Universe) : Seek(n)

Spec == Init /\ [][Step]_vars
-----------------------------------------------------------------------------
\* What the client sees: the key, by its position in Universe, and the value.
Shown ==
  IF ~Valid THEN Nowhere
  ELSE <<CHOOSE n \in 1..Len(Universe) : Universe[n] = it.key, it.value>>
View == [n \in {block.entries[i].value : i \in 1..Len(block.entries)} |-> n]

\* Only a damaged block excuses an error.
Excused == it.failed /\ \E i \in 1..Len(block.entries) : block.entries[i].bad
=============================================================================
