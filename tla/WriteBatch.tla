----------------------------- MODULE WriteBatch -----------------------------
(***************************************************************************)
(* db/write_batch.cc: batches of updates, as clients build them, as a      *)
(* group of writers appends them to one another, and as InsertInto applies *)
(* them to a memtable, after a write and again when the log is replayed.   *)
(***************************************************************************)
EXTENDS Coding

CONSTANTS Batches,        \* batches of different clients
          Strings,        \* keys and values
          Starts,         \* sequence numbers that a write may begin at
          MaxOps, MaxBytes

VARIABLES rep,            \* of each batch: [sequence, count, data]
          ops             \* what was asked of each batch: <<type, key, value>>

vars == <<rep, ops>>

kTypeDeletion == 0
kTypeValue == 1

Cleared == [sequence |-> 0, count |-> 0, data |-> <<>>]

Record(type, key, value) ==
  <<type>> \o PutLengthPrefixedSlice(key)
           \o IF type = kTypeValue THEN PutLengthPrefixedSlice(value) ELSE <<>>

Fits(n, data) == n <= MaxOps /\ Len(data) <= MaxBytes
Became(b, r, o) == rep' = [rep EXCEPT ![b] = r] /\ ops' = [ops EXCEPT ![b] = o]

Grow(b, type, key, value) ==
  LET data == rep[b].data \o Record(type, key, value) IN
  /\ Fits(rep[b].count + 1, data)
  /\ Became(b, [rep[b] EXCEPT !.count = @ + 1, !.data = data],
            Append(ops[b], <<type, key, value>>))

Put(b, key, value) == Grow(b, kTypeValue, key, value)
Delete(b, key) == Grow(b, kTypeDeletion, key, <<>>)
Clear(b) == Became(b, Cleared, <<>>)

\* WriteBatchInternal::Append, by the first writer of a group.
AppendBatch(dst, src) ==
  LET data == rep[dst].data \o rep[src].data IN
  /\ Fits(rep[dst].count + rep[src].count, data)
  /\ Became(dst, [rep[dst] EXCEPT !.count = @ + rep[src].count, !.data = data],
            ops[dst] \o ops[src])

SetSequence(b, s) == Became(b, [rep[b] EXCEPT !.sequence = s], ops[b])
-----------------------------------------------------------------------------
\* The records of s, after those in found; got is what follows a tag.
RECURSIVE Records(_, _), RecordAfter(_, _, _)
Records(s, found) ==
  IF s = <<>> THEN [ok |-> TRUE, ops |-> found]
  ELSE RecordAfter(Head(s),
         CASE Head(s) = kTypeValue -> GetFields(Tail(s), <<"s", "s">>)
           [] Head(s) = kTypeDeletion -> GetFields(Tail(s), <<"s">>)
           [] OTHER -> Bad, found)
RecordAfter(tag, got, found) ==
  IF ~got.ok THEN [ok |-> FALSE, ops |-> found]
  ELSE Records(got.rest, Append(found,
         <<tag, got.value[1], IF tag = kTypeValue THEN got.value[2] ELSE <<>> >>))

\* A variant that does not compare the number of records with the count.
IterateUncounted(r) == Records(r.data, <<>>)

\* Iterate: what the handler is given, and whether the status is OK.
Counted(found, count) == [found EXCEPT !.ok = @ /\ Len(found.ops) = count]
Iterate(r) == Counted(Records(r.data, <<>>), r.count)

\* InsertInto: the entries added to the memtable, with their sequence numbers.
Numbered(found, first) == [i \in 1..Len(found) |-> <<first + i - 1, found[i]>>]
InsertInto(r) == Numbered(Iterate(r).ops, r.sequence)
-----------------------------------------------------------------------------
Init == rep = [b \in Batches |-> Cleared] /\ ops = [b \in Batches |-> <<>>]

Next ==
  \E b \in Batches :
    \/ \E key, value \in Strings : Put(b, key, value)
    \/ \E key \in Strings : Delete(b, key)
    \/ \E c \in Batches \ {b} : AppendBatch(b, c)
    \/ \E s \in Starts : SetSequence(b, s)
    \/ Clear(b)

Spec == Init /\ [][Next]_vars
-----------------------------------------------------------------------------
\* InsertInto applies exactly the updates asked for, in their order, at
\* consecutive sequence numbers, as many as the count that Write adds to the last
\* sequence; and a batch that was cut anywhere is reported, after a part of its
\* updates.
BatchAppliedExactly ==
  \A b \in Batches :
    LET n == Len(ops[b]) IN
    /\ Iterate(rep[b]) = [ok |-> TRUE, ops |-> ops[b]]
    /\ InsertInto(rep[b]) = [i \in 1..n |-> <<rep[b].sequence + i - 1, ops[b][i]>>]
    /\ rep[b].count = n
    /\ \A m \in 0..(Len(rep[b].data) - 1) :
         LET cut == Iterate([rep[b] EXCEPT !.data = SubSeq(@, 1, m)]) IN
         ~cut.ok /\ \E k \in 0..n : cut.ops = SubSeq(ops[b], 1, k)
=============================================================================
