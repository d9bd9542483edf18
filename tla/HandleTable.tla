---------------------------- MODULE HandleTable -----------------------------
(***************************************************************************)
(* The hash table of util/cache.cc: an array of chains, doubled when it    *)
(* has more entries than chains.  An entry is identified by its handle; a  *)
(* chain is the sequence of handles linked by next_hash.                   *)
(***************************************************************************)
EXTENDS Integers, Sequences

CONSTANTS Keys, Handles, NULL,
          Hash,           \* per key: its hash
          KeyOf,          \* per handle: its key
          InitialLength   \* 4 in the code

VARIABLES list, elems, entered

vars == <<list, elems, entered>>

Length == Len(list)
Bucket(length, key) == (Hash[key] % length) + 1

\* Position of the key's entry in its chain, or one past the end: the slot that
\* FindPointer returns.
FindPointer(key) ==
  LET chain == list[Bucket(Length, key)]
      at == {i \in 1..Len(chain) : KeyOf[chain[i]] = key}
  IN IF at = {} THEN Len(chain) + 1 ELSE CHOOSE i \in at : \A j \in at : i <= j

Lookup(key) ==
  LET chain == list[Bucket(Length, key)]
  IN IF FindPointer(key) > Len(chain) THEN NULL ELSE chain[FindPointer(key)]

\* The chains put one after the other, as Resize goes through them.
RECURSIVE Concat(_)
Concat(chains) == IF chains = <<>> THEN <<>> ELSE Head(chains) \o Concat(Tail(chains))

RECURSIVE NewLength(_, _)
NewLength(length, n) == IF length < n THEN NewLength(2 * length, n) ELSE length

\* Each entry is pushed at the head of its new chain.
RECURSIVE Distribute(_, _)
Distribute(entries, chains) ==
  IF entries = <<>> THEN chains
  ELSE LET b == Bucket(Len(chains), KeyOf[Head(entries)])
       IN Distribute(Tail(entries), [chains EXCEPT ![b] = <<Head(entries)>> \o @])

\* A variant that keeps the chains and only adds empty ones.
ResizeInPlace(chains, n) ==
  [b \in 1..NewLength(InitialLength, n) |-> IF b <= Len(chains) THEN chains[b] ELSE <<>>]

Resize(chains, n) ==
  Distribute(Concat(chains), [b \in 1..NewLength(InitialLength, n) |-> <<>>])

Init ==
  /\ list = [b \in 1..InitialLength |-> <<>>]
  /\ elems = 0 /\ entered = {}

\* Insert puts the entry in the slot of the one it replaces, or at the end.
Insert(h) ==
  LET key == KeyOf[h]
      b == Bucket(Length, key)
      at == FindPointer(key)
      new == at > Len(list[b])
      chain == IF new THEN Append(list[b], h) ELSE [list[b] EXCEPT ![at] = h]
      chains == [list EXCEPT ![b] = chain]
      n == IF new THEN elems + 1 ELSE elems
  IN /\ h \notin entered
     /\ elems' = n
     /\ \E l \in {IF new /\ n > Length THEN Resize(chains, n) ELSE chains} : list' = l
     /\ entered' = {e \in entered : KeyOf[e] # key} \cup {h}

Remove(key) ==
  LET b == Bucket(Length, key)
      at == FindPointer(key)
      chain == list[b]
  IN /\ at <= Len(chain)
     /\ list' = [list EXCEPT ![b] = SubSeq(chain, 1, at - 1) \o SubSeq(chain, at + 1, Len(chain))]
     /\ elems' = elems - 1
     /\ entered' = entered \ {chain[at]}

Next == (\E h \in Handles : Insert(h)) \/ (\E key \in Keys : Remove(key))

Spec == Init /\ [][Next]_vars
-----------------------------------------------------------------------------
\* Whatever was inserted, replaced, removed and moved by Resize, Lookup finds
\* the last entry inserted for a key and nothing else, no chain keeps an entry
\* that was replaced or removed, and elems_ counts the entries.
FindsExactly ==
  /\ \A key \in Keys :
       Lookup(key) = IF \E h \in entered : KeyOf[h] = key
                     THEN CHOOSE h \in entered : KeyOf[h] = key ELSE NULL
  /\ \A b \in 1..Length : \A i \in 1..Len(list[b]) : list[b][i] \in entered
  /\ Len(Concat(list)) = elems
=============================================================================
