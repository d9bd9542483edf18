------------------------------ MODULE LRUCache ------------------------------
(***************************************************************************)
(* One shard of util/cache.cc.  A cache is a record; each operation below  *)
(* is the whole body of the method, which runs under the shard's mutex_.   *)
(*                                                                         *)
(*   refs      per handle: LRUHandle::refs, 0 for memory that is free      *)
(*   key, charge, value   per handle, as given to Insert                   *)
(*   cached    the handles with in_cache                                   *)
(*   table     the hash table: key -> handle                               *)
(*   lru       the entries of the lru_ list                                *)
(*   older     the order of that list: the pairs <<older, newer>>          *)
(*   in_use    the in_use_ list, whose order nothing reads                 *)
(*   usage     usage_                                                      *)
(*   deleted   values handed to the deleter so far                         *)
(*                                                                         *)
(* The variable held counts the references clients have: what Insert and   *)
(* Lookup returned and Release has not been given back.                    *)
(***************************************************************************)
EXTENDS Integers, FiniteSetsExt

CONSTANTS Keys, Handles, Values,
          Charges,   \* what an entry may be charged
          NULL,
          Capacity   \* capacity_

ASSUME CacheAssumption ==
  /\ NULL \notin Handles
  /\ Capacity \in Nat /\ Charges \subseteq Nat

VARIABLES cache, held

vars == <<cache, held>>

EmptyCache ==
  [refs |-> [h \in Handles |-> 0],
   key |-> [h \in Handles |-> NULL],
   charge |-> [h \in Handles |-> 0],
   value |-> [h \in Handles |-> NULL],
   cached |-> {}, table |-> [k \in Keys |-> NULL],
   lru |-> {}, older |-> {}, in_use |-> {}, usage |-> 0, deleted |-> {}]

\* LRU_Remove takes an entry off whichever list it is on.
LRU_Remove(c, h) ==
  [c EXCEPT !.lru = @ \ {h}, !.in_use = @ \ {h},
            !.older = {p \in @ : p[1] # h /\ p[2] # h}]

\* LRU_Append(&lru_, e): e becomes the newest entry.
LRU_Append(c, h) ==
  [c EXCEPT !.lru = @ \cup {h}, !.older = @ \cup {<<e, h>> : e \in c.lru}]

\* A variant of Ref that leaves the entry on the lru_ list.
RefInPlace(c, h) == [c EXCEPT !.refs[h] = @ + 1]

Ref(c, h) ==
  LET d == LRU_Remove(c, h)
      moved == [d EXCEPT !.in_use = @ \cup {h}, !.refs[h] = @ + 1]
  IN IF c.refs[h] = 1 /\ h \in c.cached THEN moved
     ELSE [c EXCEPT !.refs[h] = @ + 1]

\* The last reference runs the deleter and frees the handle; the last one but
\* the cache's own puts the entry on the lru_ list.
Unref(c, h) ==
  LET d == [c EXCEPT !.refs[h] = @ - 1]
  IN IF c.refs[h] = 1 THEN [d EXCEPT !.deleted = @ \cup {c.value[h]}]
     ELSE IF h \in c.cached /\ c.refs[h] = 2 THEN LRU_Append(LRU_Remove(d, h), h)
     ELSE d

\* A variant of FinishErase that leaves usage_ as it is.
FinishEraseKeepUsage(c, h) == Unref([LRU_Remove(c, h) EXCEPT !.cached = @ \ {h}], h)

\* FinishErase of the handle the hash table gave up.
FinishErase(c, h) ==
  LET d == LRU_Remove(c, h)
  IN Unref([d EXCEPT !.cached = @ \ {h}, !.usage = @ - c.charge[h]], h)

Lookup(c, k) == IF c.table[k] = NULL THEN c ELSE Ref(c, c.table[k])
Release(c, h) == Unref(c, h)
Erase(c, k) ==
  IF c.table[k] = NULL THEN c
  ELSE FinishErase([c EXCEPT !.table[k] = NULL], c.table[k])

Charge(c, S) == MapThenSumSet(LAMBDA h : c.charge[h], S)

\* The unused entries E leave the cache and are freed, as by Erase one by one.
Evict(c, E) ==
  [c EXCEPT !.lru = @ \ E, !.cached = @ \ E,
            !.older = {p \in @ : p[1] \notin E /\ p[2] \notin E},
            !.table = [k \in Keys |-> IF @[k] \in E THEN NULL ELSE @[k]],
            !.refs = [h \in Handles |-> IF h \in E THEN @[h] - 1 ELSE @[h]],
            !.usage = @ - Charge(c, E),
            !.deleted = @ \cup {c.value[h] : h \in E}]

Oldest(c, n) == {h \in c.lru : Cardinality({e \in c.lru : <<e, h>> \in c.older}) < n}

\* The entries the loop of Insert evicts: the oldest ones, one at a time,
\* while usage_ is above capacity_ and the list is not empty.
Surplus(c) ==
  LET fits(n) == c.usage - Charge(c, Oldest(c, n)) <= Capacity
      enough == {n \in 0..Cardinality(c.lru) : fits(n)}
  IN IF enough = {} THEN c.lru ELSE Oldest(c, Min(enough))

Prune(c) == Evict(c, c.lru)

Allocated(c, h, k, v, charge, refs) ==
  [c EXCEPT !.refs[h] = refs, !.key[h] = k, !.value[h] = v, !.charge[h] = charge]

\* The new entry in the cache, the one it replaces in the hash table not yet
\* removed.
Entered(c, h, k, v, charge) ==
  [Allocated(c, h, k, v, charge, 2) EXCEPT
     !.cached = @ \cup {h}, !.in_use = @ \cup {h},
     !.usage = @ + charge, !.table[k] = h]

\* Insert into freshly allocated memory h; the caller gets the handle.
Insert(c, h, k, v, charge) ==
  LET d == IF Capacity = 0 THEN Allocated(c, h, k, v, charge, 1)
           ELSE IF c.table[k] = NULL THEN Entered(c, h, k, v, charge)
           ELSE FinishErase(Entered(c, h, k, v, charge), c.table[k])
  IN Evict(d, Surplus(d))

Free(c) == {h \in Handles : c.refs[h] = 0}
-----------------------------------------------------------------------------
(***************************************************************************)
(* Any number of clients, each call under mutex_.                          *)
(***************************************************************************)
Init == cache = EmptyCache /\ held = [h \in Handles |-> 0]

ClientInsert(h, k, v, charge) ==
  /\ h \in Free(cache)
  /\ cache' = Insert(cache, h, k, v, charge)
  /\ held' = [held EXCEPT ![h] = 1]

ClientLookup(k) ==
  /\ cache.table[k] # NULL
  /\ cache' = Lookup(cache, k)
  /\ held' = [held EXCEPT ![cache.table[k]] = @ + 1]

ClientRelease(h) ==
  /\ held[h] > 0
  /\ cache' = Release(cache, h)
  /\ held' = [held EXCEPT ![h] = @ - 1]

ClientErase(k) == cache' = Erase(cache, k) /\ UNCHANGED held

ClientPrune == cache' = Prune(cache) /\ UNCHANGED held

Next ==
  \/ \E h \in Handles, k \in Keys, v \in Values, charge \in Charges :
       ClientInsert(h, k, v, charge)
  \/ \E k \in Keys : ClientLookup(k) \/ ClientErase(k)
  \/ \E h \in Handles : ClientRelease(h)
  \/ ClientPrune

Spec == Init /\ [][Next]_vars
-----------------------------------------------------------------------------
(***************************************************************************)
(* Properties.                                                             *)
(***************************************************************************)
\* LRUHandle::refs counts the clients' references and the cache's own one, so
\* an entry is freed when, and only when, nobody has it.
RefsExact ==
  \A h \in Handles :
    cache.refs[h] = held[h] + (IF h \in cache.cached THEN 1 ELSE 0)

\* The comment above LRUHandle: an entry in the cache is on exactly one list,
\* in_use_ while a client has it and lru_ otherwise, and an entry that was erased
\* is on neither; so only entries nobody has can be evicted.
ListsExact ==
  /\ cache.in_use = {h \in cache.cached : held[h] > 0}
  /\ cache.lru = {h \in cache.cached : held[h] = 0}

\* The hash table finds exactly the entries of the cache, each under its key.
TableExact ==
  /\ \A h \in cache.cached : cache.key[h] \in Keys /\ cache.table[cache.key[h]] = h
  /\ \A k \in Keys : cache.table[k] # NULL =>
       cache.table[k] \in cache.cached /\ cache.key[cache.table[k]] = k

\* usage_ is the charge of the entries in the cache, and lru_ is a list.
UsageExact ==
  /\ cache.usage = Charge(cache, cache.cached)
  /\ cache.older \subseteq cache.lru \X cache.lru
  /\ \A h, e \in cache.lru : h # e => (<<h, e>> \in cache.older) # (<<e, h>> \in cache.older)

\* The state an LRUCache promises its clients between two calls: no entry is
\* freed while it is cached or referred to, none is on the wrong list, and the
\* hash table finds exactly the cached ones.
CacheInv == RefsExact /\ ListsExact /\ TableExact
=============================================================================
