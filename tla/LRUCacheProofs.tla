--------------------------- MODULE LRUCacheProofs ---------------------------
(***************************************************************************)
(* The reference counts and the lists of LRUCache are exact, for every set *)
(* of keys and handles and every capacity.  Good is the inductive          *)
(* invariant, as a predicate on a cache c and the references g that        *)
(* clients have; there is one lemma per method on the fields it changes    *)
(* and one saying that it keeps Good.  Lives says which entries were ever  *)
(* inserted and that deleted has those without references; the clients of  *)
(* a cache, TableCacheProofs, need it.                                     *)
(***************************************************************************)
EXTENDS LRUCache, TLAPS

\* Zenon is the prover of the steps that name no other.
USE ZenonT(60)

\* c is a record with the fields of a cache.
Shape(c) ==
  c = [refs |-> c.refs, key |-> c.key, charge |-> c.charge, value |-> c.value,
       cached |-> c.cached, table |-> c.table, lru |-> c.lru, older |-> c.older,
       in_use |-> c.in_use, usage |-> c.usage, deleted |-> c.deleted]

Typed(c, g) ==
  /\ g \in [Handles -> Nat]
  /\ c.refs \in [Handles -> Nat]
  /\ c.key \in [Handles -> Keys \cup {NULL}]
  /\ c.table \in [Keys -> Handles \cup {NULL}]
  /\ c.cached \subseteq Handles

Refs(c, g) ==
  \A h \in Handles : c.refs[h] = g[h] + (IF h \in c.cached THEN 1 ELSE 0)

Lists(c, g) ==
  /\ c.in_use = {h \in c.cached : g[h] > 0}
  /\ c.lru = {h \in c.cached : g[h] = 0}

Table(c) ==
  /\ \A h \in c.cached : c.key[h] \in Keys /\ c.table[c.key[h]] = h
  /\ \A k \in Keys : c.table[k] # NULL =>
       c.table[k] \in c.cached /\ c.key[c.table[k]] = k

Good(c, g) == Shape(c) /\ Typed(c, g) /\ Refs(c, g) /\ Lists(c, g) /\ Table(c)

-----------------------------------------------------------------------------
\* The fields after Ref, which Lookup calls.
LEMMA RefFields ==
  ASSUME NEW c, Shape(c), NEW h \in Handles
  PROVE  LET d == Ref(c, h)
             last == c.refs[h] = 1 /\ h \in c.cached
         IN /\ Shape(d)
            /\ d.refs = [c.refs EXCEPT ![h] = @ + 1]
            /\ d.key = c.key /\ d.table = c.table /\ d.cached = c.cached
            /\ d.in_use = IF last THEN c.in_use \cup {h} ELSE c.in_use
            /\ d.lru = IF last THEN c.lru \ {h} ELSE c.lru
<1>1. CASE c.refs[h] = 1 /\ h \in c.cached
  BY <1>1 DEF Shape, Ref, LRU_Remove
<1>2. CASE ~(c.refs[h] = 1 /\ h \in c.cached)
  BY <1>2 DEF Shape, Ref
<1> QED BY <1>1, <1>2

\* The fields after Unref, which Release and FinishErase call.
LEMMA UnrefFields ==
  ASSUME NEW c, Shape(c), NEW h \in Handles
  PROVE  LET d == Unref(c, h)
             idle == c.refs[h] # 1 /\ h \in c.cached /\ c.refs[h] = 2
         IN /\ Shape(d)
            /\ d.refs = [c.refs EXCEPT ![h] = @ - 1]
            /\ d.key = c.key /\ d.table = c.table /\ d.cached = c.cached
            /\ d.in_use = IF idle THEN c.in_use \ {h} ELSE c.in_use
            /\ d.lru = IF idle THEN (c.lru \ {h}) \cup {h} ELSE c.lru
<1>1. CASE c.refs[h] = 1
  BY <1>1 DEF Shape, Unref
<1>2. CASE c.refs[h] # 1 /\ h \in c.cached /\ c.refs[h] = 2
  BY <1>2 DEF Shape, Unref, LRU_Remove, LRU_Append
<1>3. CASE c.refs[h] # 1 /\ ~(h \in c.cached /\ c.refs[h] = 2)
  BY <1>3 DEF Shape, Unref
<1> QED BY <1>1, <1>2, <1>3

\* Lookup of a key that is cached gives its caller a reference.
LEMMA LookupKeepsGood ==
  ASSUME NEW c, NEW g, Good(c, g), NEW k \in Keys, c.table[k] # NULL
  PROVE  Good(Lookup(c, k), [g EXCEPT ![c.table[k]] = @ + 1])
<1> DEFINE h == c.table[k]
           d == Ref(c, h)
           f == [g EXCEPT ![h] = @ + 1]
<1>1. h \in Handles /\ h \in c.cached /\ Lookup(c, k) = d
  BY DEF Good, Typed, Table, Lookup
<1>2. /\ Shape(d)
      /\ d.refs = [c.refs EXCEPT ![h] = @ + 1]
      /\ d.key = c.key /\ d.table = c.table /\ d.cached = c.cached
      /\ d.in_use = IF c.refs[h] = 1 THEN c.in_use \cup {h} ELSE c.in_use
      /\ d.lru = IF c.refs[h] = 1 THEN c.lru \ {h} ELSE c.lru
  BY <1>1, RefFields DEF Good
<1> HIDE DEF d, h
<1>3. Typed(d, f)
  BY SMTT(30), <1>1, <1>2 DEF Good, Typed, f
<1>4. Refs(d, f)
  BY <1>1, <1>2 DEF Good, Typed, Refs, f
<1>5. c.refs[h] = g[h] + 1 /\ g[h] \in Nat
  BY <1>1 DEF Good, Typed, Refs
<1>6. Lists(d, f)
  BY SMTT(30), <1>1, <1>2, <1>5 DEF Good, Typed, Lists, f
<1>7. Table(d)
  BY <1>2 DEF Good, Table
<1> QED BY <1>1, <1>2, <1>3, <1>4, <1>6, <1>7 DEF Good, f, h

\* Release gives back a reference its caller had.
LEMMA ReleaseKeepsGood ==
  ASSUME NEW c, NEW g, Good(c, g), NEW h \in Handles, g[h] > 0
  PROVE  Good(Release(c, h), [g EXCEPT ![h] = @ - 1])
<1> DEFINE d == Unref(c, h)
           f == [g EXCEPT ![h] = @ - 1]
<1>1. /\ c.refs[h] = g[h] + (IF h \in c.cached THEN 1 ELSE 0)
      /\ g[h] \in Nat \ {0}
  BY SMTT(30) DEF Good, Typed, Refs
<1>2. /\ Shape(d)
      /\ d.refs = [c.refs EXCEPT ![h] = @ - 1]
      /\ d.key = c.key /\ d.table = c.table /\ d.cached = c.cached
      /\ d.in_use = IF h \in c.cached /\ g[h] = 1 THEN c.in_use \ {h} ELSE c.in_use
      /\ d.lru = IF h \in c.cached /\ g[h] = 1 THEN (c.lru \ {h}) \cup {h} ELSE c.lru
  <2>1. (c.refs[h] # 1 /\ h \in c.cached /\ c.refs[h] = 2) <=> (h \in c.cached /\ g[h] = 1)
    BY SMTT(30), <1>1
  <2> QED BY SMTT(30), <2>1, UnrefFields DEF Good
<1> HIDE DEF d
<1>3. Typed(d, f)
  BY SMTT(30), <1>1, <1>2 DEF Good, Typed, f
<1>4. Refs(d, f)
  BY SMTT(30), <1>1, <1>2 DEF Good, Typed, Refs, f
<1>5. Lists(d, f)
  BY SMTT(30), <1>1, <1>2 DEF Good, Typed, Lists, f
<1>6. Table(d)
  BY <1>2 DEF Good, Table
<1> QED BY <1>2, <1>3, <1>4, <1>5, <1>6 DEF Good, Release, d, f

\* The fields after FinishErase, for an entry of the cache.
LEMMA FinishEraseFields ==
  ASSUME NEW c, Shape(c), NEW h \in Handles, c.refs \in [Handles -> Nat], h \in c.cached
  PROVE  LET d == FinishErase(c, h)
         IN /\ Shape(d)
            /\ d.refs = [c.refs EXCEPT ![h] = @ - 1]
            /\ d.key = c.key /\ d.table = c.table /\ d.cached = c.cached \ {h}
            /\ d.in_use = c.in_use \ {h} /\ d.lru = c.lru \ {h}
<1> DEFINE r == LRU_Remove(c, h)
           e == [r EXCEPT !.cached = @ \ {h}, !.usage = @ - c.charge[h]]
<1>1. /\ Shape(r)
      /\ r.refs = c.refs /\ r.key = c.key /\ r.table = c.table /\ r.cached = c.cached
      /\ r.in_use = c.in_use \ {h} /\ r.lru = c.lru \ {h}
  <2> DEFINE older == {p \in c.older : p[1] # h /\ p[2] # h}
  <2>1. r = [c EXCEPT !.lru = c.lru \ {h}, !.in_use = c.in_use \ {h}, !.older = older]
    BY DEF LRU_Remove
  <2> HIDE DEF older, r
  <2> QED BY <2>1 DEF Shape
<1>2. FinishErase(c, h) = Unref(e, h)
  BY DEF FinishErase
<1> HIDE DEF r
<1>3. /\ Shape(e)
      /\ e.refs = r.refs /\ e.key = r.key /\ e.table = r.table
      /\ e.cached = r.cached \ {h} /\ e.in_use = r.in_use /\ e.lru = r.lru
  <2> DEFINE usage == r.usage - c.charge[h]
  <2>1. e = [r EXCEPT !.cached = r.cached \ {h}, !.usage = usage]
    OBVIOUS
  <2> HIDE DEF usage, e
  <2> QED BY <1>1, <2>1 DEF Shape
<1> HIDE DEF e
<1>4. ~(e.refs[h] # 1 /\ h \in e.cached /\ e.refs[h] = 2)
  BY <1>3
<1> DEFINE d == Unref(e, h)
<1>5. /\ Shape(d) /\ d.refs = [e.refs EXCEPT ![h] = @ - 1]
      /\ d.key = e.key /\ d.table = e.table /\ d.cached = e.cached
      /\ d.in_use = e.in_use /\ d.lru = e.lru
  <2> DEFINE idle == e.refs[h] # 1 /\ h \in e.cached /\ e.refs[h] = 2
  <2>1. /\ Shape(d) /\ d.refs = [e.refs EXCEPT ![h] = @ - 1]
        /\ d.key = e.key /\ d.table = e.table /\ d.cached = e.cached
        /\ d.in_use = IF idle THEN e.in_use \ {h} ELSE e.in_use
        /\ d.lru = IF idle THEN (e.lru \ {h}) \cup {h} ELSE e.lru
    <3>1. Shape(e)
      BY <1>3
    <3>2. Shape(d) /\ d.refs = [e.refs EXCEPT ![h] = @ - 1]
      BY <3>1, UnrefFields
    <3>3. d.key = e.key /\ d.table = e.table /\ d.cached = e.cached
      BY <3>1, UnrefFields
    <3>4. d.in_use = IF idle THEN e.in_use \ {h} ELSE e.in_use
      BY <3>1, UnrefFields
    <3>5. d.lru = IF idle THEN (e.lru \ {h}) \cup {h} ELSE e.lru
      BY <3>1, UnrefFields
    <3> QED BY <3>2, <3>3, <3>4, <3>5
  <2>2. ~idle
    BY <1>4
  <2> HIDE DEF idle, d
  <2> QED BY <2>1, <2>2
<1> HIDE DEF d
<1> QED BY <1>1, <1>2, <1>3, <1>5 DEF d

\* Erase takes the cache's own reference; clients keep theirs.
LEMMA EraseKeepsGood ==
  ASSUME NEW c, NEW g, Good(c, g), NEW k \in Keys
  PROVE  Good(Erase(c, k), g)
<1>1. CASE c.table[k] = NULL
  BY <1>1 DEF Erase
<1>2. CASE c.table[k] # NULL
  <2> DEFINE h == c.table[k]
             e == [c EXCEPT !.table[k] = NULL]
             d == FinishErase(e, h)
  <2>1. h \in Handles /\ h \in c.cached /\ c.key[h] = k /\ Erase(c, k) = d
    BY <1>2 DEF Good, Typed, Table, Erase
  <2>2. /\ Shape(e) /\ e.refs = c.refs /\ e.key = c.key /\ e.cached = c.cached
        /\ e.in_use = c.in_use /\ e.lru = c.lru
        /\ e.table = [c.table EXCEPT ![k] = NULL]
    BY SMTT(30) DEF Good, Shape
  <2>3. c.refs \in [Handles -> Nat]
    BY DEF Good, Typed
  <2> HIDE DEF e, h
  <2>4. /\ Shape(d)
        /\ d.refs = [c.refs EXCEPT ![h] = @ - 1]
        /\ d.key = c.key /\ d.table = [c.table EXCEPT ![k] = NULL]
        /\ d.cached = c.cached \ {h}
        /\ d.in_use = c.in_use \ {h} /\ d.lru = c.lru \ {h}
    BY SMTT(30), <2>1, <2>2, <2>3, FinishEraseFields
  <2> HIDE DEF d
  <2>5. c.refs[h] = g[h] + 1 /\ g[h] \in Nat
    BY <2>1 DEF Good, Typed, Refs
  <2>6. Typed(d, g)
    BY SMTT(30), <2>1, <2>4, <2>5 DEF Good, Typed
  <2>7. Refs(d, g)
    BY SMTT(30), <2>1, <2>4, <2>5 DEF Good, Typed, Refs
  <2>8. Lists(d, g)
    BY <2>1, <2>4 DEF Good, Typed, Lists
  <2>9. Table(d)
    BY SMTT(30), <2>1, <2>4 DEF Good, Typed, Table, h
  <2> QED BY <2>1, <2>4, <2>6, <2>7, <2>8, <2>9 DEF Good
<1> QED BY <1>1, <1>2

\* The fields after Evict.
LEMMA EvictFields ==
  ASSUME NEW c, Shape(c), NEW E
  PROVE  LET d == Evict(c, E)
         IN /\ Shape(d)
            /\ d.refs = [h \in Handles |-> IF h \in E THEN c.refs[h] - 1 ELSE c.refs[h]]
            /\ d.table = [k \in Keys |-> IF c.table[k] \in E THEN NULL ELSE c.table[k]]
            /\ d.key = c.key /\ d.cached = c.cached \ E
            /\ d.in_use = c.in_use /\ d.lru = c.lru \ E
            /\ d.value = c.value /\ d.deleted = c.deleted \cup {c.value[h] : h \in E}
<1> DEFINE d == Evict(c, E)
           refs == [h \in Handles |-> IF h \in E THEN c.refs[h] - 1 ELSE c.refs[h]]
           table == [k \in Keys |-> IF c.table[k] \in E THEN NULL ELSE c.table[k]]
           older == {p \in c.older : p[1] \notin E /\ p[2] \notin E}
           usage == c.usage - Charge(c, E)
           deleted == c.deleted \cup {c.value[h] : h \in E}
<1>1. d = [c EXCEPT !.lru = c.lru \ E, !.cached = c.cached \ E, !.older = older,
                    !.table = table, !.refs = refs, !.usage = usage, !.deleted = deleted]
  BY DEF Evict
<1> HIDE DEF refs, table, older, usage, deleted, d
<1>2. d = [refs |-> refs, key |-> c.key, charge |-> c.charge, value |-> c.value,
           cached |-> c.cached \ E, table |-> table, lru |-> c.lru \ E, older |-> older,
           in_use |-> c.in_use, usage |-> usage, deleted |-> deleted]
  BY <1>1 DEF Shape
<1>3. /\ Shape(d) /\ d.refs = refs /\ d.table = table
      /\ d.key = c.key /\ d.cached = c.cached \ E
      /\ d.in_use = c.in_use /\ d.lru = c.lru \ E
      /\ d.value = c.value /\ d.deleted = deleted
  BY <1>2 DEF Shape
<1> QED BY <1>3 DEF refs, table, deleted, d

\* Evicting entries of the lru_ list frees them and nothing else.
LEMMA EvictKeepsGood ==
  ASSUME NEW c, NEW g, Good(c, g), NEW E, E \subseteq c.lru
  PROVE  Good(Evict(c, E), g)
<1> DEFINE d == Evict(c, E)
<1>1. /\ Shape(d)
      /\ d.refs = [h \in Handles |-> IF h \in E THEN c.refs[h] - 1 ELSE c.refs[h]]
      /\ d.table = [k \in Keys |-> IF c.table[k] \in E THEN NULL ELSE c.table[k]]
      /\ d.key = c.key /\ d.cached = c.cached \ E
      /\ d.in_use = c.in_use /\ d.lru = c.lru \ E
  BY SMTT(30), EvictFields DEF Good
<1> HIDE DEF d
<1>2. \A h \in E : h \in Handles /\ h \in c.cached /\ g[h] = 0 /\ c.refs[h] = 1
  BY SMTT(30) DEF Good, Typed, Refs, Lists
<1>3. Typed(d, g)
  BY SMTT(30), <1>1, <1>2 DEF Good, Typed
<1>4. Refs(d, g)
  BY SMTT(30), <1>1, <1>2 DEF Good, Typed, Refs
<1>5. Lists(d, g)
  BY SMTT(30), <1>1, <1>2 DEF Good, Typed, Lists
<1>6. Table(d)
  BY SMTT(30), <1>1, <1>2 DEF Good, Typed, Table
<1> QED BY <1>1, <1>3, <1>4, <1>5, <1>6 DEF Good, d

\* Prune evicts the whole lru_ list.
LEMMA PruneKeepsGood ==
  ASSUME NEW c, NEW g, Good(c, g)
  PROVE  Good(Prune(c), g)
BY EvictKeepsGood DEF Prune

\* What Insert evicts is on the lru_ list.
LEMMA SurplusUnused ==
  ASSUME NEW c
  PROVE  Surplus(c) \subseteq c.lru
<1>1. \A n : Oldest(c, n) \subseteq c.lru
  BY DEF Oldest
<1> QED BY <1>1 DEF Surplus

\* The fields of a handle that has just been filled in.
LEMMA AllocatedFields ==
  ASSUME NEW c, Shape(c), NEW h, NEW k, NEW v, NEW charge, NEW refs
  PROVE  LET d == Allocated(c, h, k, v, charge, refs)
         IN /\ Shape(d)
            /\ d.refs = [c.refs EXCEPT ![h] = refs]
            /\ d.key = [c.key EXCEPT ![h] = k]
            /\ d.table = c.table /\ d.cached = c.cached
            /\ d.in_use = c.in_use /\ d.lru = c.lru
<1> DEFINE r == [c.refs EXCEPT ![h] = refs]
           e == [c.key EXCEPT ![h] = k]
           u == [c.value EXCEPT ![h] = v]
           a == [c.charge EXCEPT ![h] = charge]
           d == Allocated(c, h, k, v, charge, refs)
<1>1. d = [c EXCEPT !.refs = r, !.key = e, !.value = u, !.charge = a]
  BY DEF Allocated
<1> HIDE DEF r, e, u, a, d
<1>2. /\ Shape(d) /\ d.refs = r /\ d.key = e
      /\ d.table = c.table /\ d.cached = c.cached
      /\ d.in_use = c.in_use /\ d.lru = c.lru
  BY <1>1 DEF Shape
<1> QED BY <1>2 DEF r, e, d

\* The fields once the new entry is in the hash table.
NewEntry(c, d, h, k) ==
  /\ Shape(d)
  /\ d.refs = [c.refs EXCEPT ![h] = 2]
  /\ d.key = [c.key EXCEPT ![h] = k]
  /\ d.table = [c.table EXCEPT ![k] = h]
  /\ d.cached = c.cached \cup {h}
  /\ d.in_use = c.in_use \cup {h} /\ d.lru = c.lru

\* Insert's new entry has those fields.
LEMMA EnteredFields ==
  ASSUME NEW c, Shape(c), NEW h, NEW k, NEW v, NEW charge,
         NEW d, d = Entered(c, h, k, v, charge)
  PROVE  NewEntry(c, d, h, k)
<1> DEFINE a == Allocated(c, h, k, v, charge, 2)
           usage == a.usage + charge
           table == [a.table EXCEPT ![k] = h]
<1>1. /\ Shape(a)
      /\ a.refs = [c.refs EXCEPT ![h] = 2]
      /\ a.key = [c.key EXCEPT ![h] = k]
      /\ a.table = c.table /\ a.cached = c.cached
      /\ a.in_use = c.in_use /\ a.lru = c.lru
  BY SMTT(30), AllocatedFields
<1>2. d = [a EXCEPT !.cached = a.cached \cup {h}, !.in_use = a.in_use \cup {h},
                    !.usage = usage, !.table = table]
  BY DEF Entered
<1> HIDE DEF a, usage, table
<1>3. /\ Shape(d) /\ d.refs = a.refs /\ d.key = a.key /\ d.table = table
      /\ d.cached = a.cached \cup {h} /\ d.in_use = a.in_use \cup {h} /\ d.lru = a.lru
  BY <1>1, <1>2 DEF Shape
<1> QED BY <1>1, <1>3 DEF table, NewEntry

\* A new entry that replaces none.
LEMMA EnteredKeepsGood ==
  ASSUME NEW c, NEW g, Good(c, g), NEW h \in Free(c), NEW k \in Keys, NEW v, NEW charge,
         c.table[k] = NULL
  PROVE  Good(Entered(c, h, k, v, charge), [g EXCEPT ![h] = 1])
<1> DEFINE d == Entered(c, h, k, v, charge)
           f == [g EXCEPT ![h] = 1]
<1>1. h \in Handles /\ c.refs[h] = 0 /\ g[h] = 0 /\ h \notin c.cached
  BY SMTT(30) DEF Good, Typed, Refs, Free
<1>2. /\ Shape(d)
      /\ d.refs = [c.refs EXCEPT ![h] = 2]
      /\ d.key = [c.key EXCEPT ![h] = k]
      /\ d.table = [c.table EXCEPT ![k] = h]
      /\ d.cached = c.cached \cup {h}
      /\ d.in_use = c.in_use \cup {h} /\ d.lru = c.lru
  <2>1. Shape(c)
    BY DEF Good
  <2> HIDE DEF d
  <2>2. d = Entered(c, h, k, v, charge)
    BY DEF d
  <2>3. NewEntry(c, d, h, k)
    BY <2>1, <2>2, EnteredFields
  <2> QED BY <2>3 DEF NewEntry
<1> HIDE DEF d
<1>3. Typed(d, f)
  BY SMTT(30), <1>1, <1>2 DEF Good, Typed, f
<1>4. Refs(d, f)
  BY SMTT(30), <1>1, <1>2 DEF Good, Typed, Refs, f
<1>5. Lists(d, f)
  BY SMTT(30), <1>1, <1>2 DEF Good, Typed, Lists, f
<1>6. Table(d)
  BY SMTT(30), <1>1, <1>2, CacheAssumption DEF Good, Typed, Table
<1> QED BY <1>2, <1>3, <1>4, <1>5, <1>6 DEF Good, d, f

\* A new entry that replaces the one of its key: the old one leaves the cache,
\* and stays allocated while clients have it.
LEMMA ReplacedKeepsGood ==
  ASSUME NEW c, NEW g, Good(c, g), NEW h \in Free(c), NEW k \in Keys, NEW v, NEW charge,
         c.table[k] # NULL
  PROVE  Good(FinishErase(Entered(c, h, k, v, charge), c.table[k]), [g EXCEPT ![h] = 1])
<1> DEFINE e == Entered(c, h, k, v, charge)
           old == c.table[k]
           d == FinishErase(e, old)
           f == [g EXCEPT ![h] = 1]
<1>1. /\ h \in Handles /\ c.refs[h] = 0 /\ g[h] = 0 /\ h \notin c.cached
      /\ old \in Handles /\ old \in c.cached /\ c.key[old] = k /\ old # h
      /\ c.refs[old] = g[old] + 1 /\ g[old] \in Nat
  BY SMTT(30) DEF Good, Typed, Refs, Table, Free
<1>2. /\ Shape(e)
      /\ e.refs = [c.refs EXCEPT ![h] = 2]
      /\ e.key = [c.key EXCEPT ![h] = k]
      /\ e.table = [c.table EXCEPT ![k] = h]
      /\ e.cached = c.cached \cup {h}
      /\ e.in_use = c.in_use \cup {h} /\ e.lru = c.lru
  <2>1. Shape(c)
    BY DEF Good
  <2> HIDE DEF e
  <2>2. e = Entered(c, h, k, v, charge)
    BY DEF e
  <2>3. NewEntry(c, e, h, k)
    BY <2>1, <2>2, EnteredFields
  <2> QED BY <2>3 DEF NewEntry
<1>3. c.refs \in [Handles -> Nat] /\ e.refs \in [Handles -> Nat]
  BY SMTT(30), <1>1, <1>2 DEF Good, Typed
<1> HIDE DEF e, old
<1>4. /\ Shape(d)
      /\ d.refs = [e.refs EXCEPT ![old] = @ - 1]
      /\ d.key = e.key /\ d.table = e.table /\ d.cached = e.cached \ {old}
      /\ d.in_use = e.in_use \ {old} /\ d.lru = e.lru \ {old}
  <2>1. Shape(e) /\ e.refs \in [Handles -> Nat] /\ old \in e.cached /\ old \in Handles
    BY <1>1, <1>2, <1>3
  <2> QED BY <2>1, FinishEraseFields
<1> HIDE DEF d
<1>5. Typed(d, f)
  BY SMTT(30), <1>1, <1>2, <1>3, <1>4 DEF Good, Typed, f
<1>6. Refs(d, f)
  BY SMTT(30), <1>1, <1>2, <1>3, <1>4 DEF Good, Typed, Refs, f
<1>7. Lists(d, f)
  BY SMTT(30), <1>1, <1>2, <1>4 DEF Good, Typed, Lists, f
<1>8. Table(d)
  BY SMTT(30), <1>1, <1>2, <1>4, CacheAssumption DEF Good, Typed, Table
<1> QED BY <1>4, <1>5, <1>6, <1>7, <1>8 DEF Good, d, e, old, f

\* A capacity of 0 turns caching off: the new entry is its caller's alone.
LEMMA AllocatedKeepsGood ==
  ASSUME NEW c, NEW g, Good(c, g), NEW h \in Free(c), NEW k \in Keys, NEW v, NEW charge
  PROVE  Good(Allocated(c, h, k, v, charge, 1), [g EXCEPT ![h] = 1])
<1> DEFINE f == [g EXCEPT ![h] = 1]
           a == Allocated(c, h, k, v, charge, 1)
<1>1. h \in Handles /\ c.refs[h] = 0 /\ g[h] = 0 /\ h \notin c.cached
  BY SMTT(30) DEF Good, Typed, Refs, Free
<1>2. /\ Shape(a)
      /\ a.refs = [c.refs EXCEPT ![h] = 1]
      /\ a.key = [c.key EXCEPT ![h] = k]
      /\ a.table = c.table /\ a.cached = c.cached
      /\ a.in_use = c.in_use /\ a.lru = c.lru
  <2>1. Shape(c)
    BY DEF Good
  <2> QED BY SMTT(30), <2>1, AllocatedFields
<1> HIDE DEF a
<1>3. Typed(a, f)
  BY SMTT(30), <1>1, <1>2 DEF Good, Typed
<1>4. Refs(a, f)
  BY SMTT(30), <1>1, <1>2 DEF Good, Typed, Refs
<1>5. Lists(a, f)
  BY SMTT(30), <1>1, <1>2 DEF Good, Typed, Lists
<1>6. Table(a)
  BY SMTT(30), <1>1, <1>2 DEF Good, Typed, Table
<1> QED BY <1>2, <1>3, <1>4, <1>5, <1>6 DEF Good, a

\* The cache in Insert, before it evicts.
Placed(c, h, k, v, charge) ==
  IF Capacity = 0 THEN Allocated(c, h, k, v, charge, 1)
  ELSE IF c.table[k] = NULL THEN Entered(c, h, k, v, charge)
  ELSE FinishErase(Entered(c, h, k, v, charge), c.table[k])

LEMMA PlacedKeepsGood ==
  ASSUME NEW c, NEW g, Good(c, g), NEW h \in Free(c), NEW k \in Keys, NEW v, NEW charge
  PROVE  Good(Placed(c, h, k, v, charge), [g EXCEPT ![h] = 1])
<1> DEFINE f == [g EXCEPT ![h] = 1]
           e == Placed(c, h, k, v, charge)
<1>1. CASE Capacity = 0
  <2>1. Good(Allocated(c, h, k, v, charge, 1), f)
    BY AllocatedKeepsGood
  <2>2. e = Allocated(c, h, k, v, charge, 1)
    BY <1>1 DEF Placed
  <2> QED BY <2>1, <2>2
<1>2. CASE Capacity # 0 /\ c.table[k] = NULL
  <2>1. Good(Entered(c, h, k, v, charge), f)
    BY <1>2, EnteredKeepsGood
  <2>2. e = Entered(c, h, k, v, charge)
    BY <1>2 DEF Placed
  <2> QED BY <2>1, <2>2
<1>3. CASE Capacity # 0 /\ c.table[k] # NULL
  <2>1. Good(FinishErase(Entered(c, h, k, v, charge), c.table[k]), f)
    BY <1>3, ReplacedKeepsGood
  <2>2. e = FinishErase(Entered(c, h, k, v, charge), c.table[k])
    BY <1>3 DEF Placed
  <2> QED BY <2>1, <2>2
<1> QED BY <1>1, <1>2, <1>3

\* Insert gives its caller the one reference to the new entry.
LEMMA InsertKeepsGood ==
  ASSUME NEW c, NEW g, Good(c, g), NEW h \in Free(c), NEW k \in Keys, NEW v, NEW charge
  PROVE  Good(Insert(c, h, k, v, charge), [g EXCEPT ![h] = 1])
<1> DEFINE e == Placed(c, h, k, v, charge)
<1>1. Good(e, [g EXCEPT ![h] = 1])
  BY PlacedKeepsGood
<1>2. Insert(c, h, k, v, charge) = Evict(e, Surplus(e))
  BY DEF Insert, Placed
<1> HIDE DEF e
<1> QED BY <1>1, <1>2, EvictKeepsGood, SurplusUnused
-----------------------------------------------------------------------------
\* The empty cache of the constructor, nobody holding anything.
LEMMA InitGood == Init => Good(cache, held)
<1> SUFFICES ASSUME Init PROVE Good(cache, held)
  OBVIOUS
<1>1. Shape(cache)
  BY DEF Init, EmptyCache, Shape
<1> QED BY SMTT(30), <1>1, CacheAssumption DEF Init, EmptyCache, Good, Typed, Refs, Lists, Table

\* Every call of a client keeps the invariant.
LEMMA NextGood == Good(cache, held) /\ [Next]_vars => Good(cache, held)'
<1> SUFFICES ASSUME Good(cache, held), [Next]_vars PROVE Good(cache', held')
  BY DEF Good, Shape, Typed, Refs, Lists, Table
<1>1. ASSUME NEW h \in Handles, NEW k \in Keys, NEW v \in Values, NEW charge \in Charges,
             ClientInsert(h, k, v, charge)
      PROVE  Good(cache', held')
  BY <1>1, InsertKeepsGood DEF ClientInsert
<1>2. ASSUME NEW k \in Keys, ClientLookup(k) PROVE Good(cache', held')
  BY <1>2, LookupKeepsGood DEF ClientLookup
<1>3. ASSUME NEW k \in Keys, ClientErase(k) PROVE Good(cache', held')
  BY <1>3, EraseKeepsGood DEF ClientErase
<1>4. ASSUME NEW h \in Handles, ClientRelease(h) PROVE Good(cache', held')
  BY <1>4, ReleaseKeepsGood DEF ClientRelease
<1>5. CASE ClientPrune
  BY <1>5, PruneKeepsGood DEF ClientPrune
<1>6. CASE UNCHANGED vars
  BY <1>6 DEF vars
<1> QED BY <1>1, <1>2, <1>3, <1>4, <1>5, <1>6 DEF Next

\* In every cache, whatever its capacity and however many clients call Insert,
\* Lookup, Release, Erase and Prune: refs counts exactly the references of the
\* clients and the cache's own, an entry a client has is never on the list that
\* is evicted from, and the hash table and the entries agree.
THEOREM CacheIsExact == Spec => []CacheInv
<1>1. Good(cache, held) => CacheInv
  BY DEF Good, Refs, Lists, Table, CacheInv, RefsExact, ListsExact, TableExact
<1> QED BY <1>1, InitGood, NextGood, PTL DEF Spec
-----------------------------------------------------------------------------
(***************************************************************************)
(* When values are deleted.  Clients that number their values and insert   *)
(* each once, under the handle of its number (the table cache and the      *)
(* block cache do), have had S inserted, each under its key f[h].          *)
(***************************************************************************)
\* A value has been deleted exactly when its entry was inserted and is free.
Lives(c, S, f) ==
  /\ S \subseteq Handles
  /\ c.value \in [Handles -> Handles \cup {NULL}]
  /\ \A h \in S : c.value[h] = h /\ c.key[h] = f[h]
  /\ c.deleted = {h \in S : c.refs[h] = 0}
  /\ \A h \in Handles : c.refs[h] > 0 => h \in S

LEMMA RefValues ==
  ASSUME NEW c, Shape(c), NEW h
  PROVE  Ref(c, h).value = c.value /\ Ref(c, h).deleted = c.deleted
BY DEF Shape, Ref, LRU_Remove

LEMMA UnrefValues ==
  ASSUME NEW c, Shape(c), NEW h
  PROVE  /\ Unref(c, h).value = c.value
         /\ Unref(c, h).deleted = IF c.refs[h] = 1 THEN c.deleted \cup {c.value[h]} ELSE c.deleted
<1>1. CASE c.refs[h] = 1
  BY <1>1 DEF Shape, Unref
<1>2. CASE c.refs[h] # 1 /\ h \in c.cached /\ c.refs[h] = 2
  BY <1>2 DEF Shape, Unref, LRU_Remove, LRU_Append
<1>3. CASE c.refs[h] # 1 /\ ~(h \in c.cached /\ c.refs[h] = 2)
  BY <1>3 DEF Shape, Unref
<1> QED BY <1>1, <1>2, <1>3

LEMMA FinishEraseValues ==
  ASSUME NEW c, Shape(c), NEW h
  PROVE  /\ FinishErase(c, h).value = c.value
         /\ FinishErase(c, h).deleted =
              IF c.refs[h] = 1 THEN c.deleted \cup {c.value[h]} ELSE c.deleted
<1> DEFINE r == LRU_Remove(c, h)
           e == [r EXCEPT !.cached = @ \ {h}, !.usage = @ - c.charge[h]]
<1>1. Shape(r) /\ r.refs = c.refs /\ r.value = c.value /\ r.deleted = c.deleted
  <2> DEFINE older == {p \in c.older : p[1] # h /\ p[2] # h}
  <2>1. r = [c EXCEPT !.lru = c.lru \ {h}, !.in_use = c.in_use \ {h}, !.older = older]
    BY DEF LRU_Remove
  <2> HIDE DEF older, r
  <2> QED BY <2>1 DEF Shape
<1>2. FinishErase(c, h) = Unref(e, h)
  BY DEF FinishErase
<1> HIDE DEF r
<1>3. Shape(e) /\ e.refs = r.refs /\ e.value = r.value /\ e.deleted = r.deleted
  <2> DEFINE usage == r.usage - c.charge[h]
  <2>1. e = [r EXCEPT !.cached = r.cached \ {h}, !.usage = usage]
    OBVIOUS
  <2> HIDE DEF usage, e
  <2> QED BY <1>1, <2>1 DEF Shape
<1> HIDE DEF e
<1>4. /\ Unref(e, h).value = e.value
      /\ Unref(e, h).deleted = IF e.refs[h] = 1 THEN e.deleted \cup {e.value[h]} ELSE e.deleted
  BY <1>3, UnrefValues
<1> QED BY <1>1, <1>2, <1>3, <1>4

\* Lookup deletes nothing.
LEMMA LookupKeepsLives ==
  ASSUME NEW c, NEW g, Good(c, g), NEW S, NEW f, Lives(c, S, f), NEW k \in Keys, c.table[k] # NULL
  PROVE  Lives(Lookup(c, k), S, f) /\ Lookup(c, k).table = c.table
<1> DEFINE h == c.table[k]
           d == Ref(c, h)
<1>1. h \in Handles /\ h \in c.cached /\ Lookup(c, k) = d /\ Shape(c)
  BY DEF Good, Typed, Table, Lookup
<1>2. c.refs \in [Handles -> Nat] /\ c.refs[h] > 0
  BY SMTT(30), <1>1 DEF Good, Typed, Refs
<1>3. /\ d.refs = [c.refs EXCEPT ![h] = @ + 1] /\ d.key = c.key /\ d.table = c.table
      /\ d.value = c.value /\ d.deleted = c.deleted
  <2> HIDE DEF h
  <2>1. d.refs = [c.refs EXCEPT ![h] = @ + 1] /\ d.key = c.key /\ d.table = c.table
    BY <1>1, RefFields
  <2>2. d.value = c.value /\ d.deleted = c.deleted
    BY <1>1, RefValues
  <2> QED BY <2>1, <2>2
<1> HIDE DEF d, h
<1> QED BY SMTT(30), <1>1, <1>2, <1>3 DEF Lives

\* Release deletes the value when it gives back the last reference.
LEMMA ReleaseKeepsLives ==
  ASSUME NEW c, NEW g, Good(c, g), NEW S, NEW f, Lives(c, S, f), NEW h \in Handles, g[h] > 0
  PROVE  Lives(Release(c, h), S, f) /\ Release(c, h).table = c.table
<1> DEFINE d == Unref(c, h)
<1>1. c.refs \in [Handles -> Nat] /\ c.refs[h] > 0 /\ Shape(c)
  BY SMTT(30) DEF Good, Typed, Refs
<1>2. /\ d.refs = [c.refs EXCEPT ![h] = @ - 1] /\ d.key = c.key /\ d.table = c.table
      /\ d.value = c.value
      /\ d.deleted = IF c.refs[h] = 1 THEN c.deleted \cup {c.value[h]} ELSE c.deleted
  <2>1. d.refs = [c.refs EXCEPT ![h] = @ - 1] /\ d.key = c.key /\ d.table = c.table
    BY <1>1, UnrefFields
  <2>2. /\ d.value = c.value
        /\ d.deleted = IF c.refs[h] = 1 THEN c.deleted \cup {c.value[h]} ELSE c.deleted
    BY <1>1, UnrefValues
  <2> QED BY <2>1, <2>2
<1>3. Release(c, h) = d
  BY DEF Release
<1> HIDE DEF d
<1>4. h \in S /\ c.value[h] = h
  BY <1>1 DEF Lives
<1>5. d.deleted = {e \in S : d.refs[e] = 0}
  BY SMTT(30), <1>1, <1>2, <1>4 DEF Lives
<1> QED BY <1>1, <1>2, <1>3, <1>5 DEF Lives

\* Erase deletes the value when no client has it.
LEMMA EraseKeepsLives ==
  ASSUME NEW c, NEW g, Good(c, g), NEW S, NEW f, Lives(c, S, f), NEW k \in Keys
  PROVE  /\ Lives(Erase(c, k), S, f)
         /\ Erase(c, k).table[k] = NULL
         /\ \A j \in Keys : c.table[j] = NULL => Erase(c, k).table[j] = NULL
<1>1. CASE c.table[k] = NULL
  BY <1>1 DEF Erase
<1>2. CASE c.table[k] # NULL
  <2> DEFINE h == c.table[k]
             e == [c EXCEPT !.table[k] = NULL]
             d == FinishErase(e, h)
  <2>1. h \in Handles /\ h \in c.cached /\ Erase(c, k) = d
    BY <1>2 DEF Good, Typed, Table, Erase
  <2>2. /\ Shape(e) /\ e.refs = c.refs /\ e.key = c.key /\ e.cached = c.cached
        /\ e.value = c.value /\ e.deleted = c.deleted
        /\ e.table = [c.table EXCEPT ![k] = NULL]
    BY SMTT(30) DEF Good, Shape
  <2>3. c.refs \in [Handles -> Nat] /\ c.refs[h] > 0 /\ c.table \in [Keys -> Handles \cup {NULL}]
    BY SMTT(30), <2>1 DEF Good, Typed, Refs
  <2> HIDE DEF e, h
  <2>4. d.refs = [c.refs EXCEPT ![h] = @ - 1] /\ d.key = c.key /\ d.table = e.table
    BY SMTT(30), <2>1, <2>2, <2>3, FinishEraseFields
  <2>5. /\ d.value = c.value
        /\ d.deleted = IF c.refs[h] = 1 THEN c.deleted \cup {c.value[h]} ELSE c.deleted
    <3>1. Shape(e)
      BY <2>2
    <3>2. /\ d.value = e.value
          /\ d.deleted = IF e.refs[h] = 1 THEN e.deleted \cup {e.value[h]} ELSE e.deleted
      BY <3>1, FinishEraseValues
    <3> QED BY <2>2, <3>2
  <2> HIDE DEF d
  <2>6. h \in S /\ c.value[h] = h
    BY <2>1, <2>3 DEF Lives
  <2>7. d.deleted = {x \in S : d.refs[x] = 0}
    BY SMTT(30), <2>1, <2>3, <2>4, <2>5, <2>6 DEF Lives
  <2>8. Lives(d, S, f)
    BY <2>1, <2>3, <2>4, <2>5, <2>7 DEF Lives
  <2>9. d.table[k] = NULL /\ \A j \in Keys : c.table[j] = NULL => d.table[j] = NULL
    BY <2>2, <2>3, <2>4
  <2> QED BY <2>1, <2>8, <2>9
<1> QED BY <1>1, <1>2

\* Evicting entries of the lru_ list deletes their values.
LEMMA EvictKeepsLives ==
  ASSUME NEW c, NEW g, Good(c, g), NEW S, NEW f, Lives(c, S, f), NEW E, E \subseteq c.lru
  PROVE  /\ Lives(Evict(c, E), S, f)
         /\ \A j \in Keys : c.table[j] = NULL => Evict(c, E).table[j] = NULL
         /\ Evict(c, E).cached = c.cached \ E
<1> DEFINE d == Evict(c, E)
<1>1. Shape(c) /\ c.refs \in [Handles -> Nat]
  BY DEF Good, Typed
<1>2. /\ d.refs = [h \in Handles |-> IF h \in E THEN c.refs[h] - 1 ELSE c.refs[h]]
      /\ d.table = [k \in Keys |-> IF c.table[k] \in E THEN NULL ELSE c.table[k]]
      /\ d.key = c.key /\ d.cached = c.cached \ E
      /\ d.value = c.value /\ d.deleted = c.deleted \cup {c.value[h] : h \in E}
  BY SMTT(30), <1>1, EvictFields
<1> HIDE DEF d
<1>3. \A h \in E : h \in Handles /\ c.refs[h] = 1
  BY SMTT(30) DEF Good, Typed, Refs, Lists
<1>4. \A h \in E : h \in S /\ c.value[h] = h
  BY SMTT(30), <1>1, <1>3 DEF Lives
<1>5. {c.value[h] : h \in E} = E
  BY <1>4
<1>6. d.deleted = {h \in S : d.refs[h] = 0}
  BY SMTT(30), <1>1, <1>2, <1>3, <1>4, <1>5 DEF Lives
<1>7. \A h \in Handles : d.refs[h] > 0 => h \in S
  BY SMTT(30), <1>1, <1>2, <1>4 DEF Lives
<1>8. Lives(d, S, f)
  BY <1>2, <1>6, <1>7 DEF Lives
<1>9. \A j \in Keys : c.table[j] = NULL => d.table[j] = NULL
  BY <1>2
<1> QED BY <1>2, <1>8, <1>9 DEF d

\* Prune deletes the values that no client has.
LEMMA PruneKeepsLives ==
  ASSUME NEW c, NEW g, Good(c, g), NEW S, NEW f, Lives(c, S, f)
  PROVE  /\ Lives(Prune(c), S, f)
         /\ \A j \in Keys : c.table[j] = NULL => Prune(c).table[j] = NULL
         /\ Prune(c).cached = {h \in c.cached : g[h] > 0}
<1>1. c.cached \ c.lru = {h \in c.cached : g[h] > 0}
  BY SMTT(30) DEF Good, Typed, Lists
<1>2. Lives(Prune(c), S, f) /\ \A j \in Keys : c.table[j] = NULL => Prune(c).table[j] = NULL
  BY SMTT(30), EvictKeepsLives DEF Prune
<1>3. Prune(c).cached = c.cached \ c.lru
  BY EvictKeepsLives DEF Prune
<1> QED BY <1>1, <1>2, <1>3

\* A handle that is filled in for the first time has its own number and key.
LEMMA FilledLives ==
  ASSUME NEW c, NEW g, Good(c, g), NEW S, NEW f, Lives(c, S, f),
         NEW h \in Free(c), h \notin S, NEW k, f[h] = k,
         NEW d, NEW n \in Nat \ {0},
         d.refs = [c.refs EXCEPT ![h] = n], d.key = [c.key EXCEPT ![h] = k],
         d.value = [c.value EXCEPT ![h] = h], d.deleted = c.deleted
  PROVE  Lives(d, S \cup {h}, f)
<1>1. h \in Handles /\ c.refs \in [Handles -> Nat] /\ c.refs[h] = 0
      /\ c.key \in [Handles -> Keys \cup {NULL}]
  BY DEF Good, Typed, Free
<1>2. d.value \in [Handles -> Handles \cup {NULL}]
  BY SMTT(30), <1>1 DEF Lives
<1>3. \A x \in S \cup {h} : d.value[x] = x /\ d.key[x] = f[x]
  BY SMTT(30), <1>1 DEF Lives
<1>4. d.deleted = {x \in S \cup {h} : d.refs[x] = 0}
  BY SMTT(30), <1>1 DEF Lives
<1>5. \A x \in Handles : d.refs[x] > 0 => x \in S \cup {h}
  BY <1>1 DEF Lives
<1> QED BY SMTT(30), <1>1, <1>2, <1>3, <1>4, <1>5 DEF Lives

\* So has the entry of a cache whose capacity is 0.
LEMMA AllocatedLives ==
  ASSUME NEW c, NEW g, Good(c, g), NEW S, NEW f, Lives(c, S, f),
         NEW h \in Free(c), h \notin S, NEW k, f[h] = k, NEW charge
  PROVE  /\ Lives(Allocated(c, h, k, h, charge, 1), S \cup {h}, f)
         /\ Allocated(c, h, k, h, charge, 1).table = c.table
<1> DEFINE r == [c.refs EXCEPT ![h] = 1]
           e == [c.key EXCEPT ![h] = k]
           u == [c.value EXCEPT ![h] = h]
           q == [c.charge EXCEPT ![h] = charge]
           a == Allocated(c, h, k, h, charge, 1)
<1>1. a = [c EXCEPT !.refs = r, !.key = e, !.value = u, !.charge = q]
  BY DEF Allocated
<1>2. Shape(c)
  BY DEF Good
<1> HIDE DEF r, e, u, q, a
<1>3. a.refs = r /\ a.key = e /\ a.value = u /\ a.deleted = c.deleted /\ a.table = c.table
  BY <1>1, <1>2 DEF Shape
<1>4. 1 \in Nat \ {0}
  BY SMTT(30)
<1>5. /\ a.refs = [c.refs EXCEPT ![h] = 1] /\ a.key = [c.key EXCEPT ![h] = k]
      /\ a.value = [c.value EXCEPT ![h] = h] /\ a.deleted = c.deleted
  BY <1>3 DEF r, e, u
<1>6. Lives(a, S \cup {h}, f)
  BY <1>4, <1>5, FilledLives
<1> QED BY <1>3, <1>6 DEF a

\* Insert deletes what it replaces, not the new value.
LEMMA PlacedKeepsLives ==
  ASSUME NEW c, NEW g, Good(c, g), NEW S, NEW f, Lives(c, S, f),
         NEW h \in Free(c), h \notin S, NEW k \in Keys, f[h] = k, NEW charge
  PROVE  Lives(Placed(c, h, k, h, charge), S \cup {h}, f)
<1> DEFINE a == Allocated(c, h, k, h, charge, 1)
           n == Entered(c, h, k, h, charge)
           e == IF Capacity = 0 THEN a
                ELSE IF c.table[k] = NULL THEN n ELSE FinishErase(n, c.table[k])
           W == S \cup {h}
<1>0. /\ Shape(c) /\ h \in Handles /\ c.refs \in [Handles -> Nat] /\ c.refs[h] = 0
      /\ c.table \in [Keys -> Handles \cup {NULL}] /\ c.cached \subseteq Handles
  BY DEF Good, Typed, Free
<1>1. Lives(e, W, f)
  <2>1. CASE Capacity = 0
    <3>1. Lives(a, W, f) /\ a.table = c.table
      BY SMTT(30), AllocatedLives
    <3> QED BY <2>1, <3>1
  <2>2. /\ Shape(n) /\ n.refs = [c.refs EXCEPT ![h] = 2] /\ n.key = [c.key EXCEPT ![h] = k]
        /\ n.table = [c.table EXCEPT ![k] = h] /\ n.cached = c.cached \cup {h}
    BY SMTT(30), <1>0, EnteredFields DEF NewEntry
  <2>3. n.value = [c.value EXCEPT ![h] = h] /\ n.deleted = c.deleted
    BY <1>0 DEF Entered, Allocated, Shape
  <2> HIDE DEF n
  <2>4. Lives(n, W, f)
    BY SMTT(30), <2>2, <2>3, FilledLives
  <2>6. CASE Capacity # 0 /\ c.table[k] = NULL
    BY <2>4, <2>6
  <2>7. CASE Capacity # 0 /\ c.table[k] # NULL
    <3> DEFINE old == c.table[k]
               d == FinishErase(n, old)
    <3>1. old \in Handles /\ old \in c.cached /\ old # h /\ c.refs[old] > 0
      BY SMTT(30), <1>0, <2>7 DEF Good, Typed, Table, Refs
    <3>2. n.refs \in [Handles -> Nat] /\ n.refs[old] = c.refs[old] /\ old \in n.cached
      BY SMTT(30), <1>0, <2>2, <3>1
    <3> HIDE DEF old
    <3>3. d.refs = [n.refs EXCEPT ![old] = @ - 1] /\ d.key = n.key /\ d.table = n.table
      BY SMTT(30), <2>2, <3>1, <3>2, FinishEraseFields
    <3>4. /\ d.value = n.value
          /\ d.deleted = IF n.refs[old] = 1 THEN n.deleted \cup {n.value[old]} ELSE n.deleted
      <4>1. Shape(n)
        BY <2>2
      <4> QED BY <4>1, FinishEraseValues
    <3> HIDE DEF d
    <3>5. old \in W /\ n.value[old] = old
      BY <2>4, <3>1, <3>2 DEF Lives
    <3>6. d.deleted = {x \in W : d.refs[x] = 0}
      BY SMTT(30), <2>4, <3>1, <3>2, <3>3, <3>4, <3>5 DEF Lives
    <3>7. Lives(d, W, f)
      BY <2>4, <3>1, <3>2, <3>3, <3>4, <3>6 DEF Lives
    <3>8. e = d
      BY <2>7 DEF d, old
    <3> QED BY <3>7, <3>8
  <2> QED BY <2>1, <2>6, <2>7
<1> QED BY <1>1 DEF Placed

\* A key that is not cached stays so unless the new entry has it.
LEMMA PlacedElsewhere ==
  ASSUME NEW c, NEW g, Good(c, g), NEW S, NEW f, Lives(c, S, f),
         NEW h \in Free(c), h \notin S, NEW k \in Keys, f[h] = k, NEW charge,
         NEW j \in Keys, j # k, c.table[j] = NULL
  PROVE  Placed(c, h, k, h, charge).table[j] = NULL
<1> DEFINE n == Entered(c, h, k, h, charge)
<1>0. /\ Shape(c) /\ h \in Handles /\ c.refs \in [Handles -> Nat]
      /\ c.table \in [Keys -> Handles \cup {NULL}] /\ c.cached \subseteq Handles
  BY DEF Good, Typed, Free
<1>1. CASE Capacity = 0
  <2>1. /\ Lives(Allocated(c, h, k, h, charge, 1), S \cup {h}, f)
        /\ Allocated(c, h, k, h, charge, 1).table = c.table
    BY SMTT(30), AllocatedLives
  <2> QED BY <1>1, <2>1 DEF Placed
<1>2. /\ Shape(n) /\ n.refs = [c.refs EXCEPT ![h] = 2]
      /\ n.table = [c.table EXCEPT ![k] = h] /\ n.cached = c.cached \cup {h}
  <2> HIDE DEF n
  <2>1. Shape(c) /\ n = Entered(c, h, k, h, charge)
    BY <1>0 DEF n
  <2>2. NewEntry(c, n, h, k)
    BY <2>1, EnteredFields
  <2> QED BY <2>2 DEF NewEntry
<1> HIDE DEF n
<1>3. n.table[j] = NULL
  BY <1>0, <1>2
<1>4. CASE Capacity # 0 /\ c.table[k] = NULL
  BY <1>3, <1>4 DEF Placed, n
<1>5. CASE Capacity # 0 /\ c.table[k] # NULL
  <2>1. c.table[k] \in Handles /\ c.table[k] \in n.cached /\ n.refs \in [Handles -> Nat]
    BY SMTT(30), <1>0, <1>2, <1>5 DEF Good, Table
  <2>2. FinishErase(n, c.table[k]).table = n.table
    BY <1>2, <2>1, FinishEraseFields
  <2>3. Placed(c, h, k, h, charge) = FinishErase(n, c.table[k])
    BY <1>5 DEF Placed, n
  <2> QED BY <1>3, <2>2, <2>3
<1> QED BY <1>1, <1>4, <1>5
=============================================================================
