--------------------------- MODULE SkipListProofs ---------------------------
(***************************************************************************)
(* Reads of the skip list are complete, for any keys, heights and readers  *)
(* and wherever they overlap an insert.                                    *)
(*                                                                         *)
(* A reader stands on nodes of the lowest level only, whatever level it    *)
(* searches, because Insert publishes a node there first; and there every  *)
(* link leads to the next key, so nothing lies between the node a search   *)
(* ends on and the one after it.                                           *)
(***************************************************************************)
EXTENDS SkipList, NaturalsInduction, WellFoundedInduction, TLAPS

\* Zenon is the prover of the steps that name no other.
USE ZenonT(60)

\* The keys some node links to at a level.
On(nx, l) == {k \in Keys : \E p \in Nodes : nx[p][l] = k}
Places(nx) == {head} \cup On(nx, 0)

\* Links go to larger keys, and only to ones that the lowest level has.
Ordered(nx) ==
  \A p \in Nodes, l \in Levels : nx[p][l] # NULL => p < nx[p][l] /\ nx[p][l] \in On(nx, 0)

\* No node has a link at the levels that were never used.
Unused(nx, mh) == \A p \in Nodes, l \in Levels : l >= mh => nx[p][l] = NULL

\* On the lowest level no link passes over a key.
Successors(nx) ==
  \A n \in Places(nx), k \in On(nx, 0) : n < k => nx[n][0] # NULL /\ nx[n][0] <= k

\* Insert has found where its node belongs on the levels it still has to link.
WriterOK(wr, nx, mh) ==
  wr.pc # "rest" =>
    /\ wr.key \in Keys /\ wr.height <= mh /\ wr.level < wr.height
    /\ \A l \in Levels : l >= wr.level =>
         /\ wr.prev[l] \in Places(nx) /\ wr.prev[l] < wr.key
         /\ nx[wr.prev[l]][l] # NULL => wr.key < nx[wr.prev[l]][l]
         /\ wr.key \notin On(nx, l)
    /\ wr.level > 0 => wr.key \in On(nx, 0)
    /\ wr.pc = "publish" => nx[wr.key][wr.level] = nx[wr.prev[wr.level]][wr.level]

\* A reader has passed over nothing that it should have found.
ReaderOK(x, nx) ==
  /\ x.seen \subseteq On(nx, 0)
  /\ x.node # NULL => x.node \in On(nx, 0)
  /\ x.pc = "find" => /\ x.goal \in Goals /\ x.x \in Places(nx)
                      /\ x.goal.op # "last" => x.x < x.goal.key
  /\ x.pc = "found" => /\ Skipped(x.goal, x.node) \cap x.seen = {}
                       /\ x.node # NULL => x.node \in Skipped(x.goal, NULL)

Writer == [pc : {"rest", "set", "publish"}, key : Keys \cup {NULL}, height : 0..kMaxHeight,
           level : Levels, prev : [Levels -> Nodes]]
Goal == [op : {"ge", "lt", "last", "next"}, key : Nodes \cup {NULL}]
Reader == [pc : {"rest", "find", "found"}, goal : Goal \cup {NULL}, x : Nodes, level : Levels,
           node : Keys \cup {NULL}, seen : SUBSET Keys]

TypeOK ==
  /\ next \in [Nodes -> [Levels -> Keys \cup {NULL}]]
  /\ max_height \in 1..kMaxHeight
  /\ writer \in Writer
  /\ reader \in [Readers -> Reader]

SkipInv ==
  /\ TypeOK /\ Ordered(next) /\ Unused(next, max_height) /\ Successors(next)
  /\ WriterOK(writer, next, max_height)
  /\ \A r \in Readers : ReaderOK(reader[r], next)

\* The same after a step.
Kept ==
  /\ TypeOK' /\ Ordered(next') /\ Unused(next', max_height') /\ Successors(next')
  /\ WriterOK(writer', next', max_height')
  /\ \A r \in Readers : ReaderOK(reader'[r], next')
-----------------------------------------------------------------------------
(***************************************************************************)
(* The first and the last of some numbers.                                 *)
(***************************************************************************)
LEMMA FirstOf ==
  ASSUME NEW S, S \subseteq Nat, S # {}
  PROVE  \E x \in S : \A y \in S : x <= y
<1> DEFINE R == {ss \in Nat \X Nat : ss[1] < ss[2]}
<1>1. IsWellFoundedOn(R, Nat)
  BY NatLessThanWellFounded DEF OpToRel
<1> HIDE DEF R
<1>2. PICK x \in S : \A y \in S : ~(<<y, x>> \in R)
  BY <1>1, WFMin
<1>3. ASSUME NEW y \in S, y < x PROVE FALSE
  <2> DEFINE p == <<y, x>>
  <2>1. p \in Nat \X Nat /\ p[1] = y /\ p[2] = x
    OBVIOUS
  <2> HIDE DEF p
  <2>2. p \in R
    BY <1>3, <2>1 DEF R
  <2> QED BY <1>2, <2>2 DEF p
<1> QED BY SMTT(30), <1>3

LEMMA LastOf ==
  ASSUME NEW k \in Nat, NEW D, D \subseteq Nat, D # {}, \A n \in D : n < k
  PROVE  \E m \in D : \A n \in D : n <= m
<1> DEFINE E == {k - n : n \in D}
<1>1. E \subseteq Nat /\ E # {}
  <2>1. \A n \in D : k - n \in Nat /\ k - n \in E
    BY SMTT(30)
  <2> QED BY <2>1
<1>2. PICK e \in E : \A y \in E : e <= y
  BY <1>1, FirstOf
<1>3. PICK m \in D : e = k - m
  OBVIOUS
<1>4. \A n \in D : k - n \in E
  OBVIOUS
<1>5. \A n \in D : k - m <= k - n
  BY <1>2, <1>3, <1>4
<1> QED BY SMTT(30), <1>5
-----------------------------------------------------------------------------
(***************************************************************************)
(* Walks and searches.                                                     *)
(***************************************************************************)
LEMMA Numbers ==
  ASSUME SkipListAssumption
  PROVE  /\ Nodes \subseteq Nat /\ Keys \subseteq Nat /\ NULL \notin Nodes /\ Keys \subseteq Nodes
         /\ head \in Nodes /\ head = 0 /\ head \notin Keys /\ 0 \in Levels /\ Levels \subseteq Nat
         /\ \A k \in Keys : head < k
BY SMTT(30) DEF SkipListAssumption, Nodes, head, Levels

\* The walk finds every key that is linked.
LEMMA LinkedIsOn ==
  ASSUME SkipListAssumption, SkipInv
  PROVE  Linked = On(next, 0)
<1> DEFINE P == Places(next)
<1>1. /\ next \in [Nodes -> [Levels -> Keys \cup {NULL}]] /\ Ordered(next) /\ Successors(next)
  BY DEF SkipInv, TypeOK
<1>2. On(next, 0) \subseteq Keys /\ P \subseteq Nodes /\ P = {head} \cup On(next, 0)
  BY Numbers DEF On, Places
<1>3. \A n \in P : next[n][0] = NULL \/ (next[n][0] \in On(next, 0) /\ n < next[n][0])
  BY <1>1, <1>2, Numbers DEF Ordered
<1>4. ASSUME NEW k \in Linked PROVE k \in On(next, 0)
  <2>1. Walked(P)
    BY <1>2, <1>3 DEF Walked
  <2>2. k \in P /\ k \in Keys
    BY <1>2, <2>1 DEF Linked
  <2> QED BY <1>2, <2>2, Numbers
<1>5. ASSUME NEW k \in On(next, 0), NEW S \in SUBSET Nodes, Walked(S), k \notin S
      PROVE  FALSE
  <2> DEFINE D == {n \in S \cap P : n < k}
  <2>1. k \in Keys /\ k \in Nat /\ head < k
    BY <1>2, Numbers
  <2>2. D \subseteq Nat /\ D # {} /\ \A n \in D : n < k
    BY <1>2, <1>5, <2>1, Numbers DEF Walked
  <2>3. PICK m \in D : \A n \in D : n <= m
    BY <2>1, <2>2, LastOf
  <2>4. m \in P /\ m \in S /\ m < k
    BY <2>3
  <2>5. next[m][0] # NULL /\ next[m][0] <= k
    BY <1>1, <2>4 DEF Successors
  <2>6. next[m][0] \in S /\ next[m][0] \in P /\ m < next[m][0]
    BY <1>2, <1>3, <1>5, <2>4, <2>5 DEF Walked
  <2>7. next[m][0] # k /\ next[m][0] \in Nat /\ m \in Nat
    BY <1>2, <1>5, <2>4, <2>6, Numbers
  <2>8. next[m][0] \in D
    BY SMTT(30), <2>1, <2>5, <2>6, <2>7
  <2> HIDE DEF D
  <2>9. next[m][0] <= m
    BY <2>3, <2>8
  <2> QED BY SMTT(30), <2>6, <2>7, <2>9
<1>6. \A k \in On(next, 0) : k \in Linked
  BY <1>2, <1>5 DEF Linked
<1> QED BY <1>4, <1>6

\* FindGreaterOrEqual's prev: there is a last node before the key on each level.
LEMMA PredecessorIs ==
  ASSUME SkipListAssumption, SkipInv, NEW key \in Keys, key \notin On(next, 0), NEW l \in Levels
  PROVE  LET n == Predecessor(key, l) IN
         /\ n \in Places(next) /\ n < key
         /\ next[n][l] # NULL => key < next[n][l]
<1> DEFINE D == {n \in Nodes : n < key /\ (n = head \/ \E p \in Nodes : next[p][l] = n)}
           Q(n) == /\ n < key /\ (n = head \/ \E p \in Nodes : next[p][l] = n)
                   /\ ~KeyIsAfterNode(key, next[n][l])
<1>1. next \in [Nodes -> [Levels -> Keys \cup {NULL}]] /\ Ordered(next)
  BY DEF SkipInv, TypeOK
<1>2. D \subseteq Nat /\ D # {} /\ (\A n \in D : n < key) /\ key \in Nat
  BY Numbers
<1>3. PICK m \in D : \A n \in D : n <= m
  BY <1>2, LastOf
<1>4. m \in Nodes /\ m < key /\ (m = head \/ \E p \in Nodes : next[p][l] = m)
  BY <1>3
<1>5. ~KeyIsAfterNode(key, next[m][l])
  <2> SUFFICES ASSUME next[m][l] # NULL, next[m][l] < key PROVE FALSE
    BY DEF KeyIsAfterNode
  <2>1. next[m][l] \in Keys /\ m < next[m][l]
    BY <1>1, <1>4 DEF Ordered
  <2>2. next[m][l] \in D
    BY <1>4, <2>1, Numbers
  <2> HIDE DEF D
  <2>3. next[m][l] <= m /\ m \in Nat /\ next[m][l] \in Nat
    BY <1>3, <1>4, <2>1, <2>2, Numbers
  <2> QED BY SMTT(30), <2>1, <2>3
<1>6. \E n \in Nodes : Q(n)
  BY <1>4, <1>5
<1> DEFINE n == Predecessor(key, l)
<1>7. n \in Nodes /\ Q(n)
  BY <1>6 DEF Predecessor
<1> HIDE DEF n
<1>8. n \in Places(next)
  BY SMTT(30), <1>1, <1>7, Numbers DEF Ordered, Places, On
<1>9. next[n][l] # NULL => key < next[n][l]
  <2>1. next[n][l] # NULL => next[n][l] \in On(next, 0) /\ next[n][l] \in Keys
    BY <1>1, <1>7 DEF Ordered
  <2> QED BY SMTT(30), <1>7, <2>1, Numbers DEF KeyIsAfterNode
<1> QED BY <1>7, <1>8, <1>9 DEF n

\* Every key of the lowest level is linked from a node of it.
LEMMA LinkedFrom ==
  ASSUME SkipListAssumption, SkipInv, NEW k \in On(next, 0)
  PROVE  \E m \in Places(next) : next[m][0] = k
<1> DEFINE D == {n \in Places(next) : n < k}
<1>1. /\ next \in [Nodes -> [Levels -> Keys \cup {NULL}]] /\ Ordered(next) /\ Successors(next)
  BY DEF SkipInv, TypeOK
<1>2. On(next, 0) \subseteq Keys /\ Places(next) \subseteq Nodes /\ On(next, 0) \subseteq Places(next)
  BY Numbers DEF On, Places
<1>3. D \subseteq Nat /\ D # {} /\ (\A n \in D : n < k) /\ k \in Nat
  BY <1>2, Numbers DEF Places
<1>4. PICK m \in D : \A n \in D : n <= m
  BY <1>3, LastOf
<1>5. m \in Places(next) /\ m < k
  BY <1>4
<1>6. next[m][0] # NULL /\ next[m][0] <= k
  BY <1>1, <1>5 DEF Successors
<1>7. next[m][0] \in Places(next) /\ m < next[m][0]
  BY <1>1, <1>2, <1>5, <1>6, Numbers DEF Ordered
<1>8. next[m][0] \in Nat /\ m \in Nat
  BY <1>2, <1>5, <1>7, Numbers
<1>9. next[m][0] < k => next[m][0] \in D
  BY <1>7
<1> HIDE DEF D
<1>10. ~(next[m][0] < k)
  BY SMTT(30), <1>4, <1>7, <1>8, <1>9
<1> QED BY SMTT(30), <1>3, <1>5, <1>6, <1>8, <1>10

\* What a read passes over, by its goal.
LEMMA SkippedIs ==
  ASSUME NEW goal, NEW node
  PROVE  /\ goal.op = "ge" => Skipped(goal, node) =
              {k \in Keys : (node # NULL => k < node) /\ k >= goal.key}
         /\ goal.op = "next" => Skipped(goal, node) =
              {k \in Keys : (node # NULL => k < node) /\ k > goal.key}
         /\ goal.op = "lt" => Skipped(goal, node) =
              {k \in Keys : (node # NULL => k > node) /\ k < goal.key}
         /\ goal.op = "last" => Skipped(goal, node) =
              {k \in Keys : node # NULL => k > node}
<1>1. CASE node = NULL
  BY <1>1 DEF Skipped
<1>2. CASE node # NULL
  BY <1>2 DEF Skipped
<1> QED BY <1>1, <1>2

\* A reader that stays where it is has not missed the keys added since.
LEMMA ReaderStays ==
  ASSUME NEW x, NEW nx, NEW ny, ReaderOK(x, nx), On(nx, 0) \subseteq On(ny, 0)
  PROVE  ReaderOK(x, ny)
BY DEF ReaderOK, Places
-----------------------------------------------------------------------------
(***************************************************************************)
(* The steps of Insert.                                                    *)
(***************************************************************************)
LEMMA InsertBeginStep ==
  ASSUME SkipListAssumption, SkipInv, NEW key \in Keys, NEW height \in 1..kMaxHeight,
         InsertBegin(key, height)
  PROVE  Kept
<1> DEFINE prev == [l \in Levels |-> IF l >= max_height THEN head ELSE Predecessor(key, l)]
           w == [writer EXCEPT !.pc = "set", !.key = key, !.height = height, !.level = 0, !.prev = prev]
<1>0. /\ TypeOK /\ Ordered(next) /\ Unused(next, max_height) /\ kMaxHeight \in Nat /\ 0 \in Levels
      /\ \A p \in Nodes : next[p] \in [Levels -> Keys \cup {NULL}]
  BY Numbers DEF SkipInv, TypeOK, SkipListAssumption
<1>1. /\ writer' = w /\ key \notin On(next, 0) /\ UNCHANGED <<next, reader>>
      /\ max_height' = IF height > max_height THEN height ELSE max_height
  BY LinkedIsOn DEF InsertBegin
<1>2. \A l \in Levels : /\ prev[l] \in Places(next) /\ prev[l] < key
                        /\ next[prev[l]][l] # NULL => key < next[prev[l]][l]
  <2>1. ASSUME NEW l \in Levels, l >= max_height
        PROVE  /\ prev[l] = head /\ head \in Places(next) /\ head < key /\ next[head][l] = NULL
    BY <1>0, <2>1, Numbers DEF Unused, Places
  <2>2. ASSUME NEW l \in Levels, ~(l >= max_height)
        PROVE  /\ prev[l] \in Places(next) /\ prev[l] < key
               /\ next[prev[l]][l] # NULL => key < next[prev[l]][l]
    <3>1. prev[l] = Predecessor(key, l)
      BY <2>2
    <3> QED BY <1>1, <3>1, PredecessorIs
  <2> HIDE DEF prev
  <2> QED BY <2>1, <2>2
<1>3. Places(next) \subseteq Nodes
  BY Numbers DEF Places, On
<1>4. prev \in [Levels -> Nodes]
  <2>1. \A l \in Levels : prev[l] \in Nodes
    BY <1>2, <1>3
  <2> QED BY <2>1
<1> HIDE DEF prev
<1>5. /\ w \in Writer /\ w.pc = "set" /\ w.key = key /\ w.height = height /\ w.level = 0 /\ w.prev = prev
  <2>1. writer \in Writer /\ height \in 0..kMaxHeight /\ 0 \in Levels
    BY SMTT(30), <1>0 DEF TypeOK
  <2> QED BY <1>4, <2>1 DEF Writer
<1> HIDE DEF w
<1>6. height <= max_height' /\ max_height' \in 1..kMaxHeight /\ max_height <= max_height'
  BY SMTT(30), <1>0, <1>1 DEF TypeOK
<1>7. TypeOK'
  BY <1>0, <1>1, <1>5, <1>6 DEF TypeOK
<1>8. \A l \in Levels : On(next, l) \subseteq On(next, 0)
  BY SMTT(30), <1>0, Numbers DEF On, Ordered
<1>9. WriterOK(writer', next', max_height')
  <2>1. w.level < w.height
    BY SMTT(30), <1>5
  <2> QED BY SMTT(30), <1>1, <1>2, <1>5, <1>6, <1>8, <2>1 DEF WriterOK
<1>10. Unused(next', max_height')
  <2>1. ASSUME NEW l \in Levels, l >= max_height' PROVE l >= max_height
    BY SMTT(30), <1>0, <1>6, <2>1, Numbers DEF TypeOK
  <2> QED BY <1>0, <1>1, <2>1 DEF Unused
<1> QED BY <1>1, <1>7, <1>9, <1>10 DEF SkipInv, Kept

\* The new node's link is set before anything leads to the node: on the lowest
\* level nothing changes.
LEMMA SetLinkStep ==
  ASSUME SkipListAssumption, SkipInv, SetLink
  PROVE  Kept
<1> DEFINE key == writer.key
           lv == writer.level
           prev == writer.prev
           nx == [next EXCEPT ![key][lv] = next[prev[lv]][lv]]
           w == [writer EXCEPT !.pc = "publish"]
<1>0. /\ TypeOK /\ Ordered(next) /\ Unused(next, max_height) /\ Successors(next)
      /\ WriterOK(writer, next, max_height) /\ writer \in Writer
      /\ next \in [Nodes -> [Levels -> Keys \cup {NULL}]]
  BY DEF SkipInv, TypeOK
<1>1. next' = nx /\ writer' = w /\ writer.pc = "set" /\ UNCHANGED <<max_height, reader>>
  BY DEF SetLink
<1>2. /\ w \in Writer /\ w.pc = "publish" /\ w.key = key /\ w.level = lv /\ w.prev = prev
      /\ w.height = writer.height /\ lv \in Levels /\ prev \in [Levels -> Nodes]
      /\ writer.height \in 0..kMaxHeight
  BY <1>0 DEF Writer
<1>3. /\ key \in Keys /\ writer.height <= max_height /\ lv < writer.height
      /\ \A l \in Levels : l >= lv =>
           /\ prev[l] \in Places(next) /\ prev[l] < key
           /\ next[prev[l]][l] # NULL => key < next[prev[l]][l]
           /\ key \notin On(next, l)
      /\ lv > 0 => key \in On(next, 0)
  BY <1>0, <1>1 DEF WriterOK
<1> HIDE DEF w, key, lv, prev
<1>4. /\ key \in Nodes /\ lv >= lv /\ prev[lv] \in Nodes
      /\ Places(next) \subseteq Nodes /\ \A l \in Levels : l >= lv => prev[l] # key
  BY SMTT(30), <1>2, <1>3, Numbers DEF Places, On
<1>5. /\ nx \in [Nodes -> [Levels -> Keys \cup {NULL}]] /\ nx[key][lv] = next[prev[lv]][lv]
      /\ \A p \in Nodes, l \in Levels : p # key \/ l # lv => nx[p][l] = next[p][l]
  BY SMTT(30), <1>0, <1>2, <1>4
<1> HIDE DEF nx
<1>6. lv = 0 => key \notin Places(next)
  BY SMTT(30), <1>3, Numbers DEF Places
<1>7. \A l \in Levels : On(nx, l) \subseteq On(next, l)
  BY SMTT(30), <1>2, <1>4, <1>5 DEF On
<1>8. On(next, 0) \subseteq On(nx, 0)
  <2> SUFFICES ASSUME NEW k \in On(next, 0) PROVE k \in On(nx, 0)
    OBVIOUS
  <2>1. PICK m \in Places(next) : next[m][0] = k
    BY LinkedFrom
  <2>2. nx[m][0] = k /\ m \in Nodes /\ k \in Keys
    BY <1>4, <1>5, <1>6, <2>1, Numbers DEF On
  <2> QED BY <2>2 DEF On
<1>9. On(nx, 0) = On(next, 0) /\ Places(nx) = Places(next)
  BY <1>7, <1>8, Numbers DEF Places
<1>10. Ordered(nx)
  <2> SUFFICES ASSUME NEW p \in Nodes, NEW l \in Levels, nx[p][l] # NULL
               PROVE  p < nx[p][l] /\ nx[p][l] \in On(next, 0)
    BY <1>9 DEF Ordered
  <2>1. CASE p = key /\ l = lv
    BY <1>0, <1>2, <1>3, <1>4, <1>5, <2>1 DEF Ordered
  <2>2. CASE ~(p = key /\ l = lv)
    BY <1>0, <1>5, <2>2 DEF Ordered
  <2> QED BY <2>1, <2>2
<1>11. Unused(nx, max_height)
  <2>1. ~(lv >= max_height)
    BY SMTT(30), <1>0, <1>2, <1>3, Numbers DEF TypeOK
  <2> QED BY <1>0, <1>5, <2>1 DEF Unused
<1>12. Successors(nx)
  <2>1. \A n \in Places(next) : nx[n][0] = next[n][0]
    BY <1>4, <1>5, <1>6, Numbers
  <2> QED BY <1>0, <1>9, <2>1 DEF Successors
<1>13. WriterOK(w, nx, max_height)
  <2>1. \A l \in Levels : l >= lv => nx[prev[l]][l] = next[prev[l]][l]
    BY <1>2, <1>4, <1>5
  <2> QED BY <1>2, <1>3, <1>4, <1>5, <1>7, <1>9, <2>1 DEF WriterOK
<1>14. TypeOK'
  BY <1>0, <1>1, <1>2, <1>5 DEF TypeOK
<1>15. \A r \in Readers : ReaderOK(reader[r], nx)
  BY <1>9, ReaderStays DEF SkipInv
<1> QED BY <1>1, <1>10, <1>11, <1>12, <1>13, <1>14, <1>15 DEF Kept

\* The node appears on a level, on the lowest one first.
LEMMA PublishStep ==
  ASSUME SkipListAssumption, SkipInv, Publish
  PROVE  Kept
<1> DEFINE key == writer.key
           lv == writer.level
           prev == writer.prev
           q == prev[lv]
           nx == [next EXCEPT ![q][lv] = key]
<1>0. /\ TypeOK /\ Ordered(next) /\ Unused(next, max_height) /\ Successors(next)
      /\ WriterOK(writer, next, max_height) /\ writer \in Writer
      /\ next \in [Nodes -> [Levels -> Keys \cup {NULL}]]
  BY DEF SkipInv, TypeOK
<1>1. /\ next' = nx /\ writer.pc = "publish" /\ UNCHANGED <<max_height, reader>>
      /\ writer' = IF lv + 1 = writer.height THEN Resting
                   ELSE [writer EXCEPT !.pc = "set", !.level = lv + 1]
  BY DEF Publish
<1>2. lv \in Levels /\ prev \in [Levels -> Nodes] /\ writer.height \in 0..kMaxHeight
  BY <1>0 DEF Writer
<1>3. /\ key \in Keys /\ writer.height <= max_height /\ lv < writer.height
      /\ \A l \in Levels : l >= lv =>
           /\ prev[l] \in Places(next) /\ prev[l] < key
           /\ next[prev[l]][l] # NULL => key < next[prev[l]][l]
           /\ key \notin On(next, l)
      /\ lv > 0 => key \in On(next, 0)
      /\ next[key][lv] = next[q][lv]
  BY <1>0, <1>1 DEF WriterOK
<1>4. /\ key \in Nodes /\ key \in Nat /\ q \in Nodes /\ q \in Nat /\ q \in Places(next) /\ q < key /\ q # key
      /\ next[q][lv] # NULL => key < next[q][lv]
      /\ Places(next) \subseteq Nodes /\ On(next, 0) \subseteq Keys
  BY SMTT(30), <1>2, <1>3, Numbers DEF Places, On
<1> HIDE DEF q
<1>5. /\ nx \in [Nodes -> [Levels -> Keys \cup {NULL}]] /\ nx[q][lv] = key
      /\ \A p \in Nodes, l \in Levels : p # q \/ l # lv => nx[p][l] = next[p][l]
  BY <1>0, <1>2, <1>3, <1>4
<1> HIDE DEF nx, key, lv, prev
<1>6. On(nx, 0) = On(next, 0) \cup {key}
  <2>1. CASE lv = 0
    <3>1. key \in On(nx, 0)
      BY <1>3, <1>4, <1>5, <2>1 DEF On
    <3>2. ASSUME NEW k \in On(next, 0) PROVE k \in On(nx, 0)
      <4>1. PICK p \in Nodes : next[p][0] = k
        BY DEF On
      <4>2. \E u \in Nodes : nx[u][0] = k
        BY <1>3, <1>4, <1>5, <2>1, <4>1, Numbers
      <4> QED BY <1>4, <4>2 DEF On
    <3>3. ASSUME NEW k \in On(nx, 0), k # key PROVE k \in On(next, 0)
      BY <1>4, <1>5, <2>1, <3>3, Numbers DEF On
    <3> QED BY <3>1, <3>2, <3>3
  <2>2. CASE lv # 0
    <3>1. key \in On(next, 0)
      BY SMTT(30), <1>2, <1>3, <2>2, Numbers
    <3>2. On(nx, 0) = On(next, 0)
      BY <1>5, <2>2, Numbers DEF On
    <3> QED BY <3>1, <3>2
  <2> QED BY <2>1, <2>2
<1>7. Ordered(nx)
  <2> SUFFICES ASSUME NEW p \in Nodes, NEW l \in Levels, nx[p][l] # NULL
               PROVE  p < nx[p][l] /\ nx[p][l] \in On(nx, 0)
    BY DEF Ordered
  <2>1. CASE p = q /\ l = lv
    BY <1>4, <1>5, <1>6, <2>1
  <2>2. CASE ~(p = q /\ l = lv)
    BY <1>0, <1>5, <1>6, <2>2 DEF Ordered
  <2> QED BY <2>1, <2>2
<1>8. Unused(nx, max_height)
  <2>1. ~(lv >= max_height)
    BY SMTT(30), <1>0, <1>2, <1>3, Numbers DEF TypeOK
  <2> QED BY <1>0, <1>5, <2>1 DEF Unused
<1>9. Successors(nx)
  <2> SUFFICES ASSUME NEW n \in Places(next) \cup {key}, NEW k \in On(next, 0) \cup {key}, n < k
               PROVE  nx[n][0] # NULL /\ nx[n][0] <= k
    BY <1>6 DEF Successors, Places
  <2>0. n \in Nat /\ k \in Nat /\ n \in Nodes /\ k \in Keys /\ NULL \notin Keys /\ 0 \in Levels
        /\ \A m \in Nodes : next[m][0] = NULL \/ next[m][0] \in Nat
    BY <1>0, <1>3, <1>4, Numbers
  <2>1. \A m \in Places(next), j \in On(next, 0) : m < j => next[m][0] # NULL /\ next[m][0] <= j
    BY <1>0 DEF Successors
  <2>2. CASE lv # 0
    <3>1. n \in Places(next) /\ k \in On(next, 0) /\ nx[n][0] = next[n][0]
      BY SMTT(30), <1>2, <1>3, <1>5, <2>0, <2>2, Numbers DEF Places
    <3> QED BY <2>1, <3>1
  <2>3. CASE lv = 0 /\ n = q
    <3>1. nx[n][0] = key
      BY <1>5, <2>3
    <3>2. k # key => key < k
      BY SMTT(30), <1>4, <2>0, <2>1, <2>3
    <3> QED BY SMTT(30), <1>3, <1>4, <2>0, <3>1, <3>2
  <2>4. CASE lv = 0 /\ n = key
    <3>1. nx[n][0] = next[q][0] /\ k \in On(next, 0) /\ q < k
      BY SMTT(30), <1>3, <1>4, <1>5, <2>0, <2>4
    <3> QED BY <1>4, <2>1, <3>1
  <2>5. CASE lv = 0 /\ n # q /\ n # key
    <3>1. nx[n][0] = next[n][0] /\ n \in Places(next)
      BY <1>5, <2>0, <2>5
    <3>2. CASE k \in On(next, 0)
      BY <2>1, <3>1, <3>2
    <3>3. CASE k = key
      <4>1. CASE n < q
        <5>1. q \in On(next, 0)
          BY SMTT(30), <1>4, <2>0, <4>1, Numbers DEF Places
        <5>2. next[n][0] # NULL /\ next[n][0] <= q
          BY <2>1, <3>1, <4>1, <5>1
        <5> QED BY SMTT(30), <1>4, <2>0, <3>1, <3>3, <5>2
      <4>2. CASE q < n
        <5>1. n \in On(next, 0)
          BY SMTT(30), <1>4, <2>0, <3>1, <4>2, Numbers DEF Places
        <5>2. next[q][0] # NULL /\ next[q][0] <= n
          BY <1>4, <2>1, <4>2, <5>1
        <5> QED BY SMTT(30), <1>4, <2>0, <2>5, <3>3, <5>2
      <4> QED BY SMTT(30), <1>4, <2>0, <2>5, <4>1, <4>2
    <3> QED BY <3>2, <3>3
  <2> QED BY <2>2, <2>3, <2>4, <2>5
<1>10. writer' \in Writer /\ WriterOK(writer', nx, max_height)
  <2>1. CASE lv + 1 = writer.height
    <3>1. Resting \in Writer /\ Resting.pc = "rest"
      BY SMTT(30), Numbers DEF Resting, Writer, SkipListAssumption
    <3> QED BY <1>1, <2>1, <3>1 DEF WriterOK
  <2>2. CASE lv + 1 # writer.height
    <3> DEFINE w == [writer EXCEPT !.pc = "set", !.level = lv + 1]
    <3>1. lv \in Nat /\ lv + 1 \in Levels /\ lv + 1 < writer.height
      BY SMTT(30), <1>2, <1>3, <2>2 DEF Levels, SkipListAssumption
    <3>2. /\ w \in Writer /\ w.pc = "set" /\ w.key = key /\ w.height = writer.height
          /\ w.level = lv + 1 /\ w.prev = prev
      BY <1>0, <3>1 DEF Writer, key, prev
    <3>3. writer' = w
      BY <1>1, <2>2
    <3> HIDE DEF w
    <3>4. ASSUME NEW l \in Levels, l >= lv + 1
          PROVE  /\ prev[l] \in Places(nx) /\ prev[l] < key
                 /\ nx[prev[l]][l] # NULL => key < nx[prev[l]][l]
                 /\ key \notin On(nx, l)
      <4>1. l >= lv /\ l # lv
        BY SMTT(30), <3>1, <3>4, Numbers
      <4>2. On(nx, l) = On(next, l) /\ nx[prev[l]][l] = next[prev[l]][l]
        BY <1>2, <1>5, <4>1 DEF On
      <4> QED BY <1>3, <1>6, <4>1, <4>2 DEF Places
    <3>5. key \in On(nx, 0)
      BY <1>6
    <3> QED BY <1>3, <3>1, <3>2, <3>3, <3>4, <3>5 DEF WriterOK
  <2> QED BY <2>1, <2>2
<1>11. TypeOK'
  BY <1>0, <1>1, <1>5, <1>10 DEF TypeOK
<1>12. \A r \in Readers : ReaderOK(reader[r], nx)
  BY <1>6, ReaderStays DEF SkipInv
<1> QED BY <1>1, <1>7, <1>8, <1>9, <1>10, <1>11, <1>12 DEF Kept
-----------------------------------------------------------------------------
(***************************************************************************)
(* The steps of the iterators, and every step.                             *)
(***************************************************************************)
\* A reader becomes x.
LEMMA ReaderStep ==
  ASSUME SkipInv, NEW r \in Readers, NEW x \in Reader, ReaderOK(x, next),
         reader' = [reader EXCEPT ![r] = x], UNCHANGED <<next, max_height, writer>>
  PROVE  Kept
<1>1. reader \in [Readers -> Reader] /\ TypeOK
  BY DEF SkipInv, TypeOK
<1>2. TypeOK'
  BY <1>1 DEF TypeOK
<1>3. \A q \in Readers : ReaderOK(reader'[q], next)
  BY <1>1 DEF SkipInv
<1> QED BY <1>2, <1>3 DEF SkipInv, Kept

LEMMA FindBeginStep ==
  ASSUME SkipListAssumption, SkipInv, NEW r \in Readers, NEW goal \in Goals,
         NEW height \in 1..kMaxHeight, FindBegin(r, goal, height)
  PROVE  Kept
<1> DEFINE x == [reader[r] EXCEPT !.pc = "find", !.goal = goal, !.x = head, !.level = height - 1,
                                  !.seen = On(next, 0)]
<1>1. reader[r] \in Reader /\ ReaderOK(reader[r], next) /\ reader \in [Readers -> Reader]
  BY DEF SkipInv, TypeOK
<1>2. reader' = [reader EXCEPT ![r] = x] /\ UNCHANGED <<next, max_height, writer>>
  BY <1>1, LinkedIsOn DEF FindBegin
<1>3. goal \in Goal /\ (goal.op # "last" => goal.key \in Keys)
  BY SMTT(30), Numbers DEF Goals, Goal
<1>4. height - 1 \in Levels /\ head \in Nodes /\ On(next, 0) \subseteq Keys
  BY SMTT(30), Numbers DEF Levels, SkipListAssumption, On
<1>5. /\ x \in Reader /\ x.pc = "find" /\ x.goal = goal /\ x.x = head /\ x.seen = On(next, 0)
      /\ x.node = reader[r].node
  BY <1>1, <1>3, <1>4 DEF Reader
<1> HIDE DEF x
<1>6. ReaderOK(x, next)
  BY <1>1, <1>3, <1>5, Numbers DEF ReaderOK, Places
<1> QED BY <1>2, <1>5, <1>6, ReaderStep

\* The three ways the loops go on with the link n of level l.
LEMMA FindStepStep ==
  ASSUME SkipListAssumption, SkipInv, NEW r \in Readers, FindStep(r)
  PROVE  Kept
<1> DEFINE y == reader[r]
           n == next[y.x][y.level]
           on == n # NULL /\ (y.goal.op = "last" \/ n < y.goal.key)
<1>1. /\ y \in Reader /\ ReaderOK(y, next) /\ reader \in [Readers -> Reader]
      /\ next \in [Nodes -> [Levels -> Keys \cup {NULL}]] /\ Ordered(next) /\ Successors(next)
  BY DEF SkipInv, TypeOK
<1>2. /\ y.pc = "find" /\ UNCHANGED <<next, max_height, writer>>
      /\ reader' = [reader EXCEPT ![r] =
           IF on THEN [y EXCEPT !.x = n]
           ELSE IF y.level > 0 THEN [y EXCEPT !.level = y.level - 1]
           ELSE Found(r, IF y.goal.op = "ge" THEN n ELSE y.x)]
  BY <1>1 DEF FindStep
<1>3. /\ y.x \in Nodes /\ y.level \in Levels /\ y.goal \in Goals /\ y.x \in Places(next)
      /\ y.goal.op # "last" => y.x < y.goal.key /\ y.goal.key \in Keys
      /\ y.seen \subseteq On(next, 0) /\ (y.node # NULL => y.node \in On(next, 0))
      /\ y.goal.op \in {"ge", "lt", "last"}
  <2>1. \A g \in Goals : g.op \in {"ge", "lt", "last"} /\ (g.op # "last" => g.key \in Keys)
    BY SMTT(30) DEF Goals
  <2> QED BY <1>1, <1>2, <2>1 DEF Reader, ReaderOK
<1> HIDE DEF y
<1>4. n \in Keys \cup {NULL} /\ (n # NULL => n \in On(next, 0) /\ y.x < n)
  BY <1>1, <1>3 DEF Ordered
<1> HIDE DEF n
<1>5. ASSUME on PROVE Kept
  <2> DEFINE x == [y EXCEPT !.x = n]
  <2>1. n \in Nodes /\ n # NULL /\ n \in Places(next) /\ (y.goal.op # "last" => n < y.goal.key)
    BY <1>4, <1>5, Numbers DEF Places
  <2>2. /\ x \in Reader /\ x.pc = y.pc /\ x.goal = y.goal /\ x.x = n /\ x.seen = y.seen
        /\ x.node = y.node
    BY <1>1, <2>1 DEF Reader
  <2>3. reader' = [reader EXCEPT ![r] = x]
    BY <1>2, <1>5
  <2> HIDE DEF x
  <2>4. ReaderOK(x, next)
    BY <1>2, <1>3, <2>1, <2>2 DEF ReaderOK
  <2> QED BY <1>2, <2>2, <2>3, <2>4, ReaderStep
<1>6. ASSUME ~on, y.level > 0 PROVE Kept
  <2> DEFINE x == [y EXCEPT !.level = y.level - 1]
  <2>1. y.level - 1 \in Levels
    BY SMTT(30), <1>3, <1>6 DEF Levels, SkipListAssumption
  <2>2. /\ x \in Reader /\ x.pc = y.pc /\ x.goal = y.goal /\ x.x = y.x /\ x.seen = y.seen
        /\ x.node = y.node
    BY <1>1, <2>1 DEF Reader
  <2>3. reader' = [reader EXCEPT ![r] = x]
    BY <1>2, <1>6
  <2> HIDE DEF x
  <2>4. ReaderOK(x, next)
    BY <1>2, <1>3, <2>2 DEF ReaderOK
  <2> QED BY <1>2, <2>2, <2>3, <2>4, ReaderStep
<1>7. ASSUME ~on, ~(y.level > 0) PROVE Kept
  <2> DEFINE m == IF y.goal.op = "ge" THEN n ELSE y.x
             e == IF m = head THEN NULL ELSE m
             x == [y EXCEPT !.pc = "found", !.node = e]
  <2>1. y.level = 0 /\ n = next[y.x][0]
    BY SMTT(30), <1>3, <1>7, Numbers DEF n
  <2>2. /\ y.goal.op = "ge" => e = n
        /\ y.goal.op # "ge" => e = IF y.x = head THEN NULL ELSE y.x
        /\ e \in Keys \cup {NULL} /\ (e # NULL => e \in On(next, 0))
    <3>1. n # head /\ NULL # head /\ (y.x = head \/ y.x \in On(next, 0)) /\ On(next, 0) \subseteq Keys
      BY <1>3, <1>4, Numbers DEF Places, On
    <3>2. CASE y.goal.op = "ge"
      BY <1>4, <3>1, <3>2
    <3>3. CASE y.goal.op # "ge"
      BY <3>1, <3>3
    <3> QED BY <3>2, <3>3
  <2>3. reader' = [reader EXCEPT ![r] = x]
    BY <1>2, <1>7 DEF Found, y
  <2> HIDE DEF m, e
  <2>4. /\ x \in Reader /\ x.pc = "found" /\ x.goal = y.goal /\ x.seen = y.seen /\ x.node = e
    BY <1>1, <2>2 DEF Reader
  <2> HIDE DEF x
  <2>5. ASSUME NEW k \in y.seen, y.x < k PROVE n # NULL /\ n <= k
    BY <1>1, <1>3, <2>1, <2>5 DEF Successors
  <2>6. /\ \A k \in y.seen : k \in Nat /\ k \in Keys /\ (y.x = head => y.x < k)
        /\ (n # NULL => n \in Nat) /\ y.x \in Nat /\ (y.goal.op # "last" => y.goal.key \in Nat)
        /\ NULL \notin Keys /\ y.x # NULL
    BY <1>3, <1>4, Numbers DEF On
  <2>7. Skipped(y.goal, e) \cap y.seen = {} /\ (e # NULL => e \in Skipped(y.goal, NULL))
    <3>1. CASE y.goal.op = "ge"
      BY SMTT(30), <1>3, <1>7, <2>2, <2>5, <2>6, <3>1, SkippedIs
    <3>2. ASSUME y.goal.op # "ge", NEW k \in y.seen, e # NULL => k > e PROVE y.x < k
      BY <2>2, <2>6, <3>2
    <3>3. CASE y.goal.op = "lt"
      <4>1. n # NULL => n >= y.goal.key
        BY SMTT(30), <1>3, <1>7, <2>6, <3>3
      <4>2. \A k \in y.seen : (e # NULL => k > e) => ~(k < y.goal.key)
        BY SMTT(30), <1>3, <2>5, <2>6, <3>2, <3>3, <4>1
      <4>3. e # NULL => e \in Keys /\ e < y.goal.key
        BY <1>3, <2>2, <3>3
      <4>4. Skipped(y.goal, e) = {k \in Keys : (e # NULL => k > e) /\ k < y.goal.key}
        BY <3>3, SkippedIs
      <4>5. Skipped(y.goal, NULL) = {k \in Keys : k < y.goal.key}
        BY SMTT(30), <3>3, SkippedIs
      <4> QED BY <4>2, <4>3, <4>4, <4>5
    <3>4. CASE y.goal.op = "last"
      <4>1. \A k \in y.seen : ~(e # NULL => k > e)
        BY <1>7, <2>5, <3>2, <3>4
      <4>2. Skipped(y.goal, e) = {k \in Keys : e # NULL => k > e}
        BY SMTT(30), <3>4, SkippedIs
      <4>3. Skipped(y.goal, NULL) = Keys
        <5>1. Skipped(y.goal, NULL) = {k \in Keys : NULL # NULL => k > NULL}
          BY <3>4, SkippedIs
        <5> QED BY <5>1
      <4> QED BY <2>2, <4>1, <4>2, <4>3
    <3> QED BY <1>3, <3>1, <3>3, <3>4
  <2>8. ReaderOK(x, next)
    BY <1>3, <2>2, <2>4, <2>7 DEF ReaderOK
  <2> QED BY <1>2, <2>3, <2>4, <2>8, ReaderStep
<1> QED BY <1>5, <1>6, <1>7

LEMMA NextNodeStep ==
  ASSUME SkipListAssumption, SkipInv, NEW r \in Readers, NEW from \in Nodes, NextNode(r, from)
  PROVE  Kept
<1> DEFINE y == reader[r]
           n == next[from][0]
           goal == [op |-> "next", key |-> from]
           x == [y EXCEPT !.pc = "found", !.node = n, !.seen = On(next, 0), !.goal = goal]
<1>1. /\ y \in Reader /\ ReaderOK(y, next) /\ reader \in [Readers -> Reader]
      /\ next \in [Nodes -> [Levels -> Keys \cup {NULL}]] /\ Ordered(next) /\ Successors(next)
  BY DEF SkipInv, TypeOK
<1>2. /\ UNCHANGED <<next, max_height, writer>> /\ reader' = [reader EXCEPT ![r] = x]
      /\ from \in {head, y.node} \ {NULL}
  BY <1>1, LinkedIsOn DEF NextNode
<1>3. from \in Places(next) /\ from \in Nat /\ On(next, 0) \subseteq Keys /\ Keys \subseteq Nat
  BY <1>1, <1>2, Numbers DEF ReaderOK, Places, On
<1>4. n \in Keys \cup {NULL} /\ (n # NULL => n \in On(next, 0) /\ from < n)
  BY <1>1, Numbers DEF Ordered
<1>5. goal \in Goal /\ goal.op = "next" /\ goal.key = from
  BY DEF Goal
<1> HIDE DEF y, n, goal
<1>6. /\ x \in Reader /\ x.pc = "found" /\ x.goal = goal /\ x.node = n /\ x.seen = On(next, 0)
  BY <1>1, <1>3, <1>4, <1>5 DEF Reader
<1> HIDE DEF x
<1>7. \A k \in On(next, 0) : from < k => n # NULL /\ n <= k
  BY <1>1, <1>3 DEF Successors, n
<1>8. Skipped(goal, n) = {k \in Keys : (n # NULL => k < n) /\ k > from}
  BY SMTT(30), <1>5, SkippedIs
<1>9. Skipped(goal, NULL) = {k \in Keys : k > from}
  <2>1. Skipped(goal, NULL) = {k \in Keys : (NULL # NULL => k < NULL) /\ k > from}
    BY SMTT(30), <1>5, SkippedIs
  <2> QED BY <2>1
<1>10. Skipped(goal, n) \cap On(next, 0) = {} /\ (n # NULL => n \in Skipped(goal, NULL))
  <2>1. ASSUME NEW k \in On(next, 0), n # NULL => k < n, k > from PROVE FALSE
    <3>1. k \in Nat /\ from < k
      BY <1>3, <2>1
    <3>2. n # NULL /\ n <= k
      BY <1>7, <3>1
    <3>3. n \in Nat /\ k < n
      BY <1>3, <1>4, <2>1, <3>2
    <3> QED BY SMTT(30), <3>1, <3>2, <3>3
  <2>2. n # NULL => n \in Keys /\ n > from
    <3>1. ASSUME n # NULL PROVE n \in Nat /\ n \in Keys /\ from < n
      BY <1>3, <1>4, <3>1
    <3> QED BY <1>3, <3>1
  <2> QED BY <1>8, <1>9, <2>1, <2>2
<1>11. ReaderOK(x, next)
  BY <1>4, <1>6, <1>10 DEF ReaderOK
<1> QED BY <1>2, <1>6, <1>11, ReaderStep

LEMMA NextKept ==
  ASSUME SkipListAssumption, SkipInv, [Next]_vars
  PROVE  Kept
<1>1. CASE UNCHANGED vars
  BY <1>1 DEF vars, SkipInv, Kept, TypeOK
<1>2. CASE Next
  <2>1. ASSUME NEW r \in Readers,
               \/ \E goal \in Goals, height \in 1..kMaxHeight : FindBegin(r, goal, height)
               \/ FindStep(r)
               \/ \E from \in Nodes : NextNode(r, from)
        PROVE  Kept
    BY <2>1, FindBeginStep, FindStepStep, NextNodeStep
  <2> QED BY <1>2, <2>1, InsertBeginStep, SetLinkStep, PublishStep DEF Next
<1> QED BY <1>1, <1>2

LEMMA KeptIsInvariant ==
  ASSUME Kept
  PROVE  SkipInv'
<1>1. Ordered(next)' /\ Unused(next, max_height)' /\ Successors(next)'
  BY DEF Kept, Ordered, Unused, Successors, Places, On
<1>2. WriterOK(writer, next, max_height)'
  BY DEF Kept, WriterOK, Places, On
<1>3. (\A r \in Readers : ReaderOK(reader[r], next))'
  BY DEF Kept, ReaderOK, Places, On
<1> QED BY <1>1, <1>2, <1>3 DEF Kept, SkipInv

LEMMA InitInvariant ==
  ASSUME SkipListAssumption, Init
  PROVE  SkipInv
<1>1. \A p \in Nodes, l \in Levels : next[p][l] = NULL
  BY DEF Init
<1>2. On(next, 0) = {} /\ Places(next) = {head}
  BY <1>1, Numbers DEF On, Places
<1>3. Resting \in Writer /\ Resting.pc = "rest"
  BY SMTT(30), Numbers DEF Resting, Writer, SkipListAssumption
<1> DEFINE x == [pc |-> "rest", goal |-> NULL, x |-> head, level |-> 0, node |-> NULL, seen |-> {}]
<1>4. x \in Reader /\ x.pc = "rest" /\ x.node = NULL /\ x.seen = {}
  BY Numbers DEF Reader
<1>5. writer = Resting /\ \A r \in Readers : reader[r] = x
  BY DEF Init
<1>6. reader \in [Readers -> Reader]
  BY <1>4 DEF Init
<1> HIDE DEF x
<1>7. TypeOK
  <2>1. next \in [Nodes -> [Levels -> Keys \cup {NULL}]]
    BY DEF Init
  <2>2. max_height \in 1..kMaxHeight
    BY SMTT(30) DEF Init, SkipListAssumption
  <2> QED BY <1>3, <1>5, <1>6, <2>1, <2>2 DEF TypeOK
<1>8. Ordered(next) /\ Unused(next, max_height) /\ Successors(next)
  BY <1>1, <1>2 DEF Ordered, Unused, Successors
<1>9. WriterOK(writer, next, max_height)
  BY <1>3, <1>5 DEF WriterOK
<1>10. \A r \in Readers : ReaderOK(reader[r], next)
  BY <1>2, <1>4, <1>5 DEF ReaderOK
<1> QED BY <1>7, <1>8, <1>9, <1>10 DEF SkipInv

\* SkipList's iterators: a read that overlaps inserts misses no key that was in
\* the list when it began, and ends on a key of the list on the right side of
\* its target.
THEOREM ReadsMissNothing ==
  ASSUME SkipListAssumption
  PROVE  Spec => []ReadsComplete
<1>1. Init => SkipInv
  BY InitInvariant
<1>2. SkipInv /\ [Next]_vars => SkipInv'
  BY NextKept, KeptIsInvariant
<1>3. SkipInv => ReadsComplete
  BY LinkedIsOn DEF SkipInv, ReaderOK, ReadsComplete
<1> QED BY <1>1, <1>2, <1>3, PTL DEF Spec
=============================================================================
