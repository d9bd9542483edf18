------------------------------ MODULE SkipList ------------------------------
(***************************************************************************)
(* db/skiplist.h: one writer inserts while readers go through the list     *)
(* without a lock.  Every load and store of a shared link is a step.       *)
(*                                                                         *)
(* The links are atomic pointers with acquire loads and release stores, so *)
(* a reader that sees a node sees its links; max_height_ has no barrier,   *)
(* and a reader may see any value it ever had.                             *)
(***************************************************************************)
EXTENDS Integers

CONSTANTS Keys,        \* naturals above 0, in the order of the comparator
          NULL,
          kMaxHeight,
          Readers

\* head_ stands before every key.
SkipListAssumption ==
  /\ Keys \subseteq Nat \ {0} /\ NULL \notin Keys \cup {0} /\ kMaxHeight \in Nat \ {0}

VARIABLES next,        \* per node and level: the link
          max_height,
          writer,      \* [pc, key, height, level, prev]
          reader       \* per reader: [pc, goal, x, level, node, seen]

vars == <<next, max_height, writer, reader>>

head == 0
Nodes == Keys \cup {head}
Levels == 0..(kMaxHeight - 1)

\* The keys a walk along the lowest level finds: they are in every set that has
\* head_ and, with a node, the node it links to.
Walked(S) == head \in S /\ \A n \in S : next[n][0] \in S \cup {NULL}
Linked == {k \in Keys : \A S \in SUBSET Nodes : Walked(S) => k \in S}

KeyIsAfterNode(key, n) == n # NULL /\ n < key

Resting == [pc |-> "rest", key |-> NULL, height |-> 0, level |-> 0,
            prev |-> [l \in Levels |-> head]]

Init ==
  /\ next = [n \in Nodes |-> [l \in Levels |-> NULL]]
  /\ max_height = 1
  /\ writer = Resting
  /\ reader = [r \in Readers |-> [pc |-> "rest", goal |-> NULL, x |-> head, level |-> 0,
                                  node |-> NULL, seen |-> {}]]
-----------------------------------------------------------------------------
(***************************************************************************)
(* Insert.  The search for the predecessors reads what only this thread    *)
(* writes, so it is one step with the store of max_height_.                *)
(***************************************************************************)
\* prev[level]: the last node of the level before key.
Predecessor(key, level) ==
  CHOOSE n \in Nodes :
    /\ n < key /\ (n = head \/ \E p \in Nodes : next[p][level] = n)
    /\ ~KeyIsAfterNode(key, next[n][level])

\* RandomHeight may return any height.
InsertBegin(key, height) ==
  /\ writer.pc = "rest" /\ key \notin Linked
  /\ max_height' = IF height > max_height THEN height ELSE max_height
  /\ writer' = [writer EXCEPT !.pc = "set", !.key = key, !.height = height, !.level = 0,
                  !.prev = [l \in Levels |-> IF l >= max_height THEN head
                                             ELSE Predecessor(key, l)]]
  /\ UNCHANGED <<next, reader>>

\* A variant that leaves the new node's own link unset.
SetLinkDropped ==
  /\ writer.pc = "set"
  /\ writer' = [writer EXCEPT !.pc = "publish"]
  /\ UNCHANGED <<next, max_height, reader>>

\* x->NoBarrier_SetNext(i, prev[i]->NoBarrier_Next(i))
SetLink ==
  /\ writer.pc = "set"
  /\ next' = [next EXCEPT ![writer.key][writer.level] =
                next[writer.prev[writer.level]][writer.level]]
  /\ writer' = [writer EXCEPT !.pc = "publish"]
  /\ UNCHANGED <<max_height, reader>>

\* prev[i]->SetNext(i, x)
Publish ==
  /\ writer.pc = "publish"
  /\ next' = [next EXCEPT ![writer.prev[writer.level]][writer.level] = writer.key]
  /\ writer' = IF writer.level + 1 = writer.height THEN Resting
               ELSE [writer EXCEPT !.pc = "set", !.level = @ + 1]
  /\ UNCHANGED <<max_height, reader>>
-----------------------------------------------------------------------------
(***************************************************************************)
(* The iterator.  goal is what it looks for: the first node at or after a  *)
(* key, the last one before a key, or the last one.                        *)
(***************************************************************************)
Goals == [op : {"ge", "lt"}, key : Keys] \cup {[op |-> "last", key |-> NULL]}

Found(r, n) ==
  [reader[r] EXCEPT !.pc = "found", !.node = IF n = head THEN NULL ELSE n]

\* GetMaxHeight, possibly stale, and the start at head_.  Prev looks for the
\* last node before the one the iterator is on.
FindBegin(r, goal, height) ==
  /\ reader[r].pc # "find"
  /\ goal.op = "lt" => goal.key = reader[r].node
  /\ height \in 1..max_height
  /\ reader' = [reader EXCEPT ![r] =
                 [@ EXCEPT !.pc = "find", !.goal = goal, !.x = head, !.level = height - 1,
                           !.seen = Linked]]
  /\ UNCHANGED <<next, max_height, writer>>

\* x->Next(level) and what the loops of FindGreaterOrEqual, FindLessThan and
\* FindLast do with it.
FindStep(r) ==
  LET n == next[reader[r].x][reader[r].level]
      goal == reader[r].goal
      on == n # NULL /\ (goal.op = "last" \/ n < goal.key)
  IN /\ reader[r].pc = "find"
     /\ reader' = [reader EXCEPT ![r] =
          IF on THEN [@ EXCEPT !.x = n]
          ELSE IF reader[r].level > 0 THEN [@ EXCEPT !.level = reader[r].level - 1]
          ELSE Found(r, IF goal.op = "ge" THEN n ELSE reader[r].x)]
     /\ UNCHANGED <<next, max_height, writer>>

\* Next, and SeekToFirst from head_.
NextNode(r, from) ==
  /\ reader[r].pc # "find" /\ from \in {head, reader[r].node} \ {NULL}
  /\ reader' = [reader EXCEPT ![r] =
       [@ EXCEPT !.pc = "found", !.node = next[from][0], !.seen = Linked,
                 !.goal = [op |-> "next", key |-> from]]]
  /\ UNCHANGED <<next, max_height, writer>>

Next ==
  \/ \E key \in Keys, height \in 1..kMaxHeight : InsertBegin(key, height)
  \/ SetLink \/ Publish
  \/ \E r \in Readers :
       \/ \E goal \in Goals, height \in 1..kMaxHeight : FindBegin(r, goal, height)
       \/ FindStep(r)
       \/ \E from \in Nodes : NextNode(r, from)

Spec == Init /\ [][Next]_vars
-----------------------------------------------------------------------------
(***************************************************************************)
(* Properties.                                                             *)
(***************************************************************************)
\* What an iterator passes over between its goal and where it ends up.
Skipped(goal, node) ==
  LET upTo == IF node = NULL THEN Keys ELSE {k \in Keys : k < node}
      downTo == IF node = NULL THEN Keys ELSE {k \in Keys : k > node}
  IN CASE goal.op = "ge" -> {k \in upTo : k >= goal.key}
       [] goal.op = "next" -> {k \in upTo : k > goal.key}
       [] goal.op = "lt" -> {k \in downTo : k < goal.key}
       [] goal.op = "last" -> downTo

\* "Reads require a guarantee that the SkipList will not be destroyed", and no
\* lock: a read that overlaps an insert misses no key that was in the list when
\* it began, and ends on a key of the list on the right side of its target.
ReadsComplete ==
  \A r \in Readers :
    reader[r].pc = "found" =>
      /\ Skipped(reader[r].goal, reader[r].node) \cap reader[r].seen = {}
      /\ reader[r].node # NULL =>
           /\ reader[r].node \in Linked
           /\ reader[r].node \in Skipped(reader[r].goal, NULL)

=============================================================================
