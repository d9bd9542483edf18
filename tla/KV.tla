--------------------------------- MODULE KV ---------------------------------
(***************************************************************************)
(* What the store promises its clients (include/leveldb/db.h): a map from  *)
(* keys to values that batches change atomically, snapshots that keep the  *)
(* map as it was, and reads that take effect at one moment.  Tables,       *)
(* levels and compactions do not appear.                                   *)
(***************************************************************************)
EXTENDS Integers, Sequences, SequencesExt, FiniteSetsExt

CONSTANTS
  Keys,
  Batches,   \* sequences of updates <<key, type>>
  PutType,
  NotFound,
  Idle

VARIABLES
  last,   \* how many updates there have been; each value is the number of its update
  db,     \* the value of every key, NotFound for an absent one
  views,  \* what each live snapshot sees, oldest first
  read    \* a Get in progress with its answer, or Idle

vars == <<last, db, views, read>>

Init == /\ last = 0
        /\ db = [k \in Keys |-> NotFound]
        /\ views = <<>>
        /\ read = Idle

\* What the last update of k in batch leaves, or what was there before.
After(batch, k) ==
  LET updates == {i \in DOMAIN batch : batch[i][1] = k}
  IN  IF updates = {} THEN db[k]
      ELSE IF batch[Max(updates)][2] = PutType THEN last + Max(updates) ELSE NotFound

\* DB::Write, Put and Delete: a batch changes any number of keys at once.
Write == \E batch \in Batches :
           /\ db' = [k \in Keys |-> After(batch, k)]
           /\ last' = last + Len(batch)
           /\ UNCHANGED <<views, read>>

GetSnapshot == /\ views' = Append(views, db)
               /\ UNCHANGED <<last, db, read>>

ReleaseSnapshot == /\ \E i \in DOMAIN views : views' = RemoveAt(views, i)
                   /\ UNCHANGED <<last, db, read>>

\* DB::Get decides its answer when it starts, from the map or from a snapshot.
BeginGet == /\ read = Idle
            /\ \E k \in Keys, view \in {db} \cup ToSet(views) :
                 read' = [key |-> k, val |-> view[k]]
            /\ UNCHANGED <<last, db, views>>

EndGet == /\ read # Idle
          /\ read' = Idle
          /\ UNCHANGED <<last, db, views>>

Next == Write \/ GetSnapshot \/ ReleaseSnapshot \/ BeginGet \/ EndGet

Spec == Init /\ [][Next]_vars
=============================================================================
