------------------------------- MODULE Cursor -------------------------------
(***************************************************************************)
(* What include/leveldb/iterator.h promises of DB::NewIterator: a cursor   *)
(* over the sorted entries of one frozen view of the database.  After a    *)
(* failure, which status() reports from then on, it may be anywhere.       *)
(***************************************************************************)
EXTENDS Integers

CONSTANTS Keys,      \* what a client may seek to
          Nowhere    \* Valid() is false

VARIABLES view, at, failed,
          call       \* the last call, [op, key]

Made(op, key) == [op |-> op, key |-> key]
Entries == {<<k, view[k]>> : k \in DOMAIN view}

Least(S) == IF S = {} THEN Nowhere
            ELSE CHOOSE e \in S : \A f \in S : e[1] <= f[1]
Greatest(S) == IF S = {} THEN Nowhere
               ELSE CHOOSE e \in S : \A f \in S : f[1] <= e[1]

Init == at = Nowhere /\ failed = FALSE /\ call = Made("new", Nowhere)

Move(made, to) == call' = made /\ at' = to /\ failed' = failed

SeekToFirst == Move(Made("first", Nowhere), Least(Entries))
SeekToLast == Move(Made("last", Nowhere), Greatest(Entries))
Seek(k) == Move(Made("seek", k), Least({e \in Entries : e[1] >= k}))
Next ==
  at # Nowhere /\ Move(Made("next", Nowhere), Least({e \in Entries : e[1] > at[1]}))
Prev ==
  at # Nowhere /\ Move(Made("prev", Nowhere), Greatest({e \in Entries : e[1] < at[1]}))

\* A block cannot be read: entries may be passed over from here on.
Fail == failed' = TRUE

Step ==
  /\ UNCHANGED view
  /\ \/ SeekToFirst \/ SeekToLast \/ Next \/ Prev \/ Fail
     \/ \E k \in Keys : Seek(k)

Spec == Init /\ [][Step]_<<view, at, failed, call>>
=============================================================================
