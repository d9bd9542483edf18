------------------------------ MODULE Durable -------------------------------
(***************************************************************************)
(* What a database promises across restarts (include/leveldb/options.h,    *)
(* WriteOptions::sync): opening it again brings back a beginning of what   *)
(* clients had written, with every write in it that was promised to last.  *)
(***************************************************************************)
EXTENDS Integers, Sequences

CONSTANT Ids

VARIABLES
  up,        \* a client has the database open
  contents,  \* the writes that clients see, oldest first
  promised   \* how many of them no crash may undo

vars == <<up, contents, promised>>

Init == up = FALSE /\ contents = <<>> /\ promised = 0

Open == /\ ~up /\ up' = TRUE
        /\ \E n \in promised..Len(contents) :
             /\ contents' = SubSeq(contents, 1, n)
             /\ promised' = n

\* A write is promised at once when it was asked to be synced.
Write == /\ up
         /\ \E id \in Ids : contents' = Append(contents, id)
         /\ promised' \in {promised, Len(contents')}
         /\ UNCHANGED up

Close == /\ up /\ up' = FALSE
         /\ promised' = Len(contents)
         /\ UNCHANGED contents

Crash == /\ up /\ up' = FALSE
         /\ UNCHANGED <<contents, promised>>

Next == Open \/ Write \/ Close \/ Crash

Spec == Init /\ [][Next]_vars
=============================================================================
