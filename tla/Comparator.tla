----------------------------- MODULE Comparator -----------------------------
(***************************************************************************)
(* util/comparator.cc: the bytewise order of byte strings, and the short   *)
(* keys that the index of a table uses.  Bytes are 0..MaxByte.             *)
(***************************************************************************)
EXTENDS Integers, Sequences

CONSTANT MaxByte

\* The length of the longest common prefix.
Common(a, b) ==
  CHOOSE n \in 0..Len(a) :
    /\ n <= Len(b) /\ \A i \in 1..n : a[i] = b[i]
    /\ n = Len(a) \/ n = Len(b) \/ a[n + 1] # b[n + 1]

Less(a, b) ==
  LET n == Common(a, b)
  IN n < Len(b) /\ (n < Len(a) => a[n + 1] < b[n + 1])

\* A string in [start, limit), shorter than start if that is easy.
FindShortestSeparator(start, limit) ==
  LET n == Common(start, limit) IN
  IF n < Len(start) /\ n < Len(limit) /\ start[n + 1] < MaxByte
       /\ start[n + 1] + 1 < limit[n + 1]
  THEN Append(SubSeq(start, 1, n), start[n + 1] + 1)
  ELSE start

\* A string >= key, shorter than key unless key is all MaxByte.
FindShortSuccessor(key) ==
  IF \A i \in 1..Len(key) : key[i] = MaxByte THEN key
  ELSE LET i == CHOOSE i \in 1..Len(key) :
                  key[i] # MaxByte /\ \A j \in 1..(i - 1) : key[j] = MaxByte
       IN Append(SubSeq(key, 1, i - 1), key[i] + 1)
=============================================================================
