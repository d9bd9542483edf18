------------------------------- MODULE Coding -------------------------------
(***************************************************************************)
(* util/coding.cc: variable-length integers and length-prefixed strings.   *)
(* A byte holds kPayload values and a continuation bit; an integer has     *)
(* kWidth bits, which kMaxBytes bytes are enough for.                      *)
(***************************************************************************)
EXTENDS Integers, Sequences

CONSTANTS kPayload, kWidth, kMaxBytes

RECURSIVE PutVarint(_)
PutVarint(v) ==
  IF v < kPayload THEN <<v>>
  ELSE <<(v % kPayload) + kPayload>> \o PutVarint(v \div kPayload)

Bad == [ok |-> FALSE]
Got(value, rest) == [ok |-> TRUE, value |-> value, rest |-> rest]

\* GetVarint32Ptr and its fallback: the bytes up to the first one without the
\* continuation bit, if it is among the first kMaxBytes.
GetVarint(s) ==
  LET last == {i \in 1..Len(s) : i <= kMaxBytes /\ s[i] < kPayload
                                 /\ \A j \in 1..(i - 1) : s[j] >= kPayload}
      n == CHOOSE i \in last : TRUE
      value[i \in 1..(n + 1)] ==
        IF i > n THEN 0 ELSE (s[i] % kPayload) + kPayload * value[i + 1]
  IN IF last = {} THEN Bad ELSE Got(value[1] % 2 ^ kWidth, SubSeq(s, n + 1, Len(s)))

PutLengthPrefixedSlice(string) == PutVarint(Len(string)) \o string

\* The string that follows its length n.
SliceAfter(n) ==
  IF n.ok /\ n.value <= Len(n.rest)
  THEN Got(SubSeq(n.rest, 1, n.value), SubSeq(n.rest, n.value + 1, Len(n.rest)))
  ELSE Bad
GetLengthPrefixedSlice(s) == SliceAfter(GetVarint(s))

\* The fields of a record, one after the other: "n" an integer, "s" a string;
\* got holds the values of the fields before them.
GetField(kind, s) == IF kind = "n" THEN GetVarint(s) ELSE GetLengthPrefixedSlice(s)
With(values, next) == IF next.ok THEN Got(Append(values, next.value), next.rest) ELSE Bad

RECURSIVE GetMore(_, _)
GetMore(got, fields) ==
  IF fields = <<>> \/ ~got.ok THEN got
  ELSE GetMore(With(got.value, GetField(Head(fields), got.rest)), Tail(fields))
GetFields(s, fields) == GetMore(Got(<<>>, s), fields)
=============================================================================
