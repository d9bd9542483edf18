---------------------------- MODULE VersionEdit -----------------------------
(***************************************************************************)
(* db/version_edit.cc: what a record of the MANIFEST says, as LogAndApply  *)
(* and WriteSnapshot put it together, and DecodeFrom of it.                *)
(***************************************************************************)
EXTENDS Coding

CONSTANTS Names,          \* comparator names and encoded internal keys
          Numbers,        \* file numbers, sequence numbers and sizes
          kNumLevels,
          MaxItems        \* compaction pointers, deleted and new files

VARIABLE edit

Scalars == {"comparator", "log_number", "prev_log_number", "next_file_number", "last_sequence"}
Tag == [comparator |-> 1, log_number |-> 2, next_file_number |-> 3, last_sequence |-> 4,
        compact_pointer |-> 5, deleted_file |-> 6, new_file |-> 7, prev_log_number |-> 9]

\* The fields that follow a tag.  A level is an integer below kNumLevels.
Fields == [comparator |-> <<"s">>, log_number |-> <<"n">>, next_file_number |-> <<"n">>,
           last_sequence |-> <<"n">>, prev_log_number |-> <<"n">>,
           compact_pointer |-> <<"n", "s">>, deleted_file |-> <<"n", "n">>,
           new_file |-> <<"n", "n", "n", "s", "s">>]

\* has is what was set, of each scalar its value; deleted_files is a set, in the
\* order of its elements; the others are sequences.
Clear == [has |-> [f \in {} |-> 0], compact_pointers |-> <<>>, deleted_files |-> {},
          new_files |-> <<>>]

Set(e, f, v) == [e EXCEPT !.has = [g \in DOMAIN e.has \union {f} |-> IF g = f THEN v ELSE e.has[g]]]

\* A field of a record applied to an edit, by DecodeFrom and by the setters.
Entered(e, f, value) ==
  CASE f = "compact_pointer" -> [e EXCEPT !.compact_pointers = Append(@, value)]
    [] f = "deleted_file" -> [e EXCEPT !.deleted_files = @ \union {value}]
    [] f = "new_file" -> [e EXCEPT !.new_files = Append(@, value)]
    [] OTHER -> Set(e, f, value[1])
-----------------------------------------------------------------------------
RECURSIVE PutFields(_, _)
PutFields(values, fields) ==
  IF fields = <<>> THEN <<>>
  ELSE (IF Head(fields) = "n" THEN PutVarint(Head(values))
        ELSE PutLengthPrefixedSlice(Head(values))) \o PutFields(Tail(values), Tail(fields))

PutItem(f, values) == PutVarint(Tag[f]) \o PutFields(values, Fields[f])

RECURSIVE PutItems(_, _)
PutItems(f, items) ==
  IF items = <<>> THEN <<>> ELSE PutItem(f, Head(items)) \o PutItems(f, Tail(items))

RECURSIVE Sorted(_)
Sorted(files) ==
  IF files = {} THEN <<>>
  ELSE LET first == CHOOSE x \in files : \A y \in files :
                      x[1] < y[1] \/ (x[1] = y[1] /\ x[2] <= y[2])
       IN <<first>> \o Sorted(files \ {first})

PutScalar(e, f) == IF f \in DOMAIN e.has THEN PutItem(f, <<e.has[f]>>) ELSE <<>>

EncodeTo(e) ==
  PutScalar(e, "comparator") \o PutScalar(e, "log_number") \o PutScalar(e, "prev_log_number")
    \o PutScalar(e, "next_file_number") \o PutScalar(e, "last_sequence")
    \o PutItems("compact_pointer", e.compact_pointers)
    \o PutItems("deleted_file", Sorted(e.deleted_files)) \o PutItems("new_file", e.new_files)

(***************************************************************************)
(* DecodeFrom: [ok, edit], edit being as far as it got.                    *)
(***************************************************************************)
FieldOf(n) ==
  IF \E f \in DOMAIN Tag : Tag[f] = n THEN CHOOSE f \in DOMAIN Tag : Tag[f] = n ELSE "unknown"
\* GetLevel rejects a level that is not below kNumLevels.
LevelChecked(got, f) ==
  IF got.ok /\ f \notin Scalars /\ got.value[1] >= kNumLevels THEN Bad ELSE got
GetItem(f, s) == IF f = "unknown" THEN Bad ELSE LevelChecked(GetFields(s, Fields[f]), f)

\* A variant that does not notice bytes left over after the last item.
NothingNoticed(s) == TRUE

NothingLeft(s) == s = <<>>

RECURSIVE Decode(_, _), DecodeTag(_, _, _), DecodeItem(_, _, _)
Decode(s, e) == DecodeTag(GetVarint(s), s, e)
DecodeTag(tag, s, e) ==
  IF tag.ok THEN DecodeItem(FieldOf(tag.value), GetItem(FieldOf(tag.value), tag.rest), e)
  ELSE [ok |-> NothingLeft(s), edit |-> e]
DecodeItem(f, got, e) ==
  IF got.ok THEN Decode(got.rest, Entered(e, f, got.value)) ELSE [ok |-> FALSE, edit |-> e]

DecodeFrom(s) == Decode(s, Clear)
-----------------------------------------------------------------------------
Init == edit = Clear

Items == Len(edit.compact_pointers) + Len(edit.new_files)
           + IF edit.deleted_files = {} THEN 0 ELSE 1
Levels == 0..(kNumLevels - 1)

SetComparatorName(name) == edit' = Entered(edit, "comparator", <<name>>)
SetNumber(f, n) == f \in Scalars \ {"comparator"} /\ edit' = Entered(edit, f, <<n>>)
SetCompactPointer(level, key) ==
  Items < MaxItems /\ edit' = Entered(edit, "compact_pointer", <<level, key>>)
DeleteFile(level, n) == Items < MaxItems /\ edit' = Entered(edit, "deleted_file", <<level, n>>)
AddFile(level, n, size, smallest, largest) ==
  Items < MaxItems /\ edit' = Entered(edit, "new_file", <<level, n, size, smallest, largest>>)

Next ==
  \/ \E name \in Names : SetComparatorName(name)
  \/ \E f \in Scalars, n \in Numbers : SetNumber(f, n)
  \/ \E level \in Levels, key \in Names : SetCompactPointer(level, key)
  \/ \E level \in Levels, n \in Numbers : DeleteFile(level, n)
  \/ \E level \in Levels, n, size \in Numbers, k, l \in Names : AddFile(level, n, size, k, l)

Spec == Init /\ [][Next]_edit
-----------------------------------------------------------------------------
\* What EncodeTo writes is the edit that DecodeFrom reads; and the first bytes of
\* it either are reported or, cut between two fields, are an edit that says
\* less: DecodeFrom never makes up a field.
EditReadBack ==
  \A bytes \in {EncodeTo(edit)} :
  /\ DecodeFrom(bytes) = [ok |-> TRUE, edit |-> edit]
  /\ \A n \in 0..(Len(bytes) - 1) : \A cut \in {DecodeFrom(SubSeq(bytes, 1, n))} :
       /\ cut.ok => EncodeTo(cut.edit) = SubSeq(bytes, 1, n)
       /\ \A f \in DOMAIN cut.edit.has : f \in DOMAIN edit.has /\ cut.edit.has[f] = edit.has[f]
       /\ cut.edit.deleted_files \subseteq edit.deleted_files
       /\ cut.edit.new_files = SubSeq(edit.new_files, 1, Len(cut.edit.new_files))
=============================================================================
