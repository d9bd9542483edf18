------------------------------- MODULE MCLSM -------------------------------
(* Small instances of LSM for TLC. *)
EXTENDS LSM

Put(k) == <<k, kTypeValue>>
Del(k) == <<k, kTypeDeletion>>

WholeRange == {<<NullBegin, NullEnd>>}

\* Two keys: a value of each, then overwriting and deleting in batches.
TwoKeyBatches == 0 :> {<<Put(1)>>, <<Put(1), Put(2)>>}
              @@ 1 :> {<<Put(2)>>}
              @@ 2 :> {<<Put(1)>>, <<Del(1)>>}
              @@ 3 :> {<<Put(1)>>}

Config(size, live, switches, calls, gets, errors) ==
  [max_file_size |-> size, snapshots |-> live, switches |-> switches,
   manual |-> calls, gets |-> gets, errors |-> errors]

\* Either outputs are never split or there is no snapshot.
SmallConfigs == {Config(10, 1, 2, 0, 1, 0), Config(1, 0, 2, 0, 1, 1),
                 Config(10, 1, 2, 1, 0, 0), Config(1, 0, 2, 1, 0, 1),
                 Config(10, 0, 3, 0, 1, 0)}

\* Keys 1 and 3 twice each, so that level 1 has a file of each over level 2, and
\* then key 2 between them.
GapBatches == 0 :> {<<Put(1)>>} @@ 1 :> {<<Put(3)>>} @@ 2 :> {<<Put(1)>>}
           @@ 3 :> {<<Put(3)>>} @@ 4 :> {<<Put(2)>>}
LargeFiles == {Config(10, 0, 4, 1, 0, 0)}

\* One key twice, with a snapshot in between, and outputs of one entry.
TwiceBatches == 0 :> {<<Put(1)>>} @@ 1 :> {<<Put(1)>>}
SplitFiles == {Config(1, 1, 2, 0, 0, 0)}

\* The abstract state, computed once for every state.
VARIABLE abstract

MCInit == Init /\ abstract = Abstraction(Concrete)
MCNext == Next /\ \E c \in {Concrete'} : abstract' = Abstraction(c)
MCSpec == MCInit /\ [][MCNext]_<<vars, abstract>>

Store == INSTANCE KV WITH
  Keys <- Keys, Batches <- UNION Range(Batches), PutType <- kTypeValue, NotFound <- 0,
  Idle <- <<>>, last <- last_sequence, db <- abstract.db, views <- abstract.views, read <- abstract.read

\* The store implements KV: writes change what clients see by whole batches, and
\* flushes, moves and compactions never change it, at the latest sequence number,
\* in any snapshot, or in a read that is under way.
ImplementsKV == Store!Spec
=============================================================================
