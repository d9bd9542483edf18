----------------------------- MODULE DBImplInv ------------------------------
(***************************************************************************)
(* An inductive strengthening of AckedReadable and AckedRecoverable of     *)
(* DBImpl.  QueueInv says what writers_ means, StoreInv that everything    *)
(* in memory can be recovered, AckInv what a Write has achieved at each    *)
(* point of its way to the acknowledgement.                                *)
(***************************************************************************)
EXTENDS DBImpl

\* t has pushed its Writer and nobody has popped it.
InQueue(t) == pc[t] \in Leading \/ (pc[t] = "queued" /\ ~w[t].done)

\* The writer's group has been formed and not yet been popped.
Grouped == {"append", "sync", "insert", "relock", "pop"}

QueueInv ==
  /\ \A i, j \in 1..Len(writers) : writers[i] = writers[j] => i = j
  /\ \A i \in 1..Len(writers) : InQueue(writers[i])
  /\ \A t \in Clients : InQueue(t) => \E i \in 1..Len(writers) : writers[i] = t
  /\ \A t \in Clients : pc[t] \in Leading =>
       Len(writers) > 0 /\ writers[1] = t /\ w[t].last <= Len(writers)
  /\ \A t \in Clients : w[t].done => pc[t] = "queued"
  /\ \A t \in Clients : pc[t] \notin Grouped => w[t].last = 1
  /\ NoLostWakeup

Flushing == {"build", "built", "flushManifest", "flushWritten"}

StoreInv ==
  /\ EnvReports => versions.tables \subseteq manifest.tables
  /\ manifest.log <= logfileNumber /\ versions.log <= logfileNumber
  /\ bg.editLog <= logfileNumber
  /\ \A r \in mem : <<logfileNumber, r>> \in logged
  /\ \A r \in Imm : \/ r \in manifest.tables
                    \/ \E p \in logged : /\ p[2] = r /\ p[1] >= manifest.log
                                         /\ p[1] >= versions.log
  /\ \A t \in Clients : pc[t] \in {"sync", "insert"} =>
                          <<logfileNumber, w[t].updates>> \in logged
  /\ \A t \in Clients : pc[t] \in {"append", "sync", "insert", "relock"} =>
                          w[t].updates.seq = lastSequence + 1
  /\ pc[BG] \in Flushing => imm # NoImm
  /\ pc[BG] \notin {"tail", "crashed"} => bg.k <= versions.l0
  /\ EnvReports /\ pc[BG] = "flushWritten" /\ bg.ok => Imm \subseteq manifest.tables

\* What a read can find.
Readable == mem \cup Imm \cup versions.tables

AckInv ==
  /\ AckedReadable
  /\ \A t \in Clients :
       /\ w[t].done /\ w[t].status = "ok" => Holds(Readable, OpsOf(w[t]))
       /\ pc[t] \in {"append", "sync", "insert", "relock"} =>
            \A i \in 1..w[t].last : OpsOf(w[writers[i]]) \subseteq w[t].updates.ops
       /\ pc[t] = "relock" /\ w[t].status = "ok" =>
            Holds(Readable, w[t].updates.ops)
       /\ pc[t] = "pop" /\ w[t].status = "ok" =>
            \A i \in 1..w[t].last : Holds(Readable, OpsOf(w[writers[i]]))

\* A group holds finitely many operations: LastSequence can be advanced by it.
Counted == \A t \in Clients : Cardinality(w[t].updates.ops) \in Nat

\* The inductive invariant: it holds initially, every step of DBImpl preserves
\* it, and it implies that an acknowledged write is readable and recoverable.
IInv == TypeOK /\ QueueInv /\ StoreInv /\ AckInv /\ Counted
-----------------------------------------------------------------------------
(***************************************************************************)
(* Strengthenings of the other invariants of DBImpl, each inductive        *)
(* together with IInv.                                                     *)
(***************************************************************************)
\* The writers t serves.
GroupOf(t) == {writers[i] : i \in 1..w[t].last}

\* For NoAckAfterError: every batch was issued before the next one, and once
\* bg_error_ is set no group is formed: what is being logged, or was logged and
\* is to be acknowledged, was issued before the error.
ErrorInv ==
  /\ NoAckAfterError
  /\ \A o \in acked : o[1] < nextBatch
  /\ \A t \in Clients : w[t].batch < nextBatch
  /\ \A t \in Clients : pc[t] = "group" => ~bgError /\ mutex = t
  /\ bgError =>
       /\ 0 < errorBatch /\ errorBatch <= nextBatch
       /\ \A t \in Clients :
            /\ w[t].done /\ w[t].status = "ok" => w[t].batch < errorBatch
            /\ pc[t] \in Grouped /\ (pc[t] = "pop" => w[t].status = "ok") =>
                 \A u \in GroupOf(t) : w[u].batch < errorBatch

\* A record of the group that is being logged.
Pending(r) ==
  \E t \in Clients : pc[t] \in {"sync", "insert", "relock"} /\ r = w[t].updates

\* The i-th queued writer has a batch that is not in a record yet, or is in the
\* one being logged.
Waits(i) ==
  /\ w[writers[i]].batch # 0
  /\ \A t \in Clients : pc[t] = "pop" => w[t].last < i

\* For ArrivalOrder: every record has a number of operations; batches are queued
\* in the order of their numbers; a record is the one being logged, or ends
\* before the next sequence number and holds only operations issued before those
\* of every writer that waits.
OrderInv ==
  /\ ArrivalOrder
  /\ \A r \in AllRecords : Cardinality(r.ops) \in Nat
  /\ \A i, j \in 1..Len(writers) :
       i < j /\ w[writers[i]].batch # 0 /\ w[writers[j]].batch # 0 =>
         w[writers[i]].batch < w[writers[j]].batch
  /\ \A r \in AllRecords :
       \/ Pending(r)
       \/ /\ r.seq + Cardinality(r.ops) <= lastSequence + 1
          /\ \A o \in r.ops :
               /\ o[1] < nextBatch
               /\ \A i \in 1..Len(writers) : Waits(i) => o[1] < w[writers[i]].batch
  /\ \A t \in Clients : pc[t] \in Grouped \ {"pop"} =>
       w[t].updates.ops = UNION {OpsOf(w[u]) : u \in GroupOf(t)}

\* Records that are in a table or in a synced log which recovery reads, and
\* stay so: a memtable is covered by the current log, imm_ by one that neither
\* the MANIFEST nor the VersionSet has given up.
SyncedRecords ==
  manifest.tables \cup {r \in mem : <<logfileNumber, r>> \in synced}
    \cup {r \in Imm : \E p \in synced : /\ p[2] = r /\ p[1] >= manifest.log
                                       /\ p[1] >= versions.log}

\* For SyncRecoverable, like AckInv: a group with a sync writer has a sync leader.
SyncInv ==
  /\ Holds(SyncedRecords, ackedSync)
  /\ \A t \in Clients :
       /\ w[t].done /\ w[t].status = "ok" /\ w[t].sync => Holds(SyncedRecords, OpsOf(w[t]))
       /\ pc[t] \in Grouped => \A u \in GroupOf(t) : w[u].sync => w[t].sync
       /\ pc[t] = "insert" /\ w[t].sync => <<logfileNumber, w[t].updates>> \in synced
       /\ pc[t] = "relock" /\ w[t].status = "ok" /\ w[t].sync =>
            Holds(SyncedRecords, w[t].updates.ops)
       /\ pc[t] = "pop" /\ w[t].status = "ok" =>
            \A u \in GroupOf(t) : w[u].sync => Holds(SyncedRecords, OpsOf(w[u]))

\* For ClosedIsQuiet: who waits on bg_cv_, who may be inside a call while the
\* destructor runs, and that manual_compaction_ belongs to a waiting CompactRange.
Ending == {"closing", "closed"}
CallInv ==
  /\ pc[BG] # "idle" => scheduled
  /\ \A t \in Clients : pc[t] \in Ending => shuttingDown
  /\ shuttingDown => \A t \in Clients : pc[t] \in {"idle"} \cup Ending
  /\ \A t, u \in Clients : pc[t] \in Ending /\ pc[u] \in Ending => t = u
  /\ \A t \in Clients : pc[t] = "closed" => ~scheduled
  /\ \A t \in bgWait : pc[t] \in {"room", "flushing", "ranging", "closing"} /\ mutex # t
  /\ manual # NULL => pc[manual] = "ranging" /\ ~range[manual].done

\* For NoStrandedWaiter: while compactions are not suspended, work that is there
\* is scheduled.
WorkInv ==
  /\ NoStrandedWaiter
  /\ ~bgError /\ ~shuttingDown /\ (imm # NoImm \/ manual # NULL \/ NeedsCompaction) =>
       scheduled

\* For ManualStillThere: as long as no error makes CompactRange give up.
Compacting == BGLabels \ {"idle", "call", "tail", "crashed"}
ManualInv ==
  /\ ManualStillThere
  /\ bg.manual /\ pc[BG] \in Compacting => manual # NULL
=============================================================================
