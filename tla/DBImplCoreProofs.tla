------------------------- MODULE DBImplCoreProofs --------------------------
(***************************************************************************)
(* Which variables each kind of step of DBImpl leaves alone, and that      *)
(* every step preserves the types, the writer queue and the store: TypeOK, *)
(* QueueInv and StoreInv, three parts of IInv.                             *)
(*                                                                         *)
(* The types are not inductive by themselves: that lastSequence stays a    *)
(* natural number needs StoreInv (the sequence a group was given is the    *)
(* next one), and that the level-0 count does needs that a compaction      *)
(* removes files that are there.  QueueInv: writers_ holds exactly the     *)
(* threads that wait for their turn or lead, once each, only its front     *)
(* leads, and no wakeup of a Writer's cv is lost.  StoreInv: every record  *)
(* of a memtable has a copy that recovery reads.                           *)
(***************************************************************************)
EXTENDS DBImplInv, TLAPS

\* Zenon is the prover of the steps that name no other.
USE ZenonT(60)

(***************************************************************************)
(* Frames: what the steps of each kind of thread leave alone.              *)
(***************************************************************************)
\* A step of a client thread or a call it makes.
CallStep(t) ==
  \/ ClientStep(t)
  \/ \E n \in BatchSizes, sync \in BOOLEAN : Write(t, n, sync)
  \/ \E levels \in 1..MaxManualLevels : CompactRange(t, levels)
  \/ Close(t)
  \/ SpuriousWakeup(t)

\* A call that is one critical section, or nothing.
AtomicCall == SuspendCompaction \/ ResumeCompaction \/ SeekCompaction \/ UNCHANGED vars

\* Every step is the background thread's, some client's, or an atomic call.
LEMMA StepKinds ==
  ASSUME [Next]_vars
  PROVE  BackgroundStep \/ AtomicCall \/ \E t \in Clients : CallStep(t)
BY DEF Next, Application, Finished, AtomicCall, CallStep

\* The background thread leaves the writer queue and the Writers alone.
LEMMA BackgroundFrame ==
  ASSUME TypeOK, BackgroundStep
  PROVE  /\ UNCHANGED <<writers, w, cvWait, historyVars, mem, logfileNumber, lastSequence>>
         /\ UNCHANGED <<suspending, shuttingDown>>
         /\ bgWait' \subseteq bgWait /\ mutex' \in {mutex, NULL, BG}
         /\ \E label \in BGLabels : pc' = [pc EXCEPT ![BG] = label]
<1> USE DEF TypeOK, ThreadsOK, Threads, BGLabels, threadVars, coreVars, storeVars, flagVars,
            historyVars, Goto
<1>1. CASE Relock(BG) \/ BGStart \/ BGNothing \/ BGManualDone \/ BGTail
  BY <1>1 DEF Relock, BGStart, BGNothing, BGManualDone, BGTail
<1>2. CASE BGCompactMemTable \/ BGManual \/ \E label \in {"compact", "install"} : BGPick(label)
  BY <1>2 DEF BGCompactMemTable, BGManual, BGPick, Begin
<1>3. CASE FlushApply \/ FlushFailed \/ FlushInstalled \/ CompactPrioritizeImm
  BY <1>3 DEF FlushApply, FlushFailed, FlushInstalled, FlushReturn, CompactPrioritizeImm,
              RecordBackgroundError
<1>4. CASE CompactionApply \/ CompactionFailed \/ CompactionInstalled
  BY <1>4 DEF CompactionApply, CompactionFailed, CompactionInstalled, CompactionReturn,
              RecordBackgroundError
<1>5. CASE \E ok \in BOOLEAN : BuildTable(ok) \/ CompactDone(ok)
  BY <1>5 DEF BuildTable, CompactDone
<1>6. CASE \E ok, landed \in BOOLEAN : FlushManifest(ok, landed) \/ InstallManifest(ok, landed)
  BY <1>6 DEF FlushManifest, InstallManifest
<1> QED BY <1>1, <1>2, <1>3, <1>4, <1>5, <1>6 DEF BackgroundStep

\* The critical sections of SuspendCompaction, ResumeCompaction and of a read
\* touch flags, the schedule and versions.deep only.
LEMMA AtomicFrame ==
  ASSUME TypeOK, AtomicCall
  PROVE  /\ UNCHANGED <<threadVars, writers, w, range, storeVars, manifest, broken, errorVars,
                        shuttingDown, manual, bg, historyVars>>
         /\ versions' = versions \/ \E deep \in BOOLEAN : versions' = [versions EXCEPT !.deep = deep]
BY DEF AtomicCall, SuspendCompaction, ResumeCompaction, SeekCompaction, vars, coreVars, flagVars,
       diskVars, TypeOK, StoreOK

\* A client moves only itself and never touches the background call's locals,
\* the MANIFEST or the version set.
LEMMA ClientFrame ==
  ASSUME TypeOK, NEW t \in Clients, CallStep(t)
  PROVE  /\ UNCHANGED <<bg, manifest, versions>>
         /\ \E label \in ClientLabels : pc' = [pc EXCEPT ![t] = label]
         /\ mutex' \in {mutex, NULL, t}
         /\ cvWait' \subseteq cvWait \cup {t} /\ bgWait' \subseteq bgWait \cup {t}
<1> USE DEF TypeOK, ThreadsOK, Threads, ClientLabels, threadVars, coreVars, diskVars, Goto
<1>1. CASE \/ Relock(t) \/ SpuriousWakeup(t) \/ WaitTurn(t) \/ RoomReady(t) \/ RoomWait(t)
           \/ WaitFlushed(t) \/ Flushed(t) \/ RequestManual(t) \/ WaitManual(t)
           \/ WaitClosed(t) \/ Closed(t) \/ Close(t)
  BY <1>1 DEF Relock, SpuriousWakeup, WaitTurn, RoomReady, RoomWait, WaitFlushed, Flushed,
              RequestManual, WaitManual, WaitClosed, Closed, Close, WaitForBackground
<1>2. CASE \/ \E n \in BatchSizes, sync \in BOOLEAN : Write(t, n, sync)
           \/ \E levels \in 1..MaxManualLevels : CompactRange(t, levels)
  BY <1>2 DEF Write, CompactRange
<1>3. CASE Lead(t) \/ RoomError(t) \/ RoomDelay(t) \/ EndManual(t)
  BY <1>3 DEF Lead, RoomError, RoomDelay, EndManual
<1>6. CASE FormGroup(t) \/ InsertMem(t) \/ \E opened \in BOOLEAN : SwitchMemTable(t, opened)
  BY SMTT(30), <1>6 DEF SwitchMemTable, FormGroup, InsertMem
<1>4. CASE \/ \E ok \in BOOLEAN : SyncLog(t, ok)
           \/ \E ok, landed \in BOOLEAN : AppendLog(t, ok, landed)
  BY <1>4 DEF SyncLog, AppendLog
<1>5. CASE ReturnServed(t) \/ Complete(t) \/ PopGroup(t)
  BY <1>5 DEF ReturnServed, Complete, PopGroup, Return, RecordBackgroundError
<1> QED BY <1>1, <1>2, <1>3, <1>4, <1>5, <1>6 DEF CallStep, ClientStep
-----------------------------------------------------------------------------
(***************************************************************************)
(* Type correctness, part by part.                                         *)
(***************************************************************************)
\* The operations of a Writer are numbered by its batch.
LEMMA OpsOfType ==
  ASSUME NEW v \in WriterType, v.batch # 0 \/ v.n = 0
  PROVE  OpsOf(v) \subseteq Op
BY SMTT(30) DEF OpsOf, WriterType, Op, Batch

\* The initial values of the locals have their types.
LEMMA IdleTypes == IdleWriter \in WriterType /\ IdleRange \in RangeType /\ IdleBG \in BGType
BY SMTT(30) DEF IdleWriter, WriterType, Record, Status, IdleRange, RangeType, IdleBG, BGType

\* The assignments to fields of a Writer that Write makes keep its type.
Updated(v, u) == u \in WriterType /\ u.batch = v.batch /\ u.n = v.n

\* A step of Write keeps writers_ a queue of clients and the Writers well typed:
\* in particular the updates of a group are operations of its writers.
LEMMA WritersStep ==
  ASSUME TypeOK, QueueInv, [Next]_vars
  PROVE  /\ writers' \in Seq(Clients)
         /\ w' \in [Clients -> WriterType]
         /\ \A t \in Clients : w'[t].batch = 0 => w'[t].n = 0
\* What the Writers keep after the field updates the actions of Write make.
<1>WriterUpdates. ASSUME NEW v \in WriterType
                  PROVE  /\ \A b1, b2 \in BOOLEAN : Updated(v, [v EXCEPT !.force = b1, !.delay = b2])
                         /\ \A st \in Status : Updated(v, [v EXCEPT !.status = st])
                         /\ \A b1 \in BOOLEAN : Updated(v, [v EXCEPT !.delay = b1])
                         /\ \A b1 \in BOOLEAN : Updated(v, [v EXCEPT !.force = b1])
                         /\ \A st \in Status, b1 \in BOOLEAN :
                              Updated(v, [v EXCEPT !.status = st, !.syncError = b1])
                         /\ \A g \in Nat \ {0}, r \in Record :
                              Updated(v, [v EXCEPT !.last = g, !.updates = r])
  <2>1. \A b1, b2 \in BOOLEAN : Updated(v, [v EXCEPT !.force = b1, !.delay = b2])
    BY DEF WriterType, Updated
  <2>2. \A st \in Status : Updated(v, [v EXCEPT !.status = st])
    BY DEF WriterType, Updated
  <2>3. \A b1 \in BOOLEAN : Updated(v, [v EXCEPT !.delay = b1])
    BY DEF WriterType, Updated
  <2>4. \A b1 \in BOOLEAN : Updated(v, [v EXCEPT !.force = b1])
    BY DEF WriterType, Updated
  <2>5. \A st \in Status, b1 \in BOOLEAN : Updated(v, [v EXCEPT !.status = st, !.syncError = b1])
    BY DEF WriterType, Updated
  <2>6. \A g \in Nat \ {0}, r \in Record : Updated(v, [v EXCEPT !.last = g, !.updates = r])
    BY DEF WriterType, Updated
  <2> QED BY <2>1, <2>2, <2>3, <2>4, <2>5, <2>6
<1> DEFINE WOK(f) == /\ f \in [Clients -> WriterType]
                     /\ \A u \in Clients : f[u].batch = 0 => f[u].n = 0
<1>0. WOK(w) /\ writers \in Seq(Clients)
  BY DEF TypeOK, CallsOK
<1>a. ASSUME NEW t \in Clients, NEW v \in WriterType, v.batch = 0 => v.n = 0
      PROVE  WOK([w EXCEPT ![t] = v])
  BY <1>a, <1>0
<1>1. CASE BackgroundStep \/ AtomicCall
  BY <1>1, <1>0, BackgroundFrame, AtomicFrame
<1>2. ASSUME NEW t \in Clients, CallStep(t)
      PROVE  writers' \in Seq(Clients) /\ WOK(w')
  <2>1. CASE \/ Relock(t) \/ SpuriousWakeup(t) \/ WaitTurn(t) \/ RoomReady(t) \/ RoomWait(t)
             \/ WaitFlushed(t) \/ Flushed(t) \/ RequestManual(t) \/ WaitManual(t)
             \/ WaitClosed(t) \/ Closed(t) \/ Close(t) \/ EndManual(t) \/ InsertMem(t)
             \/ Complete(t)
    <3>1. UNCHANGED <<w, writers>>
      BY <2>1 DEF Relock, SpuriousWakeup, WaitTurn, RoomReady, RoomWait, WaitFlushed, Flushed,
                  RequestManual, WaitManual, WaitClosed, Closed, Close, WaitForBackground,
                  EndManual, InsertMem, Complete
    <3> QED BY <3>1, <1>0
  <2>2. CASE \E n \in BatchSizes, sync \in BOOLEAN : Write(t, n, sync)
    <3>1. PICK n \in BatchSizes, sync \in BOOLEAN : Write(t, n, sync)
      BY <2>2
    <3> DEFINE v == [IdleWriter EXCEPT !.batch = nextBatch, !.n = n, !.sync = sync]
    <3>2. v \in WriterType /\ v.batch # 0
      BY IdleTypes, SizesAssumption DEF IdleWriter, WriterType, TypeOK, HistoryOK, Batch
    <3>3. w' = [w EXCEPT ![t] = v] /\ writers' = Append(writers, t)
      BY <3>1 DEF Write
    <3> HIDE DEF v
    <3> QED BY SMTT(30), <3>2, <3>3, <1>a, <1>0
  <2>3. CASE \E levels \in 1..MaxManualLevels : CompactRange(t, levels)
    <3>1. w' = [w EXCEPT ![t] = IdleWriter] /\ writers' = Append(writers, t)
      BY <2>3 DEF CompactRange
    <3> QED BY SMTT(30), <3>1, <1>a, <1>0, IdleTypes DEF IdleWriter
  <2>4. CASE ReturnServed(t)
    <3>1. w' = [w EXCEPT ![t] = IdleWriter] /\ writers' = writers
      BY <2>4 DEF ReturnServed
    <3> QED BY <3>1, <1>a, <1>0, IdleTypes DEF IdleWriter
  <2>5. CASE \/ Lead(t) \/ RoomError(t) \/ RoomDelay(t)
             \/ \E opened \in BOOLEAN : SwitchMemTable(t, opened)
             \/ \E ok \in BOOLEAN : SyncLog(t, ok)
             \/ \E ok, landed \in BOOLEAN : AppendLog(t, ok, landed)
    <3>1. writers' = writers
      BY <2>5 DEF Lead, RoomError, RoomDelay, SwitchMemTable, SyncLog, AppendLog
    <3>2. PICK b1, b2, b3 \in BOOLEAN, st \in Status :
            \/ w' = [w EXCEPT ![t].force = b1, ![t].delay = b2]
            \/ w' = [w EXCEPT ![t].status = st]
            \/ w' = [w EXCEPT ![t].delay = b2]
            \/ w' = [w EXCEPT ![t].force = b1]
            \/ w' = [w EXCEPT ![t].status = st, ![t].syncError = b3]
      <4>1. CASE Lead(t) BY <4>1 DEF Lead, Status
      <4>2. CASE RoomError(t) BY <4>2 DEF RoomError, Status
      <4>3. CASE RoomDelay(t) BY <4>3 DEF RoomDelay, Status
      <4>4. CASE \E opened \in BOOLEAN : SwitchMemTable(t, opened) BY <4>4 DEF SwitchMemTable, Status
      <4>5. CASE \E ok \in BOOLEAN : SyncLog(t, ok) BY <4>5, SizesAssumption DEF SyncLog, Status
      <4>6. CASE \E ok, landed \in BOOLEAN : AppendLog(t, ok, landed) BY <4>6 DEF AppendLog, Status
      <4> QED BY <2>5, <4>1, <4>2, <4>3, <4>4, <4>5, <4>6
    <3>3. PICK v : w' = [w EXCEPT ![t] = v] /\ Updated(w[t], v)
      <4>1. w[t] \in WriterType BY <1>0
      <4>2. PICK v : /\ w' = [w EXCEPT ![t] = v]
                     /\ v \in { [w[t] EXCEPT !.force = b1, !.delay = b2],
                                [w[t] EXCEPT !.status = st], [w[t] EXCEPT !.delay = b2],
                                [w[t] EXCEPT !.force = b1],
                                [w[t] EXCEPT !.status = st, !.syncError = b3] }
        BY <3>2, <1>0
      <4> QED BY <4>1, <4>2, <3>2, <1>WriterUpdates
    <3> QED BY <3>1, <3>3, <1>0, <1>a DEF Updated
  <2>6. CASE FormGroup(t)
    <3> USE <2>6
    <3>1. CASE UNCHANGED w
      BY <3>1, <1>0 DEF FormGroup
    <3>2. CASE ~UNCHANGED w
      <4>1. PICK g \in 1..Len(writers) :
              w' = [w EXCEPT ![t].last = g,
                             ![t].updates = [seq |-> lastSequence + 1,
                                ops |-> UNION {OpsOf(w[writers[i]]) : i \in 1..g}]]
        BY <3>2 DEF FormGroup
      <4> DEFINE ops == UNION {OpsOf(w[writers[i]]) : i \in 1..g}
      <4>2. g \in Nat \ {0} /\ \A i \in 1..g : writers[i] \in Clients
        BY SMTT(30), <1>0
      <4>5. ops \in SUBSET Op
        <5>1. \A i \in 1..g : OpsOf(w[writers[i]]) \subseteq Op
          BY <4>2, <1>0, OpsOfType
        <5> QED BY <5>1
      <4>6. [seq |-> lastSequence + 1, ops |-> ops] \in Record
        <5> HIDE DEF ops
        <5> QED BY SMTT(30), <4>5 DEF Record, TypeOK, StoreOK
      <4> DEFINE r == [seq |-> lastSequence + 1, ops |-> ops]
      <4>7. w' = [w EXCEPT ![t].last = g, ![t].updates = r]
        BY <4>1
      <4>8. writers' = writers
        BY DEF FormGroup
      <4> HIDE DEF r, ops
      <4>9. r \in Record /\ w[t] \in WriterType
        BY <4>6, <1>0 DEF r
      <4>10. w' = [w EXCEPT ![t] = [w[t] EXCEPT !.last = g, !.updates = r]]
        BY <4>7, <1>0
      <4>11. Updated(w[t], [w[t] EXCEPT !.last = g, !.updates = r])
        BY <4>2, <4>9, <1>WriterUpdates
      <4>12. WOK([w EXCEPT ![t] = [w[t] EXCEPT !.last = g, !.updates = r]])
        BY <4>11, <1>0, <1>a DEF Updated
      <4> QED BY <4>8, <4>10, <4>12, <1>0
    <3> QED BY <3>1, <3>2
  <2>7. CASE PopGroup(t)
    <3> USE <2>7
    <3>1. writers' = SubSeq(writers, w[t].last + 1, Len(writers))
      BY DEF PopGroup
    <3>2. writers' \in Seq(Clients)
      BY SMTT(30), <3>1, <1>0 DEF WriterType
    <3>3. \A u \in Clients : \/ w'[u] = IdleWriter \/ w'[u] = w[u]
                             \/ w'[u] = [w[u] EXCEPT !.status = w[t].status, !.done = TRUE]
      BY DEF PopGroup
    <3>4. w' = [u \in Clients |-> w'[u]]
      BY DEF PopGroup
    <3>5. \A u \in Clients : w'[u] \in WriterType /\ (w'[u].batch = 0 => w'[u].n = 0)
      <4>1. w[t].status \in Status
        BY <1>0 DEF WriterType
      <4> TAKE u \in Clients
      <4>2. w[u] \in WriterType /\ (w[u].batch = 0 => w[u].n = 0)
        BY <1>0
      <4>3. CASE w'[u] = [w[u] EXCEPT !.status = w[t].status, !.done = TRUE]
        BY <4>1, <4>2, <4>3 DEF WriterType
      <4>4. CASE w'[u] = IdleWriter
        BY SMTT(30), <4>4, IdleTypes DEF IdleWriter
      <4> QED BY <3>3, <4>2, <4>3, <4>4
    <3> QED BY <3>2, <3>4, <3>5
  <2> QED BY <1>2, <2>1, <2>2, <2>3, <2>4, <2>5, <2>6, <2>7 DEF CallStep, ClientStep
<1> QED BY <1>1, <1>2, StepKinds

\* The three ways a background call begins its work.
LEMMA BeginCases ==
  ASSUME TypeOK,
         BGCompactMemTable \/ BGManual \/ \E label \in {"compact", "install"} : BGPick(label)
  PROVE  \E kind \in {"none", "level0", "deep"}, k \in 0..versions.l0, m \in BOOLEAN,
            label \in {"build", "compact", "install"} :
              Begin(kind, k, m, label) /\ (label = "build" => imm # NoImm)
<1> DEFINE Goal == \E kind \in {"none", "level0", "deep"}, k \in 0..versions.l0, m \in BOOLEAN,
                      label \in {"build", "compact", "install"} :
                        Begin(kind, k, m, label) /\ (label = "build" => imm # NoImm)
<1>0. versions.l0 \in Nat
  BY DEF TypeOK, StoreOK
<1>1. 0 \in 0..versions.l0 /\ 1..versions.l0 \subseteq 0..versions.l0
  BY SMTT(30), <1>0
<1> USE <1>1
<1>2. CASE BGCompactMemTable
  BY <1>2, Zenon DEF BGCompactMemTable
<1>3. "compact" # "build" /\ "install" # "build"
  OBVIOUS
<1>4. CASE BGManual
  BY <1>3, <1>4, Zenon DEF BGManual
<1>5. ASSUME NEW label \in {"compact", "install"}, BGPick(label) PROVE Goal
  BY <1>3, <1>5, Zenon DEF BGPick
<1> QED BY <1>2, <1>4, <1>5

\* What a client changes of the memtables and logs, action by action.
LEMMA ClientStore ==
  ASSUME TypeOK, NEW t \in Clients, CallStep(t)
  PROVE  \/ UNCHANGED <<storeVars, broken>>
         \/ \E opened \in BOOLEAN : SwitchMemTable(t, opened)
         \/ \E ok \in BOOLEAN : SyncLog(t, ok)
         \/ \E ok, landed \in BOOLEAN : AppendLog(t, ok, landed)
         \/ InsertMem(t)
         \/ Complete(t)
<1> USE DEF coreVars, storeVars, diskVars
<1>1. CASE \/ Relock(t) \/ SpuriousWakeup(t) \/ WaitTurn(t) \/ RoomReady(t) \/ RoomWait(t)
           \/ WaitFlushed(t) \/ Flushed(t) \/ RequestManual(t) \/ WaitManual(t)
           \/ WaitClosed(t) \/ Closed(t) \/ Close(t)
  BY <1>1 DEF Relock, SpuriousWakeup, WaitTurn, RoomReady, RoomWait, WaitFlushed, Flushed,
              RequestManual, WaitManual, WaitClosed, Closed, Close, WaitForBackground
<1>2. CASE \/ \E n \in BatchSizes, sync \in BOOLEAN : Write(t, n, sync)
           \/ \E levels \in 1..MaxManualLevels : CompactRange(t, levels)
           \/ Lead(t) \/ RoomError(t) \/ RoomDelay(t) \/ EndManual(t)
           \/ FormGroup(t) \/ ReturnServed(t) \/ PopGroup(t)
  BY <1>2 DEF Write, CompactRange, Lead, RoomError, RoomDelay, EndManual, FormGroup, ReturnServed,
              PopGroup
<1> QED BY <1>1, <1>2 DEF CallStep, ClientStep

\* What the background thread changes of them.
LEMMA BackgroundStore ==
  ASSUME TypeOK, BackgroundStep
  PROVE  \/ UNCHANGED <<storeVars, diskVars>>
         \/ \E ok, landed \in BOOLEAN : FlushManifest(ok, landed) \/ InstallManifest(ok, landed)
         \/ FlushInstalled
         \/ CompactionInstalled
<1> USE DEF coreVars, storeVars, diskVars
<1>1. CASE Relock(BG) \/ BGStart \/ BGNothing \/ BGManualDone \/ BGTail
  BY <1>1 DEF Relock, BGStart, BGNothing, BGManualDone, BGTail
<1>2. CASE BGCompactMemTable \/ BGManual \/ \E label \in {"compact", "install"} : BGPick(label)
  BY <1>2 DEF BGCompactMemTable, BGManual, BGPick, Begin
<1>3. CASE \/ FlushApply \/ FlushFailed \/ CompactPrioritizeImm \/ CompactionApply
           \/ CompactionFailed \/ \E ok \in BOOLEAN : BuildTable(ok) \/ CompactDone(ok)
  BY <1>3 DEF FlushApply, FlushFailed, CompactPrioritizeImm, CompactionApply, CompactionFailed,
              BuildTable, CompactDone
<1> QED BY <1>1, <1>2, <1>3 DEF BackgroundStep

\* A step keeps the history of acknowledged operations well typed.
LEMMA HistoryStep == ASSUME TypeOK, [Next]_vars PROVE HistoryOK'
\* The environment never spends more than its bounds.
<1>BudgetStep. budget' \in [Items -> Nat]
  <2>0. budget \in [Items -> Nat]
    BY DEF TypeOK, HistoryOK
  <2>1. UNCHANGED budget \/ \E item \in Items : Spend(item)
    <3> USE DEF Items
    <3>1. CASE AtomicCall
      BY <3>1 DEF AtomicCall, SuspendCompaction, ResumeCompaction, SeekCompaction, vars
    <3>2. ASSUME NEW t \in Clients, CallStep(t)
          PROVE  UNCHANGED budget \/ \E item \in Items : Spend(item)
      <4>1. CASE \/ Relock(t) \/ SpuriousWakeup(t) \/ WaitTurn(t) \/ RoomReady(t) \/ RoomWait(t)
                 \/ WaitFlushed(t) \/ Flushed(t) \/ RequestManual(t) \/ WaitManual(t)
                 \/ WaitClosed(t) \/ Closed(t) \/ Close(t)
        BY <4>1 DEF Relock, SpuriousWakeup, WaitTurn, RoomReady, RoomWait, WaitFlushed, Flushed,
                    RequestManual, WaitManual, WaitClosed, Closed, Close, WaitForBackground
      <4>2. CASE \/ \E n \in BatchSizes, sync \in BOOLEAN : Write(t, n, sync)
                 \/ \E levels \in 1..MaxManualLevels : CompactRange(t, levels)
                 \/ Lead(t) \/ RoomError(t) \/ RoomDelay(t) \/ EndManual(t)
                 \/ FormGroup(t) \/ ReturnServed(t) \/ PopGroup(t) \/ InsertMem(t) \/ Complete(t)
        BY <4>2 DEF Write, CompactRange, Lead, RoomError, RoomDelay, EndManual, FormGroup, ReturnServed,
                    PopGroup, InsertMem, Complete
      <4>3. CASE \/ \E opened \in BOOLEAN : SwitchMemTable(t, opened)
                 \/ \E ok \in BOOLEAN : SyncLog(t, ok)
                 \/ \E ok, landed \in BOOLEAN : AppendLog(t, ok, landed)
        BY <4>3 DEF SwitchMemTable, SyncLog, AppendLog, FileWrite, MayFail
      <4> QED BY <3>2, <4>1, <4>2, <4>3 DEF CallStep, ClientStep
    <3>3. CASE BackgroundStep
      <4>1. CASE Relock(BG) \/ BGStart \/ BGNothing \/ BGManualDone \/ BGTail
        BY <4>1 DEF Relock, BGStart, BGNothing, BGManualDone, BGTail
      <4>2. CASE BGCompactMemTable \/ BGManual \/ \E label \in {"compact", "install"} : BGPick(label)
        BY <4>2 DEF BGCompactMemTable, BGManual, BGPick
      <4>3. CASE FlushApply \/ FlushFailed \/ FlushInstalled \/ CompactPrioritizeImm
        BY <4>3 DEF FlushApply, FlushFailed, FlushInstalled, CompactPrioritizeImm, Deepen
      <4>4. CASE CompactionApply \/ CompactionFailed \/ CompactionInstalled
        BY <4>4 DEF CompactionApply, CompactionFailed, CompactionInstalled, Deepen
      <4>5. CASE \/ \E ok \in BOOLEAN : BuildTable(ok) \/ CompactDone(ok)
                 \/ \E ok, landed \in BOOLEAN : FlushManifest(ok, landed) \/ InstallManifest(ok, landed)
        BY <4>5 DEF BuildTable, CompactDone, FlushManifest, InstallManifest, FileWrite, MayFail
      <4> QED BY <3>3, <4>1, <4>2, <4>3, <4>4, <4>5 DEF BackgroundStep
    <3> HIDE DEF Items
    <3> QED BY <3>1, <3>2, <3>3, StepKinds
  <2> QED BY SMTT(30), <2>0, <2>1 DEF Spend
<1>0. nextBatch \in Batch /\ errorBatch \in Nat /\ acked \in SUBSET Op /\ ackedSync \in SUBSET acked
  BY DEF TypeOK, HistoryOK
<1>1. errorBatch' \in {errorBatch, nextBatch}
  <2>1. CASE AtomicCall
    BY <2>1, AtomicFrame DEF errorVars
  <2>2. ASSUME NEW t \in Clients, CallStep(t)
        PROVE  errorBatch' \in {errorBatch, nextBatch}
    <3> USE DEF coreVars, flagVars, errorVars
    <3>1. CASE \/ Relock(t) \/ SpuriousWakeup(t) \/ WaitTurn(t) \/ RoomReady(t) \/ RoomWait(t)
               \/ WaitFlushed(t) \/ Flushed(t) \/ RequestManual(t) \/ WaitManual(t)
               \/ WaitClosed(t) \/ Closed(t) \/ Close(t)
      BY <3>1 DEF Relock, SpuriousWakeup, WaitTurn, RoomReady, RoomWait, WaitFlushed, Flushed,
                  RequestManual, WaitManual, WaitClosed, Closed, Close, WaitForBackground
    <3>2. CASE \/ \E n \in BatchSizes, sync \in BOOLEAN : Write(t, n, sync)
               \/ \E levels \in 1..MaxManualLevels : CompactRange(t, levels)
               \/ Lead(t) \/ RoomError(t) \/ RoomDelay(t) \/ EndManual(t)
               \/ FormGroup(t) \/ ReturnServed(t) \/ PopGroup(t) \/ InsertMem(t) \/ Complete(t)
      BY <3>2 DEF Write, CompactRange, Lead, RoomError, RoomDelay, EndManual, FormGroup, ReturnServed,
                  PopGroup, InsertMem, Complete, RecordBackgroundError
    <3>3. CASE \/ \E opened \in BOOLEAN : SwitchMemTable(t, opened)
               \/ \E ok \in BOOLEAN : SyncLog(t, ok)
               \/ \E ok, landed \in BOOLEAN : AppendLog(t, ok, landed)
      BY <3>3 DEF SwitchMemTable, SyncLog, AppendLog
    <3> QED BY <2>2, <3>1, <3>2, <3>3 DEF CallStep, ClientStep
  <2>3. CASE BackgroundStep
    <3> USE DEF coreVars, flagVars, errorVars
    <3>1. CASE Relock(BG) \/ BGStart \/ BGNothing \/ BGManualDone \/ BGTail
      BY <3>1 DEF Relock, BGStart, BGNothing, BGManualDone, BGTail
    <3>2. CASE BGCompactMemTable \/ BGManual \/ \E label \in {"compact", "install"} : BGPick(label)
      BY <3>2 DEF BGCompactMemTable, BGManual, BGPick, Begin
    <3>3. CASE FlushApply \/ FlushFailed \/ FlushInstalled \/ CompactPrioritizeImm
      BY <3>3 DEF FlushApply, FlushFailed, FlushInstalled, CompactPrioritizeImm, FlushReturn,
                  RecordBackgroundError
    <3>4. CASE CompactionApply \/ CompactionFailed \/ CompactionInstalled
      BY <3>4 DEF CompactionApply, CompactionFailed, CompactionInstalled, CompactionReturn,
                  RecordBackgroundError
    <3>5. CASE \/ \E ok \in BOOLEAN : BuildTable(ok) \/ CompactDone(ok)
               \/ \E ok, landed \in BOOLEAN : FlushManifest(ok, landed) \/ InstallManifest(ok, landed)
      BY <3>5 DEF BuildTable, CompactDone, FlushManifest, InstallManifest
    <3> QED BY <2>3, <3>1, <3>2, <3>3, <3>4, <3>5 DEF BackgroundStep
  <2> QED BY <2>1, <2>2, <2>3, StepKinds
<1>2. /\ nextBatch' \in {nextBatch, nextBatch + 1}
      /\ \/ UNCHANGED <<acked, ackedSync>>
         \/ \E t \in Clients, st \in Status : Return(t, st)
  <2>1. CASE AtomicCall
    BY <2>1, AtomicFrame DEF historyVars
  <2>2. CASE BackgroundStep
    BY <2>2, BackgroundFrame DEF historyVars
  <2>3. ASSUME NEW t \in Clients, CallStep(t)
        PROVE  /\ nextBatch' \in {nextBatch, nextBatch + 1}
               /\ UNCHANGED <<acked, ackedSync>> \/ \E st \in Status : Return(t, st)
    <3> USE DEF coreVars, historyVars
    <3>1. CASE \/ Relock(t) \/ SpuriousWakeup(t) \/ WaitTurn(t) \/ RoomReady(t) \/ RoomWait(t)
               \/ WaitFlushed(t) \/ Flushed(t) \/ RequestManual(t) \/ WaitManual(t)
               \/ WaitClosed(t) \/ Closed(t) \/ Close(t)
      BY <3>1 DEF Relock, SpuriousWakeup, WaitTurn, RoomReady, RoomWait, WaitFlushed, Flushed,
                  RequestManual, WaitManual, WaitClosed, Closed, Close, WaitForBackground
    <3>2. CASE \/ \E n \in BatchSizes, sync \in BOOLEAN : Write(t, n, sync)
               \/ \E levels \in 1..MaxManualLevels : CompactRange(t, levels)
               \/ Lead(t) \/ RoomError(t) \/ RoomDelay(t) \/ EndManual(t)
               \/ FormGroup(t) \/ InsertMem(t) \/ Complete(t)
      BY <3>2 DEF Write, CompactRange, Lead, RoomError, RoomDelay, EndManual, FormGroup, InsertMem,
                  Complete
    <3>3. CASE \/ \E opened \in BOOLEAN : SwitchMemTable(t, opened)
               \/ \E ok \in BOOLEAN : SyncLog(t, ok)
               \/ \E ok, landed \in BOOLEAN : AppendLog(t, ok, landed)
      BY <3>3 DEF SwitchMemTable, SyncLog, AppendLog
    <3>4. CASE ReturnServed(t) \/ PopGroup(t)
      <4>1. w[t].status \in Status
        BY DEF TypeOK, CallsOK, WriterType
      <4> QED BY <3>4, <4>1 DEF ReturnServed, PopGroup
    <3> QED BY <2>3, <3>1, <3>2, <3>3, <3>4 DEF CallStep, ClientStep
  <2> QED BY <2>1, <2>2, <2>3, StepKinds
<1>3. acked' \in SUBSET Op /\ ackedSync' \in SUBSET acked'
  <2>1. ASSUME NEW t \in Clients PROVE OpsOf(w[t]) \subseteq Op
    BY OpsOfType DEF TypeOK, CallsOK
  <2> QED BY <1>0, <1>2, <2>1 DEF Return
<1> QED BY SMTT(30), <1>0, <1>1, <1>2, <1>3, <1>BudgetStep DEF HistoryOK, Batch

\* Every step preserves the types, given what the queue and the store mean.
LEMMA TypeStep == ASSUME TypeOK, QueueInv, StoreInv, Counted, [Next]_vars PROVE TypeOK'
\* A step leaves every thread at a label of its own and mutex_ with a thread.
<1>ThreadsStep. ThreadsOK'
  <2> USE ClientsAssumption DEF TypeOK, ThreadsOK, Threads
  <2>1. CASE BackgroundStep
    BY <2>1, BackgroundFrame
  <2>2. CASE AtomicCall
    BY <2>2, AtomicFrame DEF threadVars
  <2>3. ASSUME NEW t \in Clients, CallStep(t) PROVE ThreadsOK'
    BY SMTT(30), <2>3, ClientFrame
  <2> QED BY <2>1, <2>2, <2>3, StepKinds
\* A step keeps the locals of CompactRange well typed.
<1>RangeStep. range' \in [Clients -> RangeType]
  <2>0. range \in [Clients -> RangeType] /\ manual \in Clients \cup {NULL}
    BY DEF TypeOK, CallsOK, FlagsOK
  <2>a. ASSUME NEW t \in Clients PROVE [range EXCEPT ![t].done = TRUE] \in [Clients -> RangeType]
    BY <2>0 DEF RangeType
  <2>1. CASE AtomicCall
    BY <2>1, <2>0, AtomicFrame
  <2>2. CASE BackgroundStep
    <3>1. CASE range' = range
      BY <3>1, <2>0
    <3>2. CASE range' # range
      <4> USE <3>2
      <4>1. manual \in Clients /\ range' = [range EXCEPT ![manual].done = TRUE]
        <5>1. CASE Relock(BG) \/ BGStart \/ BGNothing \/ BGManualDone \/ BGTail
          BY <5>1, <2>0 DEF Relock, BGStart, BGNothing, BGManualDone, BGTail
        <5>2. CASE \/ BGCompactMemTable \/ BGManual
                   \/ \E label \in {"compact", "install"} : BGPick(label)
          BY <5>2 DEF BGCompactMemTable, BGManual, BGPick, Begin
        <5>3. CASE FlushApply \/ FlushFailed \/ FlushInstalled \/ CompactPrioritizeImm
          BY <5>3 DEF FlushApply, FlushFailed, FlushInstalled, FlushReturn, CompactPrioritizeImm
        <5>4. CASE CompactionApply \/ CompactionFailed \/ CompactionInstalled
          BY <5>4, <2>0 DEF CompactionApply, CompactionFailed, CompactionInstalled,
                                  CompactionReturn
        <5>5. CASE \E ok \in BOOLEAN : BuildTable(ok) \/ CompactDone(ok)
          BY <5>5 DEF BuildTable, CompactDone
        <5>6. CASE \E ok, landed \in BOOLEAN : FlushManifest(ok, landed) \/ InstallManifest(ok, landed)
          BY <5>6 DEF FlushManifest, InstallManifest
        <5> QED BY <2>2, <5>1, <5>2, <5>3, <5>4, <5>5, <5>6 DEF BackgroundStep
      <4> QED BY <4>1, <2>a
    <3> QED BY <3>1, <3>2
  <2>3. ASSUME NEW t \in Clients, CallStep(t) PROVE range' \in [Clients -> RangeType]
    <3>1. CASE \E levels \in 1..MaxManualLevels : CompactRange(t, levels)
      <4>1. PICK levels \in 1..MaxManualLevels : CompactRange(t, levels)
        BY <3>1
      <4> DEFINE target == mem \cup (IF imm = NoImm THEN {} ELSE imm)
      <4>2. target \subseteq Record
        BY DEF TypeOK, StoreOK
      <4>3. range' = [range EXCEPT ![t] = [IdleRange EXCEPT !.on = TRUE, !.levels = levels,
                                                            !.target = target]]
        BY <4>1 DEF CompactRange
      <4> HIDE DEF target
      <4>4. [IdleRange EXCEPT !.on = TRUE, !.levels = levels, !.target = target] \in RangeType
        <5>1. levels \in Nat
          BY SMTT(30), SizesAssumption
        <5>2. \A r \in RangeType : [r EXCEPT !.on = TRUE, !.levels = levels, !.target = target] \in RangeType
          BY <4>2, <5>1 DEF RangeType
        <5> QED BY <5>2, IdleTypes
      <4> QED BY <4>3, <4>4, <2>0
    <3>2. CASE EndManual(t)
      <4> DEFINE v == [range[t] EXCEPT !.level = @ + 1, !.done = FALSE]
      <4>1. v \in RangeType
        <5>1. range[t] \in RangeType
          BY <2>0
        <5>2. range[t].level + 1 \in Nat
          BY SMTT(30), <5>1 DEF RangeType
        <5>3. \A n \in Nat : [range[t] EXCEPT !.level = n, !.done = FALSE] \in RangeType
          BY <5>1 DEF RangeType
        <5> QED BY <5>2, <5>3
      <4>2. range' = [range EXCEPT ![t] = v] \/ range' = [range EXCEPT ![t] = IdleRange]
        BY <3>2, <2>0 DEF EndManual
      <4> HIDE DEF v
      <4> QED BY <4>1, <4>2, <2>0, IdleTypes
    <3>3. CASE ~EndManual(t) /\ ~\E levels \in 1..MaxManualLevels : CompactRange(t, levels)
      <4>1. UNCHANGED range
        BY <3>3, <2>3 DEF CallStep, ClientStep, Relock, SpuriousWakeup, WaitTurn, RoomReady, RoomWait,
             WaitFlushed, Flushed, RequestManual, WaitManual, WaitClosed, Closed, Close,
             WaitForBackground, InsertMem, Complete, Write, ReturnServed, Lead, RoomError, RoomDelay,
             SwitchMemTable, SyncLog, AppendLog, FormGroup, PopGroup
      <4> QED BY <4>1, <2>0
    <3> QED BY <3>1, <3>2, <3>3
  <2> QED BY <2>1, <2>2, <2>3, StepKinds
\* The assignments to the locals of the background call keep their types.
<1>BGUpdates. ASSUME NEW b \in BGType
              PROVE  /\ \A kind \in {"none", "level0", "deep"}, k \in Nat, m, v \in BOOLEAN :
                          [b EXCEPT !.kind = kind, !.k = k, !.manual = m, !.move = v] \in BGType
                     /\ \A n \in Nat : [b EXCEPT !.editLog = n] \in BGType
                     /\ \A ok \in BOOLEAN : [b EXCEPT !.ok = ok] \in BGType
                     /\ \A x \in BOOLEAN : [b EXCEPT !.nested = x] \in BGType
                     /\ \A x, ok \in BOOLEAN : [b EXCEPT !.nested = x, !.ok = ok] \in BGType
  <2>1. \A kind \in {"none", "level0", "deep"}, k \in Nat, m, v \in BOOLEAN :
          [b EXCEPT !.kind = kind, !.k = k, !.manual = m, !.move = v] \in BGType
    BY DEF BGType
  <2>2. \A n \in Nat : [b EXCEPT !.editLog = n] \in BGType
    BY DEF BGType
  <2>3. \A ok \in BOOLEAN : [b EXCEPT !.ok = ok] \in BGType
    BY DEF BGType
  <2>4. \A x \in BOOLEAN : [b EXCEPT !.nested = x] \in BGType
    BY DEF BGType
  <2>5. \A x, ok \in BOOLEAN : [b EXCEPT !.nested = x, !.ok = ok] \in BGType
    BY DEF BGType
  <2> QED BY <2>1, <2>2, <2>3, <2>4, <2>5
\* A step keeps the locals of BackgroundCall well typed.
<1>BGLocalsStep. bg' \in BGType
  <2>0. bg \in BGType /\ logfileNumber \in Nat /\ versions.l0 \in Nat
    BY DEF TypeOK, CallsOK, StoreOK
  <2>1. CASE AtomicCall
    BY <2>1, <2>0, AtomicFrame
  <2>2. ASSUME NEW t \in Clients, CallStep(t) PROVE bg' \in BGType
    BY <2>2, <2>0, ClientFrame
  <2>3. CASE BackgroundStep
    <3>1. CASE Relock(BG) \/ BGStart \/ BGNothing \/ BGManualDone \/ BGTail
      BY <3>1, <2>0, IdleTypes DEF Relock, BGStart, BGNothing, BGManualDone, BGTail
    <3>2. CASE \/ BGCompactMemTable \/ BGManual
               \/ \E label \in {"compact", "install"} : BGPick(label)
      <4>1. PICK kind \in {"none", "level0", "deep"}, k \in 0..versions.l0, m \in BOOLEAN,
                 label \in {"build", "compact", "install"} : Begin(kind, k, m, label)
        BY <3>2, BeginCases
      <4>2. bg' = [IdleBG EXCEPT !.kind = kind, !.k = k, !.manual = m, !.move = (label = "install")]
        BY <4>1 DEF Begin
      <4>3. k \in Nat
        BY SMTT(30), <2>0
      <4> QED BY <4>2, <4>3, IdleTypes, <1>BGUpdates
    <3>3. CASE \/ FlushApply \/ FlushFailed \/ FlushInstalled \/ CompactPrioritizeImm
               \/ \E ok \in BOOLEAN : BuildTable(ok) \/ CompactDone(ok)
               \/ \E ok, landed \in BOOLEAN : FlushManifest(ok, landed) \/ InstallManifest(ok, landed)
      <4>1. \/ bg' = [bg EXCEPT !.editLog = logfileNumber]
            \/ bg' = [bg EXCEPT !.nested = FALSE, !.ok = TRUE]
            \/ bg' = [bg EXCEPT !.nested = TRUE]
            \/ \E ok \in BOOLEAN : bg' = [bg EXCEPT !.ok = ok]
        <5>1. CASE FlushApply
          BY <5>1 DEF FlushApply, EditLogNumber
        <5>2. CASE FlushFailed \/ FlushInstalled
          BY <5>2 DEF FlushFailed, FlushInstalled, FlushReturn
        <5>3. CASE CompactPrioritizeImm
          BY <5>3 DEF CompactPrioritizeImm
        <5>4. CASE \E ok \in BOOLEAN : BuildTable(ok) \/ CompactDone(ok)
          BY <5>4 DEF BuildTable, CompactDone
        <5>5. CASE \E ok, landed \in BOOLEAN : FlushManifest(ok, landed) \/ InstallManifest(ok, landed)
          BY <5>5 DEF FlushManifest, InstallManifest
        <5> QED BY <3>3, <5>1, <5>2, <5>3, <5>4, <5>5
      <4> QED BY <4>1, <2>0, <1>BGUpdates
    <3>4. CASE CompactionApply \/ CompactionFailed \/ CompactionInstalled
      BY <3>4, <2>0 DEF CompactionApply, CompactionFailed, CompactionInstalled, CompactionReturn
    <3> QED BY <2>3, <3>1, <3>2, <3>3, <3>4 DEF BackgroundStep
  <2> QED BY <2>1, <2>2, <2>3, StepKinds
\* A step keeps bg_error_, the flags and manual_compaction_ well typed.
<1>FlagsStep. FlagsOK'
  <2>0. FlagsOK
    BY DEF TypeOK
  <2> USE <2>0
  <2>1. CASE AtomicCall
    BY <2>1 DEF AtomicCall, SuspendCompaction, ResumeCompaction, SeekCompaction, FlagsOK, vars, coreVars,
         flagVars, errorVars, MaybeScheduleCompaction
  <2>2. ASSUME NEW t \in Clients, CallStep(t) PROVE FlagsOK'
    <3>1. CASE RequestManual(t) \/ EndManual(t) \/ Close(t) \/ Complete(t)
      BY <3>1 DEF RequestManual, EndManual, Withdrawn, Close, Complete, RecordBackgroundError, FlagsOK,
           errorVars, MaybeScheduleCompaction
    <3>2. CASE \E opened \in BOOLEAN : SwitchMemTable(t, opened)
      BY <3>2 DEF SwitchMemTable, FlagsOK, errorVars, MaybeScheduleCompaction
    <3>3. CASE /\ ~(RequestManual(t) \/ EndManual(t) \/ Close(t) \/ Complete(t))
               /\ ~\E opened \in BOOLEAN : SwitchMemTable(t, opened)
      <4>1. UNCHANGED flagVars
        BY <3>3, <2>2 DEF CallStep, ClientStep, Relock, SpuriousWakeup, WaitTurn, RoomReady, RoomWait,
             WaitFlushed, Flushed, WaitManual, WaitClosed, Closed, CompactRange,
             WaitForBackground, InsertMem, Write, ReturnServed, Lead, RoomError, RoomDelay,
             SyncLog, AppendLog, FormGroup, PopGroup, coreVars
      <4> QED BY <4>1 DEF FlagsOK, flagVars, errorVars
    <3> QED BY <3>1, <3>2, <3>3
  <2>3. CASE BackgroundStep
    <3> USE DEF FlagsOK, flagVars, errorVars, coreVars
    <3>1. CASE \/ Relock(BG) \/ BGStart \/ BGNothing \/ BGManualDone \/ BGCompactMemTable \/ BGManual
               \/ \E label \in {"compact", "install"} : BGPick(label)
      BY <3>1 DEF Relock, BGStart, BGNothing, BGManualDone, BGCompactMemTable, BGManual, BGPick,
           Begin
    <3>2. CASE BGTail
      BY <3>2 DEF BGTail, Reschedule, MaybeScheduleCompaction
    <3>3. CASE FlushApply \/ FlushFailed \/ FlushInstalled \/ CompactPrioritizeImm
      BY <3>3 DEF FlushApply, FlushFailed, FlushInstalled, FlushReturn, CompactPrioritizeImm,
           RecordBackgroundError
    <3>4. CASE CompactionApply \/ CompactionFailed \/ CompactionInstalled
      BY <3>4 DEF CompactionApply, CompactionFailed, CompactionInstalled, CompactionReturn,
           RecordBackgroundError
    <3>5. CASE \/ \E ok \in BOOLEAN : BuildTable(ok) \/ CompactDone(ok)
               \/ \E ok, landed \in BOOLEAN : FlushManifest(ok, landed) \/ InstallManifest(ok, landed)
      BY <3>5 DEF BuildTable, CompactDone, FlushManifest, InstallManifest
    <3> QED BY <2>3, <3>1, <3>2, <3>3, <3>4, <3>5 DEF BackgroundStep
  <2> QED BY <2>1, <2>2, <2>3, StepKinds
\* A step keeps memtables, logs, MANIFEST, version and LastSequence well typed.
<1>StoreStep. StoreOK'
  <2>0. StoreOK
    BY DEF TypeOK
  <2> USE <2>0
  <2>1. CASE AtomicCall
    <3>1. versions' \in [log : Nat, tables : SUBSET Record, l0 : Nat, deep : BOOLEAN]
      BY <2>1, AtomicFrame DEF StoreOK
    <3> QED BY <2>1, <3>1, AtomicFrame DEF StoreOK, storeVars
  <2>2. ASSUME NEW t \in Clients, CallStep(t) PROVE StoreOK'
    <3>0. UNCHANGED <<manifest, versions>>
      BY <2>2, ClientFrame
    <3>a. w[t] \in WriterType /\ w[t].updates \in Record
      BY DEF TypeOK, CallsOK, WriterType
    <3>1. CASE UNCHANGED <<storeVars, broken>>
      BY <3>0, <3>1 DEF StoreOK, storeVars
    <3>2. CASE \E opened \in BOOLEAN : SwitchMemTable(t, opened)
      <4>1. synced' \in SUBSET logged
        BY <3>2 DEF SwitchMemTable, InCurrentLog, StoreOK
      <4> QED BY SMTT(30), <3>0, <3>2, <4>1 DEF SwitchMemTable, StoreOK
    <3>3. CASE \E ok \in BOOLEAN : SyncLog(t, ok)
      BY <3>0, <3>3 DEF SyncLog, InCurrentLog, StoreOK
    <3>4. CASE \E ok, landed \in BOOLEAN : AppendLog(t, ok, landed)
      BY SMTT(30), <3>0, <3>4, <3>a DEF AppendLog, FileWrite, StoreOK
    <3>5. CASE InsertMem(t)
      BY <3>0, <3>5, <3>a DEF InsertMem, StoreOK, diskVars
    <3>6. CASE Complete(t)
      <4> USE <3>6
      <4>1. Cardinality(w[t].updates.ops) \in Nat
        BY DEF Counted
      <4>2. w[t].updates.seq = lastSequence + 1
        BY DEF Complete, StoreInv
      <4>3. lastSequence' = lastSequence + 1 + Cardinality(w[t].updates.ops) - 1
        BY <4>2 DEF Complete, AdvancedSequence
      <4>4. lastSequence \in Nat
        BY DEF StoreOK
      <4>5. lastSequence' \in Nat
        BY SMTT(30), <4>1, <4>3, <4>4
      <4> QED BY <3>0, <4>5 DEF Complete, StoreOK, diskVars
    <3> QED BY <2>2, <3>1, <3>2, <3>3, <3>4, <3>5, <3>6, ClientStore
  <2>3. CASE BackgroundStep
    <3>0. UNCHANGED <<mem, logfileNumber, lastSequence>>
      BY <2>3, BackgroundFrame
    <3>a. bg \in BGType /\ bg.editLog \in Nat /\ bg.k \in Nat
      BY DEF TypeOK, CallsOK, BGType
    <3>1. CASE UNCHANGED <<storeVars, diskVars>>
      BY <3>1 DEF StoreOK, storeVars, diskVars
    <3>2. ASSUME NEW ok \in BOOLEAN, NEW landed \in BOOLEAN, FlushManifest(ok, landed) PROVE StoreOK'
      <4> USE <3>2
      <4>1. imm \in SUBSET Record
        BY DEF FlushManifest, StoreInv, Flushing, StoreOK
      <4>2. manifest' \in [log : Nat, tables : SUBSET Record]
        BY <3>a, <4>1 DEF FlushManifest, StoreOK
      <4> QED BY <4>2 DEF FlushManifest, FileWrite, StoreOK, storeVars
    <3>3. ASSUME NEW ok \in BOOLEAN, NEW landed \in BOOLEAN, InstallManifest(ok, landed) PROVE StoreOK'
      BY <3>3 DEF InstallManifest, FileWrite, StoreOK, storeVars
    <3>4. CASE FlushInstalled
      <4> USE <3>4
      <4>1. imm \in SUBSET Record
        BY DEF FlushInstalled, StoreInv, Flushing, StoreOK
      <4>2. CASE bg.ok
        <5> USE <4>2
        <5>1. PICK level0, deep \in BOOLEAN :
                versions' = [log |-> bg.editLog, tables |-> versions.tables \cup imm,
                             l0 |-> versions.l0 + (IF level0 THEN 1 ELSE 0), deep |-> deep]
          BY DEF FlushInstalled
        <5>2. versions.l0 + (IF level0 THEN 1 ELSE 0) \in Nat /\ versions.tables \subseteq Record
          BY SMTT(30) DEF StoreOK
        <5>3. versions' \in [log : Nat, tables : SUBSET Record, l0 : Nat, deep : BOOLEAN]
          BY <5>1, <5>2, <4>1, <3>a
        <5>4. UNCHANGED <<manifest, broken>> /\ imm' = NoImm
          BY DEF FlushInstalled
        <5>5. logged' \subseteq logged /\ synced' \subseteq logged'
          BY DEF FlushInstalled, DeleteObsoleteFiles, StoreOK
        <5> QED BY <3>0, <5>3, <5>4, <5>5 DEF StoreOK
      <4>3. CASE ~bg.ok
        BY <4>3 DEF FlushInstalled, StoreOK, storeVars, diskVars
      <4> QED BY <4>2, <4>3
    <3>5. CASE CompactionInstalled
      <4> USE <3>5
      <4>1. versions' \in [log : Nat, tables : SUBSET Record, l0 : Nat, deep : BOOLEAN]
        <5>1. versions.l0 - bg.k \in Nat
          <6>1. bg.k <= versions.l0
            BY DEF CompactionInstalled, StoreInv
          <6> QED BY SMTT(30), <6>1, <3>a DEF StoreOK
        <5>2. \A n \in Nat, deep \in BOOLEAN :
                [versions EXCEPT !.l0 = n, !.deep = deep]
                  \in [log : Nat, tables : SUBSET Record, l0 : Nat, deep : BOOLEAN]
          BY DEF StoreOK
        <5>3. \/ UNCHANGED versions
              \/ \E deep \in BOOLEAN : versions' = [versions EXCEPT !.l0 = versions.l0 - bg.k, !.deep = deep]
          BY DEF CompactionInstalled, diskVars
        <5> QED BY <5>1, <5>2, <5>3 DEF StoreOK
      <4>2. UNCHANGED <<manifest, broken, imm>>
        BY DEF CompactionInstalled, diskVars
      <4>3. logged' \subseteq logged /\ synced' \subseteq logged'
        BY DEF CompactionInstalled, DeleteObsoleteFiles, StoreOK
      <4> QED BY <3>0, <4>1, <4>2, <4>3 DEF StoreOK
    <3> QED BY <2>3, <3>1, <3>2, <3>3, <3>4, <3>5, BackgroundStore
  <2> QED BY <2>1, <2>2, <2>3, StepKinds
<1>1. ThreadsOK' /\ StoreOK' /\ FlagsOK' /\ HistoryOK'
  BY <1>ThreadsStep, <1>StoreStep, <1>FlagsStep, HistoryStep
<1>2. CallsOK'
  BY WritersStep, <1>RangeStep, <1>BGLocalsStep DEF CallsOK
<1> QED BY <1>1, <1>2 DEF TypeOK
-----------------------------------------------------------------------------
(***************************************************************************)
(* The writers' queue.                                                     *)
(***************************************************************************)
\* writers_ holds threads of the application.
LEMMA QueueOfClients ==
  ASSUME TypeOK
  PROVE  Len(writers) \in Nat /\ \A i \in 1..Len(writers) : writers[i] \in Clients
<1>1. writers \in Seq(Clients)
  BY DEF TypeOK, CallsOK
<1> QED BY ONLY <1>1

\* What is left of a queue when its first k elements are popped.
LEMMA DropFirst ==
  ASSUME NEW S, NEW s \in Seq(S), NEW k \in Nat, k <= Len(s)
  PROVE  /\ Len(SubSeq(s, k + 1, Len(s))) = Len(s) - k
         /\ \A i \in 1..Len(SubSeq(s, k + 1, Len(s))) :
              /\ SubSeq(s, k + 1, Len(s))[i] = s[i + k]
              /\ i + k \in 1..Len(s)
<1>1. Len(s) \in Nat
  BY SMTT(30)
<1>2. Len(SubSeq(s, k + 1, Len(s))) = Len(s) - k
  BY SMTT(30), <1>1
<1>3. \A i \in 1..(Len(s) - k) : i + k \in 1..Len(s) /\ SubSeq(s, k + 1, Len(s))[i] = s[i + k]
  BY SMTT(30), <1>1
<1> QED BY <1>2, <1>3

\* Every step preserves QueueInv.
LEMMA QueueStep == ASSUME TypeOK, QueueInv, [Next]_vars PROVE QueueInv'
\* A step that changes neither the queue nor who waits in it.
<1>QueueUnchanged. ASSUME UNCHANGED <<writers, w>>, cvWait' \subseteq cvWait,
                          \A t \in Clients : pc'[t] = pc[t]
                   PROVE  QueueInv'
  <2> USE <1>QueueUnchanged
  <2>1. \A i \in 1..Len(writers) : writers[i] \in Clients
    BY QueueOfClients
  <2>2. \A u \in Clients : InQueue(u)' <=> InQueue(u)
    BY DEF InQueue
  <2>3. cvWait \subseteq Clients
    BY DEF TypeOK, ThreadsOK
  <2> QED BY SMTT(30), <2>1, <2>2, <2>3 DEF QueueInv, NoLostWakeup
\* The front writer moves on inside Write.
<1>QueueLeading. ASSUME NEW t \in Clients, NEW v \in WriterType, NEW label \in Leading, pc[t] \in Leading,
                        v.done = w[t].done, v.last <= Len(writers), label \notin Grouped => v.last = 1,
                        writers' = writers, cvWait' \subseteq cvWait, w' = [w EXCEPT ![t] = v],
                        pc' = [pc EXCEPT ![t] = label]
                 PROVE  QueueInv'
  <2> USE <1>QueueLeading
  <2>1. /\ \A u \in Clients : u # t => pc'[u] = pc[u] /\ w'[u] = w[u]
        /\ pc'[t] = label /\ w'[t] = v
    BY DEF TypeOK, ThreadsOK, CallsOK, Threads
  <2>2. \A u \in Clients : InQueue(u)' <=> InQueue(u)
    BY <2>1 DEF InQueue, Leading
  <2>3. \A i \in 1..Len(writers) : writers[i] \in Clients
    BY SMTT(30) DEF TypeOK, CallsOK
  <2>4. \A u \in cvWait : u \in Clients /\ u # t
    BY DEF TypeOK, ThreadsOK, QueueInv, NoLostWakeup, Leading
  <2> QED BY SMTT(30), <2>1, <2>2, <2>3, <2>4 DEF QueueInv, NoLostWakeup, Leading
\* A thread outside the queue moves without entering it.
<1>QueueOutside. ASSUME NEW t \in Clients, NEW label, UNCHANGED <<writers, w>>, cvWait' \subseteq cvWait,
                        pc' = [pc EXCEPT ![t] = label], pc[t] \notin Leading \cup {"queued"},
                        label \notin Leading \cup {"queued"}
                 PROVE  QueueInv'
  <2> USE <1>QueueOutside
  <2>1. /\ \A u \in Clients : u # t => pc'[u] = pc[u]
        /\ pc'[t] = label
    BY DEF TypeOK, ThreadsOK, Threads
  <2>2. \A u \in Clients : InQueue(u)' <=> InQueue(u)
    BY <2>1 DEF InQueue
  <2>3. \A i \in 1..Len(writers) : writers[i] \in Clients
    BY SMTT(30) DEF TypeOK, CallsOK
  <2>4. \A u \in cvWait : u \in Clients /\ u # t
    BY DEF TypeOK, ThreadsOK, QueueInv, NoLostWakeup
  <2>5. ~w[t].done /\ (label \notin Grouped)
    BY DEF QueueInv, Leading, Grouped
  <2>6. w[t].last = 1
    BY DEF QueueInv, Leading, Grouped
  <2> QED BY SMTT(30), <2>1, <2>2, <2>3, <2>4, <2>5, <2>6 DEF QueueInv, NoLostWakeup
\* A call pushes its Writer.
<1>QueuePush. ASSUME NEW t \in Clients, NEW v \in WriterType, pc[t] = "idle", ~v.done, v.last = 1,
                     writers' = Append(writers, t), UNCHANGED cvWait, w' = [w EXCEPT ![t] = v],
                     pc' = [pc EXCEPT ![t] = "queued"]
              PROVE  QueueInv'
  <2> USE <1>QueuePush
  <2>1. /\ \A u \in Clients : u # t => pc'[u] = pc[u] /\ w'[u] = w[u]
        /\ pc'[t] = "queued" /\ w'[t] = v
    BY DEF TypeOK, ThreadsOK, CallsOK, Threads
  <2>2. writers \in Seq(Clients) /\ \A i \in 1..Len(writers) : writers[i] \in Clients
    BY SMTT(30) DEF TypeOK, CallsOK
  <2>3. ~InQueue(t) /\ \A i \in 1..Len(writers) : writers[i] # t
    BY DEF InQueue, Leading, QueueInv
  <2>4. /\ Len(writers') = Len(writers) + 1
        /\ writers'[Len(writers) + 1] = t
        /\ \A i \in 1..Len(writers) : writers'[i] = writers[i]
    BY SMTT(30), <2>2
  <2>5. \A u \in cvWait : u \in Clients /\ u # t
    BY DEF TypeOK, ThreadsOK, QueueInv, NoLostWakeup
  <2>a. \A u \in Clients : InQueue(u)' <=> InQueue(u) \/ u = t
    BY <2>1 DEF InQueue
  <2>b. \A i \in 1..Len(writers') : i \in 1..Len(writers) \/ i = Len(writers) + 1
    BY SMTT(30), <2>2, <2>4
  <2>6. \A i, j \in 1..Len(writers') : writers'[i] = writers'[j] => i = j
    BY SMTT(30), <2>3, <2>4, <2>b DEF QueueInv
  <2>c. \A i \in 1..Len(writers') : InQueue(writers[i])'
    BY SMTT(30), <2>2, <2>3, <2>4, <2>a, <2>b DEF QueueInv
  <2>d. \A u \in Clients : InQueue(u)' => \E i \in 1..Len(writers') : writers'[i] = u
    <3>1. 1..Len(writers) \subseteq 1..Len(writers') /\ Len(writers) + 1 \in 1..Len(writers')
      BY SMTT(30), <2>2, <2>4
    <3> SUFFICES ASSUME NEW u \in Clients, InQueue(u)'
                 PROVE  \E i \in 1..Len(writers') : writers'[i] = u
      OBVIOUS
    <3>2. CASE u = t
      BY <2>4, <3>1, <3>2
    <3>3. CASE InQueue(u)
      <4>1. PICK i \in 1..Len(writers) : writers[i] = u
        BY <3>3 DEF QueueInv
      <4>2. i \in 1..Len(writers') /\ writers'[i] = u
        BY <2>4, <3>1, <4>1
      <4> QED BY <4>2
    <3> QED BY <2>a, <3>2, <3>3
  <2>7. \A u \in Clients : pc'[u] \in Leading =>
          Len(writers') > 0 /\ writers'[1] = u /\ w'[u].last <= Len(writers')
    <3> SUFFICES ASSUME NEW u \in Clients, pc'[u] \in Leading
                 PROVE  Len(writers') > 0 /\ writers'[1] = u /\ w'[u].last <= Len(writers')
      OBVIOUS
    <3>1. u # t
      BY <2>1 DEF Leading
    <3>2. pc[u] \in Leading /\ w'[u] = w[u]
      BY <2>1, <3>1
    <3>3. Len(writers) > 0 /\ writers[1] = u /\ w[u].last <= Len(writers)
      BY <3>2 DEF QueueInv
    <3>4. w[u].last \in Nat /\ Len(writers) \in Nat
      BY SMTT(30), <2>2 DEF WriterType, TypeOK, CallsOK
    <3> QED BY SMTT(30), <2>4, <3>2, <3>3, <3>4
  <2>8. \A u \in Clients : (w'[u].done => pc'[u] = "queued") /\ (pc'[u] \notin Grouped => w'[u].last = 1)
    BY <2>1 DEF QueueInv
  <2>9. NoLostWakeup'
    BY SMTT(30), <2>1, <2>2, <2>4, <2>5 DEF QueueInv, NoLostWakeup
  <2> QED BY <2>6, <2>7, <2>8, <2>9, <2>c, <2>d DEF QueueInv
\* A served writer returns: nobody else's place in the queue changes.
<1>QueueServed. ASSUME NEW t \in Clients, ReturnServed(t) PROVE QueueInv'
  <2> USE <1>QueueServed
  <2>1. PICK label \in {"idle", "flushing", "ranging"} : pc' = [pc EXCEPT ![t] = label]
    BY DEF ReturnServed, Return, Goto
  <2>2. /\ \A u \in Clients : u # t => pc'[u] = pc[u] /\ w'[u] = w[u]
        /\ pc'[t] = label /\ w'[t] = IdleWriter
        /\ writers' = writers /\ cvWait' = cvWait
    BY <2>1 DEF TypeOK, ThreadsOK, CallsOK, Threads, ReturnServed
  <2>3. \A i \in 1..Len(writers) : writers[i] \in Clients
    BY SMTT(30) DEF TypeOK, CallsOK
  <2>4. pc[t] = "queued" /\ w[t].done /\ ~InQueue(t)
    BY DEF ReturnServed, InQueue, Leading
  <2>5. label \notin Leading \cup {"queued"} \cup Grouped
    BY DEF Leading, Grouped
  <2>6. \A u \in Clients : InQueue(u)' <=> InQueue(u)
    BY <2>2, <2>4, <2>5 DEF InQueue
  <2>7. \A u \in cvWait : u \in Clients /\ u # t
    BY <2>4 DEF TypeOK, ThreadsOK, QueueInv, NoLostWakeup
  <2>8. ~IdleWriter.done /\ IdleWriter.last = 1
    BY DEF IdleWriter
  <2> QED BY SMTT(30), <2>2, <2>3, <2>5, <2>6, <2>7, <2>8 DEF QueueInv, NoLostWakeup
\* A writer becomes the front one and starts to lead.
<1>QueueLead. ASSUME NEW t \in Clients, Lead(t) PROVE QueueInv'
  <2> USE <1>QueueLead
  <2>1. pc' = [pc EXCEPT ![t] = "room"] /\ pc[t] = "queued" /\ ~w[t].done /\ Head(writers) = t
    BY DEF Lead, Goto, IsFront
  <2> USE <2>1
  <2>2. /\ \A u \in Clients : u # t => pc'[u] = pc[u] /\ w'[u] = w[u]
        /\ pc'[t] = "room" /\ w'[t].done = w[t].done /\ w'[t].last = w[t].last
        /\ writers' = writers /\ cvWait' = cvWait
    BY SMTT(30) DEF TypeOK, ThreadsOK, CallsOK, Threads, Lead, WriterType
  <2>3. writers \in Seq(Clients) /\ \A i \in 1..Len(writers) : writers[i] \in Clients
    BY QueueOfClients DEF TypeOK, CallsOK
  <2>4. InQueue(t)
    BY DEF InQueue
  <2>5. Len(writers) > 0 /\ writers[1] = t
    <3>1. \E i \in 1..Len(writers) : writers[i] = t
      BY <2>4 DEF QueueInv
    <3> QED BY SMTT(30), <2>3, <3>1
  <2> USE <2>5
  <2>6. \A u \in Clients : InQueue(u)' <=> InQueue(u)
    BY <2>2 DEF InQueue, Leading
  <2>7. \A u \in cvWait : u \in Clients /\ u # t
    BY SMTT(30), <2>3 DEF TypeOK, ThreadsOK, QueueInv, NoLostWakeup
  <2>8. w[t].last = 1
    BY DEF QueueInv, Grouped
  <2>9. w'[t].last = 1 /\ w'[t].last <= Len(writers)
    BY SMTT(30), <2>2, <2>8, QueueOfClients
  <2>10. NoLostWakeup'
    BY SMTT(30), <2>2, <2>7 DEF NoLostWakeup, QueueInv
  <2> QED BY SMTT(30), <2>2, <2>3, <2>6, <2>9, <2>10 DEF QueueInv
\* A thread blocks in the queue: it is not the front.
<1>QueueWait. ASSUME NEW t \in Clients, WaitTurn(t) PROVE QueueInv'
  <2> USE <1>QueueWait
  <2>1. /\ pc[t] = "queued" /\ ~w[t].done /\ Head(writers) # t
        /\ UNCHANGED <<pc, writers, w>> /\ cvWait' = cvWait \cup {t}
    BY DEF WaitTurn, IsFront
  <2> USE <2>1
  <2>2. writers \in Seq(Clients) /\ \A i \in 1..Len(writers) : writers[i] \in Clients
    BY SMTT(30) DEF TypeOK, CallsOK
  <2>3. PICK i \in 1..Len(writers) : writers[i] = t
    BY DEF QueueInv, InQueue
  <2>4. i \in 2..Len(writers)
    BY SMTT(30), <2>2, <2>3
  <2>5. NoLostWakeup'
    BY <2>3, <2>4 DEF QueueInv, NoLostWakeup
  <2>6. \A u \in Clients : InQueue(u)' <=> InQueue(u)
    BY DEF InQueue
  <2> QED BY <2>2, <2>5, <2>6 DEF QueueInv
\* The front writer pops its group, marks the others done and wakes them and
\* the next front.
<1>QueuePop. ASSUME NEW t \in Clients, PopGroup(t) PROVE QueueInv'
  <2> USE <1>QueuePop
  <2> DEFINE last == w[t].last
             served == {writers[i] : i \in 2..last}
             rest == SubSeq(writers, last + 1, Len(writers))
  <2>1. PICK label \in {"idle", "flushing", "ranging"} : pc' = [pc EXCEPT ![t] = label]
    BY DEF PopGroup, Return, Goto
  <2>2. writers \in Seq(Clients) /\ \A i \in 1..Len(writers) : writers[i] \in Clients
    BY SMTT(30) DEF TypeOK, CallsOK
  <2>3. last \in Nat \ {0} /\ Len(writers) \in Nat
    BY SMTT(30), <2>2 DEF TypeOK, CallsOK, WriterType
  <2>4. pc[t] = "pop" /\ writers[1] = t /\ last <= Len(writers) /\ Len(writers) > 0
    BY DEF PopGroup, QueueInv, Leading
  <2>5. writers' = rest /\ cvWait' = cvWait \ (served \cup NewFront(rest))
    BY DEF PopGroup
  <2>6. /\ \A u \in Clients : u # t => pc'[u] = pc[u]
        /\ pc'[t] = label /\ label \notin Leading \cup {"queued"} \cup Grouped
    BY <2>1 DEF TypeOK, ThreadsOK, Threads, Leading, Grouped
  <2>7. /\ w'[t] = IdleWriter
        /\ \A u \in Clients : u # t /\ u \notin served => w'[u] = w[u]
    BY DEF PopGroup
  <2>8. \A u \in Clients : u # t /\ u \in served =>
          w'[u] = [w[u] EXCEPT !.status = w[t].status, !.done = TRUE]
    BY DEF PopGroup
  <2>9. \A u \in Clients : u # t /\ u \in served => w'[u].done /\ w'[u].last = w[u].last
    <3> TAKE u \in Clients
    <3> HAVE u # t /\ u \in served
    <3>1. w[u] \in WriterType
      BY DEF TypeOK, CallsOK
    <3>2. w'[u] = [w[u] EXCEPT !.status = w[t].status, !.done = TRUE]
      BY <2>8
    <3> QED BY <3>1, <3>2 DEF WriterType
  <2>10. ~IdleWriter.done /\ IdleWriter.last = 1
    BY DEF IdleWriter
  <2>11. /\ Len(writers') = Len(writers) - last
         /\ \A i \in 1..Len(writers') : /\ writers'[i] = writers[i + last]
                                        /\ i + last \in 1..Len(writers)
    <3> HIDE DEF last
    <3> QED BY <2>2, <2>3, <2>4, <2>5, DropFirst
  <2>12. \A i, j \in 1..Len(writers) : writers[i] = writers[j] => i = j
    BY DEF QueueInv
  <2>13. t \notin served
    BY SMTT(30), <2>3, <2>4, <2>12
  <2>14. \A i \in 1..Len(writers') : writers'[i] # t /\ writers'[i] \notin served
    <3> TAKE i \in 1..Len(writers')
    <3>1. i \in Nat \ {0} /\ i + last \in 1..Len(writers) /\ writers'[i] = writers[i + last]
      BY SMTT(30), <2>3, <2>11
    <3> USE <3>1
    <3> HIDE DEF last
    <3>2. writers'[i] # t
      BY SMTT(30), <2>3, <2>4, <2>12
    <3>3. \A j \in 2..last : writers[j] # writers[i + last]
      <4> TAKE j \in 2..last
      <4>1. j \in 1..Len(writers) /\ j # i + last
        BY SMTT(30), <2>3, <2>4
      <4> QED BY <2>12, <4>1
    <3> QED BY <3>2, <3>3
  <2> HIDE DEF rest
  <2>15. \A u \in served : u \in Clients /\ pc[u] = "queued" /\ InQueue(u)
    <3> TAKE u \in served
    <3>1. PICK i \in 2..last : writers[i] = u
      OBVIOUS
    <3>2. i \in 1..Len(writers) /\ i # 1
      BY SMTT(30), <2>3, <2>4, <3>1
    <3>3. InQueue(u) /\ u \in Clients /\ u # t
      BY SMTT(30), <2>2, <2>4, <2>12, <3>1, <3>2 DEF QueueInv
    <3>4. pc[u] \notin Leading
      BY <2>4, <3>3 DEF QueueInv
    <3> QED BY <3>3, <3>4 DEF InQueue
  <2> HIDE DEF served, last
  <2>16. \A i, j \in 1..Len(writers') : writers'[i] = writers'[j] => i = j
    <3> TAKE i, j \in 1..Len(writers')
    <3> HAVE writers'[i] = writers'[j]
    <3>1. i + last = j + last
      BY <2>11, <2>12
    <3>2. i \in Int /\ j \in Int
      BY SMTT(30), <2>3, <2>11
    <3> QED BY SMTT(30), <3>1, <3>2, <2>3
  <2>17. \A i \in 1..Len(writers') : InQueue(writers[i])'
    <3> TAKE i \in 1..Len(writers')
    <3>1. InQueue(writers[i + last]) /\ writers[i + last] \in Clients
      BY <2>2, <2>11 DEF QueueInv
    <3>2. writers'[i] = writers[i + last] /\ writers'[i] # t /\ writers'[i] \notin served
      BY <2>11, <2>14
    <3> QED BY <3>1, <3>2, <2>6, <2>7 DEF InQueue
  <2>18. ASSUME NEW u \in Clients, u # t, u \notin served, InQueue(u)
         PROVE  \E i \in 1..Len(writers') : writers'[i] = u /\ writers[i + last] = u
    <3>1. PICK j \in 1..Len(writers) : writers[j] = u
      BY <2>18 DEF QueueInv
    <3>2. j # 1 /\ j \notin 2..last
      BY <2>4, <2>18, <3>1 DEF served
    <3>3. j - last \in 1..Len(writers') /\ (j - last) + last = j
      BY SMTT(30), <2>3, <2>11, <3>2
    <3> QED BY <2>11, <3>1, <3>3
  <2>19. \A u \in Clients : InQueue(u)' => \E i \in 1..Len(writers') : writers'[i] = u
    <3> TAKE u \in Clients
    <3> HAVE InQueue(u)'
    <3>1. u # t
      BY <2>6 DEF InQueue
    <3> USE <3>1
    <3>2. u \notin served
      BY <2>6, <2>9, <2>15 DEF InQueue, Leading
    <3>3. InQueue(u)
      BY <2>6, <2>7, <3>2 DEF InQueue
    <3> QED BY <2>18, <3>2, <3>3
  <2>20. \A u \in Clients : pc'[u] \notin Leading
    BY <2>4, <2>6 DEF QueueInv
  <2>21. \A u \in Clients : (w'[u].done => pc'[u] = "queued") /\ (pc'[u] \notin Grouped => w'[u].last = 1)
    <3> TAKE u \in Clients
    <3>1. CASE u = t
      BY <3>1, <2>7, <2>10
    <3>2. CASE u # t /\ u \in served
      BY <3>2, <2>6, <2>9, <2>15 DEF QueueInv, Grouped
    <3>3. CASE u # t /\ u \notin served
      BY <3>3, <2>6, <2>7 DEF QueueInv
    <3> QED BY <3>1, <3>2, <3>3
  <2>22. NoLostWakeup'
    <3> SUFFICES ASSUME NEW u \in cvWait'
                 PROVE  /\ pc'[u] = "queued" /\ ~w'[u].done
                        /\ \E i \in 2..Len(writers') : writers'[i] = u
      BY DEF NoLostWakeup
    <3>1. u \in cvWait /\ u \notin served /\ u \notin NewFront(rest) /\ u \in Clients
      BY <2>5 DEF TypeOK, ThreadsOK
    <3> USE <3>1
    <3>2. pc[u] = "queued" /\ ~w[u].done /\ InQueue(u)
      BY DEF QueueInv, NoLostWakeup, InQueue
    <3>3. u # t
      BY <3>2, <2>4
    <3>4. PICK i \in 1..Len(writers') : writers'[i] = u
      BY <2>18, <3>2, <3>3
    <3>5. i # 1
      <4>1. ASSUME i = 1 PROVE FALSE
        <5>1. rest # <<>> /\ Head(rest) = u
          BY SMTT(30), <4>1, <3>4, <2>5
        <5> QED BY <5>1 DEF NewFront
      <4> QED BY <4>1
    <3>6. i \in 2..Len(writers')
      BY SMTT(30), <3>5, <2>3, <2>11
    <3> QED BY <2>6, <2>7, <3>2, <3>3, <3>4, <3>6
  <2> QED BY <2>16, <2>17, <2>19, <2>20, <2>21, <2>22 DEF QueueInv
<1>1. CASE AtomicCall
  <2>1. UNCHANGED <<pc, writers, w, cvWait>>
    BY <1>1, AtomicFrame DEF threadVars
  <2> QED BY <2>1, <1>QueueUnchanged
<1>2. CASE BackgroundStep
  <2>1. UNCHANGED <<writers, w, cvWait>> /\ \A t \in Clients : pc'[t] = pc[t]
    BY <1>2, BackgroundFrame, ClientsAssumption DEF TypeOK, ThreadsOK, Threads
  <2> QED BY <2>1, <1>QueueUnchanged
<1>3. ASSUME NEW t \in Clients, CallStep(t) PROVE QueueInv'
  <2>0. w[t] \in WriterType /\ w \in [Clients -> WriterType] /\ Len(writers) \in Nat
    BY SMTT(30) DEF TypeOK, CallsOK
  <2>1. CASE \/ Relock(t) \/ SpuriousWakeup(t) \/ RoomWait(t) \/ WaitFlushed(t)
             \/ RequestManual(t) \/ WaitManual(t) \/ WaitClosed(t)
    <3>1. UNCHANGED <<pc, writers, w>> /\ cvWait' \subseteq cvWait
      BY <2>1 DEF Relock, SpuriousWakeup, RoomWait, WaitFlushed, RequestManual, WaitManual,
                  WaitClosed, WaitForBackground, threadVars
    <3> QED BY <3>1, <1>QueueUnchanged
  <2>2. CASE Flushed(t) \/ EndManual(t) \/ Close(t) \/ Closed(t)
    <3>1. PICK label \in {"ranging", "idle", "closing", "closed"} :
            /\ pc' = [pc EXCEPT ![t] = label] /\ UNCHANGED <<writers, w, cvWait>>
            /\ pc[t] \in {"flushing", "ranging", "closing", "idle"}
      BY <2>2 DEF Flushed, EndManual, Close, Closed, Goto
    <3> QED BY <3>1, <1>QueueOutside DEF Leading
  <2>3. CASE WaitTurn(t) \/ Lead(t) \/ ReturnServed(t) \/ PopGroup(t)
    BY <2>3, <1>QueueWait, <1>QueueLead, <1>QueueServed, <1>QueuePop
  <2>4. CASE \E n \in BatchSizes, sync \in BOOLEAN : Write(t, n, sync)
    <3>1. PICK n \in BatchSizes, sync \in BOOLEAN : Write(t, n, sync)
      BY <2>4
    <3> DEFINE v == [IdleWriter EXCEPT !.batch = nextBatch, !.n = n, !.sync = sync]
    <3>2. v \in WriterType
      BY IdleTypes, SizesAssumption DEF IdleWriter, WriterType, TypeOK, HistoryOK, Batch
    <3>3. ~v.done /\ v.last = 1
      BY DEF IdleWriter
    <3>4. /\ w' = [w EXCEPT ![t] = v] /\ writers' = Append(writers, t)
          /\ pc[t] = "idle" /\ pc' = [pc EXCEPT ![t] = "queued"] /\ UNCHANGED cvWait
      BY <3>1 DEF Write, Goto
    <3> HIDE DEF v
    <3> QED BY <3>2, <3>3, <3>4, <1>QueuePush
  <2>5. CASE \E levels \in 1..MaxManualLevels : CompactRange(t, levels)
    <3>1. /\ w' = [w EXCEPT ![t] = IdleWriter] /\ writers' = Append(writers, t)
          /\ pc[t] = "idle" /\ pc' = [pc EXCEPT ![t] = "queued"] /\ UNCHANGED cvWait
      BY <2>5 DEF CompactRange, Goto
    <3>2. ~IdleWriter.done /\ IdleWriter.last = 1
      BY DEF IdleWriter
    <3> QED BY <3>1, <3>2, IdleTypes, <1>QueuePush
  <2>6. CASE \/ RoomReady(t) \/ InsertMem(t) \/ Complete(t)
             \/ FormGroup(t) /\ UNCHANGED w
    <3> USE <2>6
    <3>1. PICK label \in Leading : pc' = [pc EXCEPT ![t] = label] /\ (label \notin Grouped => label = "group")
      BY DEF RoomReady, InsertMem, Complete, FormGroup, Goto, Leading, Grouped
    <3>2. w' = [w EXCEPT ![t] = w[t]] /\ writers' = writers /\ cvWait' = cvWait
      BY <2>0 DEF RoomReady, InsertMem, Complete, FormGroup
    <3>3. pc[t] \in Leading
      BY DEF RoomReady, InRoom, InsertMem, Complete, FormGroup, Leading
    <3>4. w[t].last <= Len(writers) /\ (label \notin Grouped => w[t].last = 1)
      BY <3>1, <3>3 DEF QueueInv, RoomReady, InRoom, InsertMem, Complete, FormGroup, Grouped, Goto,
           TypeOK, ThreadsOK, Threads
    <3> QED BY <2>0, <3>1, <3>2, <3>3, <3>4, <1>QueueLeading
  <2>7. CASE FormGroup(t) /\ ~UNCHANGED w
    <3>1. PICK g \in 1..Len(writers) :
            \E r : w' = [w EXCEPT ![t].last = g, ![t].updates = r]
      BY <2>7 DEF FormGroup
    <3>2. /\ pc' = [pc EXCEPT ![t] = "append"] /\ pc[t] = "group"
          /\ writers' = writers /\ cvWait' = cvWait
      BY <2>7 DEF FormGroup, Goto
    <3>3. w'[t] \in WriterType
      BY WritersStep
    <3>4. w' = [w EXCEPT ![t] = w'[t]] /\ w'[t].done = w[t].done /\ w'[t].last = g
      BY <2>0, <3>1 DEF WriterType
    <3>5. g <= Len(writers)
      BY SMTT(30), <2>0
    <3> DEFINE v == w'[t]
    <3> HIDE DEF v
    <3>6. v \in WriterType /\ w' = [w EXCEPT ![t] = v] /\ v.done = w[t].done /\ v.last <= Len(writers)
      BY <3>3, <3>4, <3>5 DEF v
    <3> QED BY <3>2, <3>6, <1>QueueLeading DEF Leading, Grouped
  <2>8. CASE \/ RoomError(t) \/ RoomDelay(t)
             \/ \E opened \in BOOLEAN : SwitchMemTable(t, opened)
             \/ \E ok \in BOOLEAN : SyncLog(t, ok)
             \/ \E ok, landed \in BOOLEAN : AppendLog(t, ok, landed)
    <3> USE <2>8
    <3>1. w'[t] \in WriterType /\ w' \in [Clients -> WriterType]
      BY WritersStep
    <3>2. /\ w' = [w EXCEPT ![t] = w'[t]] /\ w'[t].done = w[t].done /\ w'[t].last = w[t].last
          /\ writers' = writers /\ cvWait' = cvWait
      <4>1. CASE RoomError(t) \/ RoomDelay(t)
        BY SMTT(30), <2>0, <4>1 DEF RoomError, RoomDelay, WriterType
      <4>2. CASE \E opened \in BOOLEAN : SwitchMemTable(t, opened)
        BY <2>0, <4>2 DEF SwitchMemTable, WriterType, threadVars
      <4>3. CASE \E ok \in BOOLEAN : SyncLog(t, ok)
        <5>1. PICK s, e : w' = [w EXCEPT ![t].status = s, ![t].syncError = e]
          BY <4>3 DEF SyncLog
        <5>2. writers' = writers /\ cvWait' = cvWait
          BY <4>3 DEF SyncLog
        <5> QED BY <2>0, <5>1, <5>2 DEF WriterType
      <4>4. CASE \E ok, landed \in BOOLEAN : AppendLog(t, ok, landed)
        BY SMTT(30), <2>0, <4>4 DEF AppendLog, WriterType
      <4> QED BY <4>1, <4>2, <4>3, <4>4
    <3>3. PICK label \in Leading : pc' = [pc EXCEPT ![t] = label] /\ (label \notin Grouped => label = "room")
      <4>1. CASE RoomError(t) \/ RoomDelay(t) \/ \E opened \in BOOLEAN : SwitchMemTable(t, opened)
        BY <4>1 DEF RoomError, RoomDelay, SwitchMemTable, InRoom, Goto, Leading, Grouped, threadVars,
             TypeOK, ThreadsOK, Threads
      <4>2. CASE \/ \E ok \in BOOLEAN : SyncLog(t, ok)
                 \/ \E ok, landed \in BOOLEAN : AppendLog(t, ok, landed)
        BY <4>2 DEF SyncLog, AppendLog, Goto, Leading, Grouped
      <4> QED BY <4>1, <4>2
    <3>4. pc[t] \in Leading /\ (label = "room" => pc[t] = "room")
      <4>1. CASE RoomError(t) \/ RoomDelay(t) \/ \E opened \in BOOLEAN : SwitchMemTable(t, opened)
        BY <4>1 DEF RoomError, RoomDelay, SwitchMemTable, InRoom, Leading
      <4>2. CASE \/ \E ok \in BOOLEAN : SyncLog(t, ok)
                 \/ \E ok, landed \in BOOLEAN : AppendLog(t, ok, landed)
        <5>1. pc'[t] # "room" /\ pc'[t] = label
          BY <4>2, <3>3 DEF SyncLog, AppendLog, Goto, TypeOK, ThreadsOK, Threads
        <5> QED BY <4>2, <5>1 DEF SyncLog, AppendLog, Leading
      <4> QED BY <4>1, <4>2
    <3>5. w[t].last <= Len(writers) /\ (label \notin Grouped => w[t].last = 1)
      BY <3>3, <3>4 DEF QueueInv, Grouped
    <3> DEFINE v == w'[t]
    <3> HIDE DEF v
    <3>6. /\ v \in WriterType /\ w' = [w EXCEPT ![t] = v] /\ v.done = w[t].done
          /\ v.last <= Len(writers) /\ (label \notin Grouped => v.last = 1)
      BY <3>1, <3>2, <3>5 DEF v
    <3> QED BY <3>2, <3>3, <3>4, <3>6, <1>QueueLeading
  <2> QED BY <1>3, <2>1, <2>2, <2>3, <2>4, <2>5, <2>6, <2>7, <2>8 DEF CallStep, ClientStep
<1> QED BY <1>1, <1>2, <1>3, StepKinds

\* Only FormGroup gives a Writer a new record.
LEMMA UpdatesFrom ==
  ASSUME TypeOK, [Next]_vars, NEW u \in Clients
  PROVE  \/ w'[u].updates = w[u].updates \/ w'[u].updates = IdleWriter.updates
         \/ FormGroup(u) /\ w' # w
<1>0. w \in [Clients -> WriterType]
  BY DEF TypeOK, CallsOK
<1> USE <1>0
<1>1. ASSUME NEW t \in Clients, CallStep(t), w' # w
      PROVE  \/ w'[u].updates = w[u].updates \/ w'[u].updates = IdleWriter.updates
             \/ FormGroup(u)
  <2> USE <1>1
  <2>1. CASE \/ Relock(t) \/ SpuriousWakeup(t) \/ WaitTurn(t) \/ RoomReady(t) \/ RoomWait(t)
             \/ WaitFlushed(t) \/ Flushed(t) \/ RequestManual(t) \/ WaitManual(t)
             \/ WaitClosed(t) \/ Closed(t) \/ Close(t) \/ InsertMem(t) \/ Complete(t) \/ EndManual(t)
    BY <2>1 DEF Relock, SpuriousWakeup, WaitTurn, RoomReady, RoomWait, WaitFlushed,
         Flushed, RequestManual, WaitManual, WaitClosed, Closed, Close, WaitForBackground, InsertMem,
         Complete, EndManual
  <2>2. CASE \/ \E n \in BatchSizes, sync \in BOOLEAN : Write(t, n, sync)
             \/ \E levels \in 1..MaxManualLevels : CompactRange(t, levels)
    <3>1. PICK v : w' = [w EXCEPT ![t] = v] /\ v.updates = IdleWriter.updates
      <4>1. CASE \E levels \in 1..MaxManualLevels : CompactRange(t, levels)
        BY <4>1 DEF CompactRange
      <4>2. CASE \E n \in BatchSizes, sync \in BOOLEAN : Write(t, n, sync)
        <5>1. PICK n \in BatchSizes, sync \in BOOLEAN :
                w' = [w EXCEPT ![t] = [IdleWriter EXCEPT !.batch = nextBatch, !.n = n,
                                                         !.sync = sync]]
          BY <4>2 DEF Write
        <5> DEFINE v == [IdleWriter EXCEPT !.batch = nextBatch, !.n = n, !.sync = sync]
        <5>2. v.updates = IdleWriter.updates
          BY DEF IdleWriter
        <5> QED BY <5>1, <5>2
      <4> QED BY <2>2, <4>1, <4>2
    <3> QED BY <3>1
  <2>3. CASE Lead(t) \/ RoomError(t) \/ RoomDelay(t) \/ \E opened \in BOOLEAN : SwitchMemTable(t, opened)
    BY SMTT(30), <2>3 DEF Lead, RoomError, RoomDelay, SwitchMemTable, WriterType
  <2>4. CASE \/ \E ok \in BOOLEAN : SyncLog(t, ok)
             \/ \E ok, landed \in BOOLEAN : AppendLog(t, ok, landed)
    <3>1. CASE \E ok \in BOOLEAN : SyncLog(t, ok)
      <4>1. PICK s, e : w' = [w EXCEPT ![t].status = s, ![t].syncError = e]
        BY <3>1 DEF SyncLog
      <4> QED BY <4>1 DEF WriterType
    <3>2. CASE \E ok, landed \in BOOLEAN : AppendLog(t, ok, landed)
      <4>1. PICK s : w' = [w EXCEPT ![t].status = s]
        BY <3>2 DEF AppendLog
      <4> QED BY <4>1 DEF WriterType
    <3> QED BY <2>4, <3>1, <3>2
  <2>5. CASE FormGroup(t)
    BY <2>5 DEF FormGroup
  <2>6. CASE ReturnServed(t)
    BY <2>6 DEF ReturnServed
  <2>7. CASE PopGroup(t)
    <3>1. \/ w'[u] = IdleWriter \/ w'[u] = w[u]
          \/ w'[u] = [w[u] EXCEPT !.status = w[t].status, !.done = TRUE]
      BY <2>7 DEF PopGroup
    <3> QED BY <3>1 DEF WriterType
  <2> QED BY <2>1, <2>2, <2>3, <2>4, <2>5, <2>6, <2>7 DEF CallStep, ClientStep
<1> QED BY <1>1, BackgroundFrame, AtomicFrame, StepKinds
-----------------------------------------------------------------------------
Logging == {"append", "sync", "insert", "relock"}

\* Between FormGroup and PopGroup only the front writer is inside Write.
LEMMA OneLeader ==
  ASSUME QueueInv, NEW t \in Clients, NEW u \in Clients, pc[t] \in Leading, pc[u] \in Leading
  PROVE  t = u
BY SMTT(30) DEF QueueInv

\* A step of t that leaves the store and the queue alone: t moves to label and
\* its Writer becomes v.
Quiet(t, v, label) ==
  /\ w' = [w EXCEPT ![t] = v] /\ pc' = [pc EXCEPT ![t] = label]
  /\ UNCHANGED <<storeVars, writers, acked>>
  /\ v \in WriterType
  /\ v.batch = w[t].batch /\ v.n = w[t].n /\ v.sync = w[t].sync
  /\ v.last = w[t].last /\ v.done = w[t].done
  /\ v.done => v.status = w[t].status
  /\ label \in Logging => pc[t] = label /\ v = w[t]
  /\ label = "pop" => \/ v.status = "error"
                      \/ v = w[t] /\ pc[t] = "pop"
                      \/ v = w[t] /\ pc[t] = "group" /\ v.batch = 0

Push(t) == \/ \E n \in BatchSizes, sync \in BOOLEAN : Write(t, n, sync)
           \/ \E levels \in 1..MaxManualLevels : CompactRange(t, levels)

\* The steps of a client that matter for the store or the acknowledgements.
LEMMA ClientCases ==
  ASSUME TypeOK, QueueInv, NEW t \in Clients, CallStep(t)
  PROVE  \/ \E v, label : Quiet(t, v, label)
         \/ Push(t) \/ ReturnServed(t) \/ PopGroup(t)
         \/ FormGroup(t) /\ w[t].batch # 0
         \/ \E opened \in BOOLEAN : SwitchMemTable(t, opened)
         \/ \E ok \in BOOLEAN : SyncLog(t, ok)
         \/ \E ok, landed \in BOOLEAN : AppendLog(t, ok, landed)
         \/ InsertMem(t) \/ Complete(t)
<1>0. w[t] \in WriterType /\ w = [w EXCEPT ![t] = w[t]] /\ pc = [pc EXCEPT ![t] = pc[t]]
  BY DEF TypeOK, CallsOK, ThreadsOK, Threads
<1>1. CASE \/ Relock(t) \/ SpuriousWakeup(t) \/ WaitTurn(t) \/ RoomWait(t)
           \/ WaitFlushed(t) \/ RequestManual(t) \/ WaitManual(t) \/ WaitClosed(t)
  <2>1. UNCHANGED <<storeVars, writers, acked, w, pc>>
    BY <1>1 DEF Relock, SpuriousWakeup, WaitTurn, RoomWait, WaitFlushed, RequestManual,
         WaitManual, WaitClosed, WaitForBackground, coreVars, historyVars, threadVars
  <2>2. Quiet(t, w[t], pc[t])
    <3>1. pc[t] = "pop" => w[t] = w[t] /\ pc[t] = "pop"
      OBVIOUS
    <3> QED BY <1>0, <2>1, <3>1 DEF Quiet
  <2> QED BY <2>2
<1>2. CASE \/ RoomReady(t) \/ Flushed(t) \/ EndManual(t) \/ Close(t) \/ Closed(t)
           \/ FormGroup(t) /\ w[t].batch = 0
  <2>1. PICK label \in {"group", "ranging", "idle", "closing", "closed", "pop"} :
          /\ pc' = [pc EXCEPT ![t] = label]
          /\ label = "pop" => pc[t] = "group" /\ w[t].batch = 0
    BY <1>2 DEF RoomReady, Flushed, EndManual, Close, Closed, FormGroup, Goto
  <2>2. UNCHANGED <<storeVars, writers, acked, w>>
    BY <1>2 DEF RoomReady, Flushed, EndManual, Close, Closed, FormGroup, coreVars, historyVars
  <2>3. Quiet(t, w[t], label)
    BY <1>0, <2>1, <2>2 DEF Quiet, Logging
  <2> QED BY <2>3
<1>3. CASE RoomDelay(t) \/ Lead(t) \/ RoomError(t)
  <2> USE <1>3
  <2> DEFINE v == w'[t]
  <2>1. PICK label \in {"room", "pop"} :
          pc' = [pc EXCEPT ![t] = label] /\ (label = "pop" => v.status = "error")
    BY SMTT(30), <1>0 DEF RoomDelay, Lead, RoomError, Goto, TypeOK, CallsOK, WriterType
  <2>2. UNCHANGED <<storeVars, writers, acked>>
    BY DEF RoomDelay, Lead, RoomError, coreVars, historyVars
  <2>3. v \in WriterType
    BY WritersStep DEF CallStep, ClientStep, Next, Application
  <2>4. w' = [w EXCEPT ![t] = v]
    BY <1>0 DEF RoomDelay, Lead, RoomError, TypeOK, CallsOK
  <2>5. /\ v.batch = w[t].batch /\ v.n = w[t].n /\ v.sync = w[t].sync
        /\ v.last = w[t].last /\ v.done = w[t].done
    BY SMTT(30), <1>0 DEF RoomDelay, Lead, RoomError, TypeOK, CallsOK, WriterType
  <2>6. ~w[t].done
    BY DEF RoomDelay, Lead, RoomError, QueueInv
  <2> HIDE DEF v
  <2>7. Quiet(t, v, label)
    BY <2>1, <2>2, <2>3, <2>4, <2>5, <2>6 DEF Quiet, Logging
  <2> QED BY <2>7
<1> QED BY <1>1, <1>2, <1>3 DEF CallStep, ClientStep, Push
-----------------------------------------------------------------------------
(***************************************************************************)
(* StoreInv.                                                               *)
(***************************************************************************)
\* Every step preserves StoreInv.
LEMMA StoreInvStep == ASSUME TypeOK, QueueInv, StoreInv, [Next]_vars PROVE StoreInv'
\* A client step that changes no store: what matters is what it does to the
\* records of the threads that are logging.
<1>StoreKept. ASSUME UNCHANGED <<storeVars, bg, manifest>>, pc'[BG] = pc[BG],
                     versions'.tables = versions.tables, versions'.log = versions.log,
                     versions'.l0 = versions.l0,
                     \A u \in Clients : pc'[u] \in {"sync", "insert"} => <<logfileNumber, w'[u].updates>> \in logged,
                     \A u \in Clients : pc'[u] \in Logging => w'[u].updates.seq = lastSequence + 1
              PROVE  StoreInv'
  BY <1>StoreKept DEF StoreInv, storeVars, Logging, Imm
\* Every step of a client keeps the logs, the memtables and the MANIFEST in line.
<1>StoreClient. ASSUME NEW t \in Clients, CallStep(t) PROVE StoreInv'
  <2> USE <1>StoreClient
  <2> USE DEF Logging
  <2>1. /\ UNCHANGED <<bg, manifest, versions>>
        /\ pc'[BG] = pc[BG] /\ \A u \in Clients : u # t => pc'[u] = pc[u]
    BY SMTT(30), ClientFrame, ClientsAssumption DEF TypeOK, ThreadsOK, Threads
  <2>2. CASE \E v, label : Quiet(t, v, label)
    <3>1. PICK v, label : Quiet(t, v, label)
      BY <2>2
    <3>2. /\ \A u \in Clients : u # t => w'[u] = w[u]
          /\ w'[t] = v /\ pc'[t] = label
      BY <3>1 DEF Quiet, TypeOK, CallsOK, ThreadsOK, Threads
    <3> QED BY SMTT(30), <2>1, <3>1, <3>2, <1>StoreKept DEF Quiet, StoreInv
  <2>3. CASE Push(t) \/ ReturnServed(t) \/ PopGroup(t)
    <3>1. UNCHANGED storeVars /\ pc'[t] \notin Logging
      BY <2>3 DEF Push, Write, CompactRange, ReturnServed, PopGroup, Return, Goto, coreVars, TypeOK,
           ThreadsOK, Threads
    <3>2. \A u \in Clients : u # t => w'[u].updates = w[u].updates
      <4>1. CASE Push(t) \/ ReturnServed(t)
        <5>1. PICK v : w' = [w EXCEPT ![t] = v]
          BY <4>1 DEF Push, Write, CompactRange, ReturnServed
        <5> QED BY <5>1 DEF TypeOK, CallsOK
      <4>2. CASE PopGroup(t)
        BY <4>2 DEF PopGroup, TypeOK, CallsOK, WriterType
      <4> QED BY <2>3, <4>1, <4>2
    <3> QED BY <2>1, <3>1, <3>2, <1>StoreKept DEF StoreInv
  <2>4. CASE FormGroup(t) /\ w[t].batch # 0
    <3>1. UNCHANGED storeVars /\ pc'[t] = "append"
      BY <2>4 DEF FormGroup, Goto, coreVars, TypeOK, ThreadsOK, Threads
    <3>2. PICK g, o : w' = [w EXCEPT ![t].last = g,
                                     ![t].updates = [seq |-> lastSequence + 1, ops |-> o]]
      BY <2>4 DEF FormGroup
    <3>3. /\ \A u \in Clients : u # t => w'[u] = w[u]
          /\ w'[t].updates.seq = lastSequence + 1
      BY <3>2 DEF TypeOK, CallsOK, WriterType
    <3> QED BY <2>1, <3>1, <3>3, <1>StoreKept DEF StoreInv
  <2>5. CASE \E opened \in BOOLEAN : SwitchMemTable(t, opened)
    <3>1. /\ pc[t] = "room" /\ imm = NoImm /\ logfileNumber' = logfileNumber + 1
          /\ imm' = mem /\ mem' = {} /\ UNCHANGED <<pc, logged, lastSequence>>
      BY <2>5 DEF SwitchMemTable, InRoom, NoSwitch, threadVars
    <3> USE <3>1
    <3>3. \A u \in Clients : pc[u] \notin Logging
      BY OneLeader DEF Leading
    <3>4. /\ logfileNumber \in Nat /\ logfileNumber \geq manifest.log /\ manifest.log \in Nat
          /\ versions.log \in Nat /\ bg.editLog \in Nat /\ logfileNumber \geq versions.log
      BY DEF StoreInv, TypeOK, StoreOK, CallsOK, BGType
    <3>5. \A r \in Imm' : r \in mem
      BY DEF Imm
    <3>6. pc[BG] \notin Flushing
      BY DEF StoreInv
    <3>7. \A r \in Imm' : \E p \in logged' : p[2] = r /\ p[1] >= manifest'.log /\ p[1] >= versions'.log
      <4> TAKE r \in Imm'
      <4>1. <<logfileNumber, r>> \in logged'
        BY <3>5 DEF StoreInv
      <4> QED BY <2>1, <3>4, <4>1
    <3>8. /\ manifest.log <= logfileNumber' /\ versions.log <= logfileNumber'
          /\ bg.editLog <= logfileNumber'
      BY SMTT(30), <3>4 DEF StoreInv
    <3> QED BY <2>1, <3>3, <3>6, <3>7, <3>8 DEF StoreInv, Flushing, Logging
  <2>6. CASE \/ \E ok \in BOOLEAN : SyncLog(t, ok)
             \/ \E ok, landed \in BOOLEAN : AppendLog(t, ok, landed)
    <3> USE <2>6
    <3>1. pc[t] \in {"sync", "append"} /\ UNCHANGED <<mem, imm, logfileNumber, lastSequence>>
      BY DEF SyncLog, AppendLog
    <3>2. \A u \in Clients : w'[u].updates = w[u].updates
      <4>1. w \in [Clients -> WriterType]
        BY DEF TypeOK, CallsOK
      <4>2. CASE \E ok \in BOOLEAN : SyncLog(t, ok)
        <5>1. PICK s, e : w' = [w EXCEPT ![t].status = s, ![t].syncError = e]
          BY <4>2 DEF SyncLog
        <5> QED BY <4>1, <5>1 DEF WriterType
      <4>3. CASE \E ok, landed \in BOOLEAN : AppendLog(t, ok, landed)
        BY SMTT(30), <4>1, <4>3 DEF AppendLog, WriterType
      <4> QED BY <4>2, <4>3
    <3>3. logged \subseteq logged'
      BY DEF SyncLog, AppendLog
    <3>4. pc'[t] \in {"sync", "insert"} => <<logfileNumber, w[t].updates>> \in logged'
      <4>1. CASE \E ok \in BOOLEAN : SyncLog(t, ok)
        BY <4>1 DEF SyncLog, StoreInv
      <4>2. CASE \E ok, landed \in BOOLEAN : AppendLog(t, ok, landed)
        <5>1. PICK ok \in BOOLEAN, landed \in BOOLEAN : AppendLog(t, ok, landed)
          BY <4>2
        <5> USE <5>1
        <5>2. pc'[t] \in {"sync", "insert"} => ok
          BY DEF AppendLog, Goto, TypeOK, ThreadsOK, Threads
        <5>3. ok => landed
          BY DEF AppendLog, FileWrite
        <5> QED BY <5>2, <5>3 DEF AppendLog
      <4> QED BY <4>1, <4>2
    <3>5. \A u \in Clients : pc'[u] \in Logging => pc[u] \in Logging
      BY <2>1, <3>1
    <3> QED BY <2>1, <3>1, <3>2, <3>3, <3>4, <3>5 DEF StoreInv, Imm
  <2>7. CASE InsertMem(t)
    <3>1. /\ pc[t] = "insert" /\ pc'[t] = "relock" /\ mem' \subseteq mem \cup {w[t].updates}
          /\ UNCHANGED <<imm, logfileNumber, logged, synced, lastSequence, w>>
      BY <2>7 DEF InsertMem, Goto, TypeOK, ThreadsOK, Threads
    <3> USE <3>1
    <3>2. \A u \in Clients : pc'[u] \in Logging => pc[u] \in Logging
      BY <2>1
    <3>3. \A r \in mem' : <<logfileNumber, r>> \in logged
      BY DEF StoreInv
    <3> QED BY <2>1, <3>2, <3>3 DEF StoreInv, Imm
  <2>8. CASE Complete(t)
    <3>1. /\ pc[t] = "relock" /\ pc'[t] = "pop"
          /\ UNCHANGED <<mem, imm, logfileNumber, logged, synced, w>>
      BY <2>8 DEF Complete, Goto, TypeOK, ThreadsOK, Threads
    <3>2. \A u \in Clients : pc'[u] \notin Logging
      BY <2>1, <3>1, OneLeader DEF Leading
    <3> QED BY <2>1, <3>1, <3>2 DEF StoreInv, Imm
  <2> QED BY <2>2, <2>3, <2>4, <2>5, <2>6, <2>7, <2>8, ClientCases
\* A background step that changes no store: the background call's own facts.
<1>StoreBackgroundKept. ASSUME BackgroundStep, UNCHANGED <<storeVars, diskVars>>,
                               \A ok, landed \in BOOLEAN : ~FlushManifest(ok, landed) /\ ~InstallManifest(ok, landed)
                        PROVE  StoreInv'
  <2> USE <1>StoreBackgroundKept
  <2>1. /\ UNCHANGED w /\ \A u \in Clients : pc'[u] = pc[u]
        /\ \E label \in BGLabels : pc' = [pc EXCEPT ![BG] = label]
    BY BackgroundFrame, ClientsAssumption DEF TypeOK, ThreadsOK, Threads
  <2>2. bg \in BGType /\ logfileNumber \in Nat /\ versions.l0 \in Nat /\ BG \in Threads
        /\ pc \in [Threads -> ClientLabels \cup BGLabels]
    BY DEF TypeOK, CallsOK, StoreOK, ThreadsOK, Threads
  <2> USE <2>2
  <2>a. SUFFICES /\ bg'.editLog <= logfileNumber
                 /\ pc'[BG] \in Flushing => imm # NoImm
                 /\ pc'[BG] \notin {"tail", "crashed"} => bg'.k <= versions.l0
                 /\ pc'[BG] = "flushWritten" => pc[BG] = "flushWritten" /\ bg' = bg
    BY <2>1 DEF StoreInv, storeVars, diskVars, Imm
  <2>b. 0 <= logfileNumber /\ 0 <= versions.l0 /\ \A k \in 0..versions.l0 : k <= versions.l0
    BY SMTT(30)
  <2> USE DEF StoreInv, Flushing, Goto
  <2>3. CASE Relock(BG) \/ BGStart \/ BGNothing \/ BGManualDone
    BY <2>3 DEF Relock, BGStart, BGNothing, BGManualDone
  <2>4. CASE CompactionApply \/ CompactionFailed
    BY <2>4 DEF CompactionApply, CompactionFailed, CompactionReturn
  <2>5. CASE BGTail
    <3>1. pc'[BG] = "idle" /\ bg' = IdleBG
      BY <2>5 DEF BGTail
    <3>2. bg'.editLog = 0 /\ bg'.k = 0
      BY <3>1 DEF IdleBG
    <3> QED BY <2>b, <3>1, <3>2
  <2>6. CASE BGCompactMemTable \/ BGManual \/ \E label \in {"compact", "install"} : BGPick(label)
    <3>1. PICK kind \in {"none", "level0", "deep"}, k \in 0..versions.l0, m \in BOOLEAN,
               label \in {"build", "compact", "install"} :
                 Begin(kind, k, m, label) /\ (label = "build" => imm # NoImm)
      BY <2>6, BeginCases
    <3>2. bg'.editLog = 0 /\ bg'.k = k /\ pc'[BG] = label
      BY <3>1 DEF Begin, IdleBG
    <3> QED BY <2>b, <3>1, <3>2
  <2>7. CASE \/ FlushApply \/ FlushFailed \/ CompactPrioritizeImm
             \/ \E ok \in BOOLEAN : BuildTable(ok) \/ CompactDone(ok)
    <3>1. bg'.editLog \in {bg.editLog, logfileNumber} /\ bg'.k = bg.k
      <4>1. CASE FlushApply \/ CompactPrioritizeImm
        BY <4>1 DEF FlushApply, CompactPrioritizeImm, EditLogNumber, BGType
      <4>2. CASE FlushFailed
        BY <4>2 DEF FlushFailed, FlushReturn, BGType
      <4>3. CASE \E ok \in BOOLEAN : BuildTable(ok) \/ CompactDone(ok)
        <5>1. PICK ok : bg' = [bg EXCEPT !.ok = ok]
          BY <4>3 DEF BuildTable, CompactDone
        <5> QED BY <5>1 DEF BGType
      <4> QED BY <2>7, <4>1, <4>2, <4>3
    <3>2. /\ pc[BG] \in {"build", "built", "compact"}
          /\ pc'[BG] \in {"build", "built", "flushManifest", "tail", "compact", "compacted"}
          /\ pc'[BG] \in Flushing => pc[BG] \in Flushing \/ imm # NoImm
      BY <2>7 DEF FlushApply, FlushFailed, FlushReturn, CompactPrioritizeImm, BuildTable,
           CompactDone
    <3> QED BY SMTT(30), <3>1, <3>2
  <2>8. CASE FlushInstalled \/ CompactionInstalled
    <3>1. CASE FlushInstalled
      <4>1. bg'.editLog = bg.editLog /\ bg'.k = bg.k /\ pc[BG] = "flushWritten"
            /\ pc'[BG] \in {"tail", "compact"}
        BY <3>1 DEF FlushInstalled, FlushReturn, BGType
      <4> QED BY <4>1
    <3>2. CASE CompactionInstalled
      BY <3>2 DEF CompactionInstalled, CompactionReturn
    <3> QED BY <2>8, <3>1, <3>2
  <2> QED BY <2>3, <2>4, <2>5, <2>6, <2>7, <2>8 DEF BackgroundStep
\* Every step of the background thread keeps them in line.
<1>StoreBackground. ASSUME BackgroundStep PROVE StoreInv'
  <2> USE <1>StoreBackground
  <2>1. /\ UNCHANGED <<w, mem, logfileNumber, lastSequence>>
        /\ \A u \in Clients : pc'[u] = pc[u]
        /\ \E label \in BGLabels : pc' = [pc EXCEPT ![BG] = label]
    BY BackgroundFrame, ClientsAssumption DEF TypeOK, ThreadsOK, Threads
  <2>2. bg \in BGType /\ logfileNumber \in Nat /\ versions.l0 \in Nat /\ BG \in Threads
        /\ pc \in [Threads -> ClientLabels \cup BGLabels]
    BY DEF TypeOK, CallsOK, StoreOK, ThreadsOK, Threads
  <2>3. manifest \in [log : Nat, tables : SUBSET Record]
        /\ versions \in [log : Nat, tables : SUBSET Record, l0 : Nat, deep : BOOLEAN]
        /\ logged \in SUBSET (Nat \X Record)
    BY DEF TypeOK, StoreOK
  <2>4. ASSUME NEW ok \in BOOLEAN, NEW landed \in BOOLEAN, FlushManifest(ok, landed)
        PROVE  StoreInv'
    <3> USE <2>4
    <3>1. /\ pc[BG] = "flushManifest" /\ pc'[BG] = "flushWritten" /\ imm # NoImm
          /\ UNCHANGED <<versions, imm, logged>>
      BY <2>2 DEF FlushManifest, Goto, storeVars, StoreInv, Flushing
    <3>2. bg'.k = bg.k /\ bg'.editLog = bg.editLog /\ bg'.ok = ok
      BY <2>2 DEF FlushManifest, BGType
    <3>3. EnvReports /\ ok => landed
      BY DEF FlushManifest, FileWrite
    <3>4. CASE landed
      <4>1. manifest'.log = bg.editLog /\ manifest'.tables = manifest.tables \cup imm
        BY <3>4 DEF FlushManifest
      <4> QED BY <2>1, <2>2, <3>1, <3>2, <4>1 DEF StoreInv, Imm, Flushing
    <3>5. CASE ~landed
      <4>1. manifest' = manifest
        BY <3>5 DEF FlushManifest
      <4> QED BY <2>1, <2>2, <3>1, <3>2, <3>3, <3>5, <4>1 DEF StoreInv, Imm, Flushing
    <3> QED BY <3>4, <3>5
  <2>5. ASSUME NEW ok \in BOOLEAN, NEW landed \in BOOLEAN, InstallManifest(ok, landed)
        PROVE  StoreInv'
    <3> USE <2>5
    <3>1. /\ pc[BG] = "install" /\ pc'[BG] = "installed"
          /\ UNCHANGED <<versions, imm, logged>>
      BY <2>2 DEF InstallManifest, Goto, storeVars
    <3>2. bg'.k = bg.k /\ bg'.editLog = bg.editLog
      BY <2>2 DEF InstallManifest, BGType
    <3>3. manifest'.tables = manifest.tables /\ manifest'.log \in {manifest.log, versions.log}
      BY <2>3 DEF InstallManifest
    <3> QED BY <2>1, <2>2, <3>1, <3>2, <3>3 DEF StoreInv, Imm, Flushing
  <2>6. CASE FlushInstalled /\ ~UNCHANGED <<storeVars, diskVars>>
    <3> USE <2>6
    <3>1. /\ pc[BG] = "flushWritten" /\ bg.ok /\ imm # NoImm /\ imm' = NoImm
          /\ versions'.log = bg.editLog /\ versions'.tables = versions.tables \cup imm
          /\ versions'.l0 \in Nat /\ versions'.l0 \geq versions.l0 /\ manifest' = manifest
      <4>1. /\ pc[BG] = "flushWritten" /\ bg.ok /\ imm' = NoImm /\ manifest' = manifest
            /\ \E level0, deep \in BOOLEAN :
                 versions' = [log |-> bg.editLog, tables |-> versions.tables \cup imm,
                              l0 |-> versions.l0 + (IF level0 THEN 1 ELSE 0), deep |-> deep]
        BY DEF FlushInstalled
      <4>2. imm # NoImm
        BY <4>1 DEF StoreInv, Flushing
      <4> QED BY SMTT(30), <2>2, <4>1, <4>2
    <3> USE <3>1
    <3>2. pc'[BG] \in {"tail", "compact"} /\ bg'.k = bg.k /\ bg'.editLog = bg.editLog
      BY <2>2 DEF FlushInstalled, FlushReturn, Goto, BGType
    <3>3. \A p \in logged : p[1] >= bg.editLog => p \in logged'
      BY DEF FlushInstalled, DeleteObsoleteFiles
    <3>4. \A r : <<logfileNumber, r>> \in logged => <<logfileNumber, r>> \in logged'
      BY <2>2, <3>3 DEF StoreInv, BGType
    <3>5. Imm' = {} /\ Imm = imm
      BY DEF Imm
    <3>6. EnvReports => versions'.tables \subseteq manifest'.tables
      BY <3>5 DEF StoreInv
    <3>7. /\ manifest'.log <= logfileNumber' /\ versions'.log <= logfileNumber'
          /\ bg'.editLog <= logfileNumber'
      BY <2>1, <3>2 DEF StoreInv
    <3>8. /\ \A r \in mem' : <<logfileNumber', r>> \in logged'
          /\ \A u \in Clients : pc'[u] \in {"sync", "insert"} =>
                                <<logfileNumber', w'[u].updates>> \in logged'
      BY <2>1, <3>4 DEF StoreInv
    <3>9. /\ \A u \in Clients : pc'[u] \in {"append", "sync", "insert", "relock"} =>
                                w'[u].updates.seq = lastSequence' + 1
          /\ pc'[BG] \notin Flushing
      BY <2>1, <3>2 DEF StoreInv, Flushing
    <3>a. bg'.k <= versions'.l0
      <4>1. bg.k <= versions.l0
        BY DEF StoreInv
      <4> QED BY SMTT(30), <2>2, <3>2, <4>1 DEF BGType
    <3> QED BY <3>5, <3>6, <3>7, <3>8, <3>9, <3>a DEF StoreInv, Flushing
  <2>7. CASE CompactionInstalled
    <3>1. /\ pc'[BG] \in {"tail", "crashed"} /\ bg' = bg
          /\ UNCHANGED <<imm, manifest>>
          /\ versions'.log = versions.log /\ versions'.tables = versions.tables
      BY <2>2, <2>3, <2>7 DEF CompactionInstalled, CompactionReturn, Goto, diskVars
    <3>2. \A p \in logged : p[1] >= versions.log => p \in logged'
      BY <2>7, <3>1 DEF CompactionInstalled, DeleteObsoleteFiles
    <3>3. \A r : <<logfileNumber, r>> \in logged => <<logfileNumber, r>> \in logged'
      BY <2>2, <2>3, <3>2 DEF StoreInv
    <3> QED BY <2>1, <2>2, <2>3, <3>1, <3>2, <3>3 DEF StoreInv, Imm, Flushing
  <2> QED BY <2>4, <2>5, <2>6, <2>7, BackgroundStore, <1>StoreBackgroundKept
<1>1. CASE AtomicCall
  <2>1. UNCHANGED <<storeVars, bg, manifest, pc, w>>
    BY <1>1, AtomicFrame DEF threadVars
  <2>2. /\ versions'.tables = versions.tables /\ versions'.log = versions.log
        /\ versions'.l0 = versions.l0
    BY <1>1, AtomicFrame DEF TypeOK, StoreOK
  <2> QED BY <2>1, <2>2, <1>StoreKept DEF StoreInv, Logging
<1> QED BY <1>1, <1>StoreClient, <1>StoreBackground, StepKinds
=============================================================================
