---------------------------- MODULE DBImplProofs ----------------------------
(***************************************************************************)
(* The theorems about DBImpl, for any number of threads, batch sizes and   *)
(* triggers: IInv is an invariant, so an acknowledged write can be read    *)
(* and recovered in every state; with the strengthenings of                *)
(* DBImplStepProofs, what holds after a background error, and what the     *)
(* destructor, a waiter and a manual compaction may count on; and, from    *)
(* SyncInv and OrderInv, which are shown invariant first, that synced      *)
(* writes recover and that sequence numbers follow the queue.              *)
(***************************************************************************)
EXTENDS DBImplStepProofs

\* Zenon is the prover of the steps that name no other.
USE ZenonT(60)
-----------------------------------------------------------------------------
(***************************************************************************)
(* SyncRecoverable.                                                        *)
(***************************************************************************)
LEMMA SyncStep == ASSUME EnvReports, TypeOK, QueueInv, StoreInv, AckInv, Counted, SyncInv, [Next]_vars PROVE SyncInv'
\* What a step does to the synced part of the logs, when Sync() reports its
\* failures: the current log keeps what it has, and is only replaced by the
\* writer that makes room.
<1>SyncedPairs. ASSUME StoreInv'
                PROVE  /\ \A p \in synced : p[1] >= versions'.log => p \in synced'
                       /\ \A p \in synced : p[1] = logfileNumber => p \in synced'
                       /\ \/ logfileNumber' = logfileNumber
                          \/ \E t \in Clients, opened \in BOOLEAN : SwitchMemTable(t, opened)
  <2> USE <1>SyncedPairs
  <2>0. /\ logfileNumber \in Nat /\ versions.log \in Nat /\ synced \subseteq logged
        /\ \A p \in synced : p[1] \in Nat
    BY DEF TypeOK, StoreOK
  <2>1. CASE UNCHANGED <<synced, logfileNumber>>
    BY <2>1
  <2>2. CASE AtomicCall
    BY <2>1, <2>2, AtomicFrame DEF storeVars
  <2>3. ASSUME NEW t \in Clients, CallStep(t)
        PROVE  /\ synced \subseteq synced'
               /\ \/ logfileNumber' = logfileNumber
                  \/ \E opened \in BOOLEAN : SwitchMemTable(t, opened)
    <3>1. CASE UNCHANGED storeVars
      BY <3>1 DEF storeVars
    <3>2. CASE \E opened \in BOOLEAN : SwitchMemTable(t, opened)
      <4>1. synced \subseteq synced'
        BY <3>2 DEF SwitchMemTable
      <4> QED BY <3>2, <4>1
    <3>3. CASE \E ok \in BOOLEAN : SyncLog(t, ok)
      BY <3>3 DEF SyncLog
    <3>4. CASE (\E ok, landed \in BOOLEAN : AppendLog(t, ok, landed)) \/ InsertMem(t) \/ Complete(t)
      BY <3>4 DEF AppendLog, InsertMem, Complete
    <3> QED BY <2>3, <3>1, <3>2, <3>3, <3>4, ClientStore
  <2>4. CASE BackgroundStep
    <3>1. logfileNumber' = logfileNumber
      BY <2>4, BackgroundFrame
    <3>2. CASE UNCHANGED synced
      BY <2>1, <3>1, <3>2
    <3>3. CASE DeleteObsoleteFiles
      <4>1. synced' = synced \cap {p \in logged : bgError' \/ p[1] >= versions'.log}
        BY <3>3 DEF DeleteObsoleteFiles
      <4>2. versions'.log <= logfileNumber
        BY <3>1 DEF StoreInv
      <4> QED BY <2>0, <3>1, <4>1, <4>2
    <3>4. CASE UNCHANGED <<storeVars, diskVars>>
      BY <3>2, <3>4 DEF storeVars
    <3>5. CASE \E ok, landed \in BOOLEAN : FlushManifest(ok, landed) \/ InstallManifest(ok, landed)
      BY <3>2, <3>5 DEF FlushManifest, InstallManifest, storeVars
    <3>6. CASE FlushInstalled \/ CompactionInstalled
      BY <3>2, <3>3, <3>6 DEF FlushInstalled, CompactionInstalled, storeVars
    <3> QED BY <2>4, <3>4, <3>5, <3>6, BackgroundStore
  <2> QED BY <2>2, <2>3, <2>4, StepKinds
\* What is in a table or in a synced log that is read stays there.
<1>SyncedGrows. ASSUME StoreInv' PROVE SyncedRecords \subseteq SyncedRecords'
  <2> USE <1>SyncedGrows
  <2> DEFINE Covered(r, p) == p \in synced /\ p[2] = r /\ p[1] >= manifest.log /\ p[1] >= versions.log
  <2>0. /\ logfileNumber \in Nat /\ versions.log \in Nat /\ manifest.log \in Nat
        /\ mem \subseteq Record /\ imm \in (SUBSET Record) \cup {NoImm}
        /\ \A p \in synced : p[1] \in Nat
    BY DEF TypeOK, StoreOK
  <2>1. ASSUME manifest.tables \subseteq SyncedRecords',
               \A r \in mem : <<logfileNumber, r>> \in synced => r \in SyncedRecords',
               \A r \in Imm : \A p : Covered(r, p) => r \in SyncedRecords'
        PROVE  SyncedRecords \subseteq SyncedRecords'
    BY <2>1 DEF SyncedRecords
  <2>2. /\ manifest'.tables \subseteq SyncedRecords'
        /\ \A r \in mem' : <<logfileNumber', r>> \in synced' => r \in SyncedRecords'
        /\ \A r \in Imm' : \A p \in synced' :
             p[2] = r /\ p[1] >= manifest'.log /\ p[1] >= versions'.log => r \in SyncedRecords'
    BY DEF SyncedRecords
  <2>3. /\ \A p \in synced : p[1] >= versions'.log => p \in synced'
        /\ \A r \in mem : <<logfileNumber, r>> \in synced => <<logfileNumber, r>> \in synced'
    BY <1>SyncedPairs
  \* The logs still wanted are wanted on.
  <2>4. ASSUME manifest.tables \subseteq manifest'.tables, mem \subseteq mem', logfileNumber' = logfileNumber,
               \/ Imm \subseteq manifest'.tables
               \/ /\ imm' = imm /\ versions'.log = versions.log
                  /\ manifest'.log \in {manifest.log, versions.log}
        PROVE  SyncedRecords \subseteq SyncedRecords'
    <3> USE <2>4
    <3>1. manifest.tables \subseteq SyncedRecords'
      BY <2>2
    <3>2. \A r \in mem : <<logfileNumber, r>> \in synced => r \in SyncedRecords'
      BY <2>2, <2>3
    <3>3. ASSUME NEW r \in Imm, NEW p, Covered(r, p) PROVE r \in SyncedRecords'
      <4>1. CASE Imm \subseteq manifest'.tables
        BY <2>2, <4>1
      <4>2. CASE /\ imm' = imm /\ versions'.log = versions.log
                 /\ manifest'.log \in {manifest.log, versions.log}
        <5>1. Imm' = Imm
          BY <4>2 DEF Imm
        <5> QED BY <2>2, <2>3, <3>3, <4>2, <5>1
      <4> QED BY <4>1, <4>2
    <3> QED BY <2>1, <3>1, <3>2, <3>3
  <2>5. CASE UNCHANGED <<storeVars, manifest>> /\ versions'.log = versions.log
    BY <2>4, <2>5 DEF storeVars
  <2>6. CASE AtomicCall
    <3>1. UNCHANGED <<storeVars, manifest>>
      BY <2>6, AtomicFrame
    <3>2. versions'.log = versions.log
      BY <2>6, AtomicFrame DEF TypeOK, StoreOK
    <3> QED BY <2>5, <3>1, <3>2
  <2>7. ASSUME NEW t \in Clients, CallStep(t) PROVE SyncedRecords \subseteq SyncedRecords'
    <3>0. manifest' = manifest /\ versions' = versions
      BY <2>7, ClientFrame
    <3>1. CASE UNCHANGED <<imm, logfileNumber>> /\ mem \subseteq mem'
      BY <2>4, <3>0, <3>1
    <3>2. CASE UNCHANGED storeVars
      BY <3>1, <3>2 DEF storeVars
    <3>3. CASE \E opened \in BOOLEAN : SwitchMemTable(t, opened)
      <4>1. imm = NoImm /\ imm' = mem
        BY <3>3 DEF SwitchMemTable, NoSwitch
      <4>2. Imm = {} /\ Imm' = mem
        BY <2>0, <4>1, NullAssumption DEF Imm, NoImm
      <4>3. manifest.log <= logfileNumber /\ versions.log <= logfileNumber
        BY DEF StoreInv
      <4>4. ASSUME NEW r \in mem, <<logfileNumber, r>> \in synced PROVE r \in SyncedRecords'
        <5>1. PICK p : p = <<logfileNumber, r>>
          OBVIOUS
        <5>2. p \in synced' /\ p[2] = r /\ p[1] = logfileNumber
          BY <2>3, <4>4, <5>1
        <5> QED BY <2>0, <2>2, <3>0, <4>2, <4>3, <5>2
      <4> QED BY <2>1, <2>2, <3>0, <4>2, <4>4
    <3>4. CASE (\E ok \in BOOLEAN : SyncLog(t, ok)) \/ (\E ok, landed \in BOOLEAN : AppendLog(t, ok, landed))
      <4>1. UNCHANGED <<mem, imm, logfileNumber>>
        BY <3>4 DEF SyncLog, AppendLog
      <4> QED BY <3>1, <4>1
    <3>5. CASE InsertMem(t) \/ Complete(t)
      <4>1. UNCHANGED <<imm, logfileNumber>> /\ mem \subseteq mem'
        BY <3>5 DEF InsertMem, Complete
      <4> QED BY <3>1, <4>1
    <3> QED BY <2>7, <3>2, <3>3, <3>4, <3>5, ClientStore
  <2>8. CASE BackgroundStep
    <3>0. mem' = mem /\ logfileNumber' = logfileNumber
      BY <2>8, BackgroundFrame
    <3>1. CASE UNCHANGED <<storeVars, diskVars>>
      BY <2>4, <3>0, <3>1 DEF diskVars, storeVars
    <3>2. CASE \E ok, landed \in BOOLEAN : FlushManifest(ok, landed)
      <4> USE <3>2
      <4>1. imm # NoImm
        BY DEF StoreInv, Flushing, FlushManifest
      <4>2. imm' = imm /\ versions' = versions
        BY DEF FlushManifest, storeVars
      <4>3. manifest' = manifest \/ manifest' = [log |-> bg.editLog, tables |-> manifest.tables \cup imm]
        BY DEF FlushManifest
      <4>4. CASE manifest' = manifest
        BY <2>4, <3>0, <4>2, <4>4
      <4>5. CASE manifest' = [log |-> bg.editLog, tables |-> manifest.tables \cup imm]
        <5>1. manifest.tables \subseteq manifest'.tables /\ Imm \subseteq manifest'.tables
          BY <4>1, <4>5 DEF Imm
        <5> QED BY <2>4, <3>0, <5>1
      <4> QED BY <4>3, <4>4, <4>5
    <3>3. CASE \E ok, landed \in BOOLEAN : InstallManifest(ok, landed)
      <4>1. imm' = imm /\ versions' = versions
        BY <3>3 DEF InstallManifest, storeVars
      <4>2. manifest'.tables = manifest.tables /\ manifest'.log \in {manifest.log, versions.log}
        BY <3>3 DEF InstallManifest, TypeOK, StoreOK
      <4> QED BY <2>4, <3>0, <4>1, <4>2
    <3>4. CASE FlushInstalled
      <4> USE <3>4
      <4>1. CASE bg.ok
        <5>1. Imm \subseteq manifest.tables
          BY <4>1 DEF StoreInv, FlushInstalled
        <5>2. manifest' = manifest
          BY <4>1 DEF FlushInstalled
        <5> QED BY <2>4, <3>0, <5>1, <5>2
      <4>2. CASE ~bg.ok
        <5>1. UNCHANGED <<storeVars, diskVars>>
          BY <4>2 DEF FlushInstalled
        <5> QED BY <3>1, <5>1
      <4> QED BY <4>1, <4>2
    <3>5. CASE CompactionInstalled
      <4>1. imm' = imm /\ manifest' = manifest
        BY <3>5 DEF CompactionInstalled, diskVars
      <4>2. versions' = versions \/ \E n, deep : versions' = [versions EXCEPT !.l0 = n, !.deep = deep]
        BY <3>5 DEF CompactionInstalled, diskVars
      <4>3. versions'.log = versions.log
        <5>1. versions \in [log : Nat, tables : SUBSET Record, l0 : Nat, deep : BOOLEAN]
          BY DEF TypeOK, StoreOK
        <5>2. CASE versions' # versions
          <6>1. PICK n, deep : versions' = [versions EXCEPT !.l0 = n, !.deep = deep]
            BY <4>2, <5>2
          <6> QED BY <5>1, <6>1
        <5> QED BY <5>2
      <4> QED BY <2>4, <3>0, <4>1, <4>3
    <3> QED BY <2>8, <3>1, <3>2, <3>3, <3>4, <3>5, BackgroundStore
  <2> QED BY <2>6, <2>7, <2>8, StepKinds
\* How a writer gets to insert into mem_, and to lock mutex_ again.
<1>LogFrom. ASSUME NEW t \in Clients
            PROVE  /\ pc'[t] = "insert" => \/ SyncLog(t, TRUE)
                                           \/ Appending(t) /\ ~w[t].sync
                                           \/ pc[t] = "insert"
                   /\ pc'[t] = "relock" => \/ InsertMem(t)
                                           \/ pc[t] \in {"append", "sync"} /\ w'[t].status = "error"
                                           \/ pc[t] = "relock"
  <2> USE <1>LogFrom
  <2>0. /\ pc \in [Threads -> ClientLabels \cup BGLabels] /\ t \in Threads /\ t # BG
        /\ w \in [Clients -> WriterType]
    BY ClientsAssumption DEF TypeOK, ThreadsOK, Threads, CallsOK
  <2>1. CASE BackgroundStep
    BY <2>0, <2>1, BackgroundFrame
  <2>2. CASE AtomicCall
    BY <2>2, AtomicFrame DEF threadVars
  <2>3. ASSUME NEW u \in Clients, CallStep(u), u # t PROVE pc'[t] = pc[t]
    BY <2>0, <2>3, ClientFrame
  <2>4. CASE CallStep(t)
    <3>1. CASE \E ok, landed \in BOOLEAN : AppendLog(t, ok, landed)
      <4>1. PICK ok \in BOOLEAN, landed \in BOOLEAN : AppendLog(t, ok, landed)
        BY <3>1
      <4>2. /\ pc'[t] = IF ~ok THEN "relock" ELSE IF w[t].sync THEN "sync" ELSE "insert"
            /\ pc[t] = "append"
        BY <2>0, <4>1 DEF AppendLog, Goto
      <4>3. ~ok => w'[t].status = "error"
        BY <2>0, <4>1 DEF AppendLog, WriterType
      <4> QED BY <3>1, <4>2, <4>3 DEF Appending
    <3>2. ASSUME NEW ok \in BOOLEAN, SyncLog(t, ok)
          PROVE  /\ pc'[t] = "insert" => ok = TRUE
                 /\ pc'[t] = "relock" => pc[t] = "sync" /\ w'[t].status = "error"
      <4>1. pc'[t] = (IF ~ok /\ EnvReports THEN "relock" ELSE "insert") /\ pc[t] = "sync"
        BY <2>0, <3>2 DEF SyncLog, Goto
      <4>2. CASE ~ok
        <5>1. w' = [w EXCEPT ![t].status = "error", ![t].syncError = TRUE]
          BY <3>2, <4>2 DEF SyncLog
        <5>2. w'[t] = [w[t] EXCEPT !.status = "error", !.syncError = TRUE]
          BY <2>0, <5>1
        <5>3. w'[t].status = "error"
          BY <2>0, <5>2 DEF WriterType
        <5> QED BY <4>1, <4>2, <5>3
      <4> QED BY <4>1, <4>2
    <3>3. CASE InsertMem(t)
      <4>1. pc'[t] = "relock"
        BY <2>0, <3>3 DEF InsertMem, Goto
      <4> QED BY <3>3, <4>1
    <3>4. CASE \/ Relock(t) \/ SpuriousWakeup(t) \/ WaitTurn(t) \/ RoomWait(t)
               \/ WaitFlushed(t) \/ RequestManual(t) \/ WaitManual(t) \/ WaitClosed(t)
               \/ \E opened \in BOOLEAN : SwitchMemTable(t, opened)
      <4>1. UNCHANGED pc
        BY <3>4 DEF Relock, SpuriousWakeup, WaitTurn, RoomWait, WaitFlushed, RequestManual,
             WaitManual, WaitClosed, WaitForBackground, threadVars, SwitchMemTable
      <4> QED BY <4>1
    <3>5. CASE \/ ReturnServed(t) \/ Lead(t) \/ RoomError(t) \/ RoomDelay(t) \/ RoomReady(t) \/ FormGroup(t)
               \/ Complete(t) \/ PopGroup(t) \/ Flushed(t) \/ EndManual(t) \/ Closed(t) \/ Close(t) \/ Push(t)
      BY <2>0, <3>5 DEF ReturnServed, Lead, RoomError, RoomDelay, RoomReady, FormGroup, Complete,
           PopGroup, Return, Flushed, EndManual, Closed, Close, Push, Write, CompactRange, Goto
    <3>6. CASE \E ok \in BOOLEAN : SyncLog(t, ok)
      <4>1. PICK ok \in BOOLEAN : SyncLog(t, ok)
        BY <3>6
      <4> USE <4>1
      <4>2. CASE ok = TRUE
        <5>1. SyncLog(t, TRUE)
          BY <4>2
        <5> QED BY <3>2, <5>1
      <4> QED BY <3>2, <4>2
    <3> QED BY <2>4, <3>1, <3>3, <3>4, <3>5, <3>6 DEF CallStep, ClientStep, Push
  <2> QED BY <2>1, <2>2, <2>3, <2>4, StepKinds
\* The group of a writer stays, and the Writers in it.
<1>SameGroup. ASSUME NEW t \in Clients, pc[t] \in Grouped, pc'[t] \in Grouped, w'[t].last = w[t].last
              PROVE  /\ GroupOf(t)' = GroupOf(t) /\ t \in GroupOf(t)
                     /\ \A u \in GroupOf(t) : u \in Clients /\ SameBatch(u) /\ OpsOf(w'[u]) = OpsOf(w[u])
  <2> USE <1>SameGroup
  <2>1. pc[t] \in Leading /\ pc'[t] \in Leading
    BY DEF Grouped, Leading
  <2>2. w[t].last \in Nat /\ 1 <= w[t].last /\ w[t].last <= Len(writers) /\ writers[1] = t /\ Len(writers) \in Nat
    BY SMTT(30), <2>1, GroupMembers DEF TypeOK, CallsOK
  <2>3. \A i \in 1..w[t].last : writers'[i] = writers[i] /\ writers[i] \in Clients /\ SameBatch(writers[i])
    BY SMTT(30), <2>1, <2>2, GroupKept
  <2>4. GroupOf(t)' = GroupOf(t) /\ t \in GroupOf(t) /\ \A u \in GroupOf(t) : u \in Clients /\ SameBatch(u)
    BY SMTT(30), <2>2, <2>3 DEF GroupOf
  <2> QED BY <2>4 DEF OpsOf, SameBatch
\* A group of one.
<1>OwnGroup. ASSUME TypeOK', QueueInv', NEW t \in Clients, pc'[t] \in Grouped, w'[t].last = 1
             PROVE  GroupOf(t)' = {t}
  <2> USE <1>OwnGroup
  <2>1. writers'[1] = t
    BY DEF QueueInv, Grouped, Leading
  <2> QED BY SMTT(30), <2>1 DEF GroupOf
\* Only the front writer's call changes the log file while a group is logged.
<1>LogfileKept. ASSUME StoreInv', NEW t \in Clients, pc[t] \in Leading, pc[t] # "room"
                PROVE  logfileNumber' = logfileNumber
  <2> USE <1>LogfileKept
  <2>1. ASSUME NEW u \in Clients, NEW opened \in BOOLEAN, SwitchMemTable(u, opened) PROVE FALSE
    <3>1. pc[u] = "room"
      BY <2>1 DEF SwitchMemTable, InRoom
    <3> QED BY <3>1, OneLeader DEF Leading
  <2> QED BY <2>1, <1>SyncedPairs
\* A sync writer never rides in the group of a leader that does not sync.
<1>SyncLeads. ASSUME NEW t \in Clients, pc'[t] \in Grouped, NEW u \in GroupOf(t)', w'[u].sync PROVE w'[t].sync
  <2> USE <1>SyncLeads
  <2>0. TypeOK /\ QueueInv /\ TypeOK' /\ QueueInv'
    BY CoreStep DEF IInv
  <2>1. CASE pc[t] \in Grouped /\ w'[t].last = w[t].last
    <3>1. u \in GroupOf(t) /\ SameBatch(u) /\ SameBatch(t)
      BY <2>0, <2>1, <1>SameGroup
    <3> QED BY <2>1, <3>1 DEF SyncInv, SameBatch
  <2>2. CASE w'[t].last = 1
    BY <2>0, <2>2, <1>OwnGroup
  <2>3. CASE FormGroup(t) /\ w[t].batch # 0
    <3>1. PICK g \in 1..Len(writers) : /\ BuildBatchGroup(g)
                                       /\ w' = [w EXCEPT ![t].last = g, ![t].updates = w'[t].updates]
      <4>1. PICK g \in 1..Len(writers) :
              /\ BuildBatchGroup(g)
              /\ w' = [w EXCEPT ![t].last = g,
                             ![t].updates = [seq |-> lastSequence + 1,
                                             ops |-> UNION {OpsOf(w[writers[i]]) : i \in 1..g}]]
        BY <2>3 DEF FormGroup
      <4>2. w'[t].updates = [seq |-> lastSequence + 1, ops |-> UNION {OpsOf(w[writers[i]]) : i \in 1..g}]
        BY SMTT(30), <2>0, <4>1 DEF TypeOK, CallsOK, WriterType
      <4> QED BY <4>1, <4>2
    <3>2. w'[t].last = g
      BY SMTT(30), <2>0, <3>1 DEF TypeOK, CallsOK, WriterType
    <3>3. pc[t] \in Leading /\ pc'[t] \in Leading
      BY <2>3 DEF FormGroup, Leading, Grouped
    <3>4. g <= Len(writers) /\ Len(writers) \in Nat /\ g \in Nat /\ 1 <= g /\ writers[1] = t
      BY SMTT(30), <2>0, <3>3 DEF TypeOK, CallsOK, QueueInv
    <3> USE <3>4
    <3>5. \A i \in 1..g : writers'[i] = writers[i] /\ SameBatch(writers[i])
      BY SMTT(30), <2>0, <3>3, GroupKept
    <3>6. PICK i \in 1..g : u = writers[i]
      BY <3>2, <3>5 DEF GroupOf
    <3>7. w[writers[i]].sync /\ (w[t].sync => w'[t].sync)
      BY SMTT(30), <3>5, <3>6 DEF SameBatch
    <3>8. CASE i = 1
      BY <3>7, <3>8
    <3>9. CASE i # 1
      <4>1. i \in 2..g
        BY SMTT(30), <3>9
      <4> QED BY <3>1, <3>7, <4>1 DEF BuildBatchGroup, Groupable
    <3> QED BY <3>8, <3>9
  <2> QED BY <2>0, <2>1, <2>2, <2>3, GroupedFrom
<1>0. TypeOK /\ QueueInv /\ StoreInv /\ AckInv /\ TypeOK' /\ QueueInv' /\ StoreInv'
  BY CoreStep DEF IInv
<1>1. SyncedRecords \subseteq SyncedRecords'
  BY <1>0, <1>SyncedGrows
<1>2. \A ops : Holds(SyncedRecords, ops) => Holds(SyncedRecords', ops)
  BY <1>1, HoldsMore
<1>3. ASSUME NEW t \in Clients, pc[t] = "pop", w[t].status = "ok", NEW u \in GroupOf(t), w[u].sync
      PROVE  Holds(SyncedRecords', OpsOf(w[u]))
  BY <1>2, <1>3 DEF SyncInv
<1>4. Holds(SyncedRecords', ackedSync')
  <2>1. CASE UNCHANGED <<acked, ackedSync>>
    BY <1>2, <2>1 DEF SyncInv
  <2>2. ASSUME NEW t \in Clients, w[t].status = "ok", w[t].done \/ pc[t] = "pop",
               ackedSync' = ackedSync \cup (IF w[t].sync THEN OpsOf(w[t]) ELSE {})
        PROVE  Holds(SyncedRecords', ackedSync')
    <3> USE <2>2
    <3>1. Holds(SyncedRecords', ackedSync)
      BY <1>2 DEF SyncInv
    <3>2. ASSUME w[t].sync PROVE Holds(SyncedRecords', OpsOf(w[t]))
      <4>1. CASE w[t].done
        BY <1>2, <3>2, <4>1 DEF SyncInv
      <4>2. CASE pc[t] = "pop"
        <5>1. t \in GroupOf(t)
          BY SMTT(30), <1>0, <4>2, GroupMembers DEF GroupOf, Leading
        <5> QED BY <1>3, <3>2, <4>2, <5>1
      <4> QED BY <4>1, <4>2
    <3> QED BY <3>1, <3>2 DEF Holds
  <2> QED BY <1>0, <2>1, <2>2, AckedFrom
<1>5. ASSUME NEW u \in Clients, w'[u].done, w'[u].status = "ok", w'[u].sync
      PROVE  Holds(SyncedRecords', OpsOf(w'[u]))
  <2> USE <1>5
  <2>0. w \in [Clients -> WriterType]
    BY <1>0 DEF TypeOK, CallsOK
  <2>1. CASE Push(u)
    <3>1. CASE \E n \in BatchSizes, sync \in BOOLEAN : Write(u, n, sync)
      BY <2>0, <3>1 DEF Write, IdleWriter
    <3>2. CASE \E levels \in 1..MaxManualLevels : CompactRange(u, levels)
      BY SMTT(30), <2>0, <3>2 DEF CompactRange, IdleWriter
    <3> QED BY <2>1, <3>1, <3>2 DEF Push
  <2>2. CASE ReturnServed(u) \/ PopGroup(u)
    <3>1. w'[u] = IdleWriter
      BY <2>0, <2>2 DEF ReturnServed, PopGroup
    <3> QED BY SMTT(30), <3>1 DEF IdleWriter
  <2>3. ASSUME SameBatch(u) PROVE OpsOf(w'[u]) = OpsOf(w[u]) /\ w[u].sync
    BY <2>3 DEF SameBatch, OpsOf
  <2>4. ASSUME NEW t \in Clients, PopGroup(t), u \in {writers[i] : i \in 2..w[t].last},
               SameBatch(u), w'[u].status = w[t].status
        PROVE  Holds(SyncedRecords', OpsOf(w'[u]))
    <3> USE <2>4
    <3>1. u \in GroupOf(t)
      BY SMTT(30) DEF GroupOf
    <3>2. pc[t] = "pop" /\ w[t].status = "ok"
      BY DEF PopGroup
    <3> QED BY <1>3, <2>3, <3>1, <3>2
  <2>5. CASE SameBatch(u) /\ w'[u].done = w[u].done /\ (w[u].done => w'[u].status = w[u].status)
    <3>1. w[u].done /\ w[u].status = "ok" /\ w[u].sync
      BY <2>3, <2>5
    <3>2. Holds(SyncedRecords, OpsOf(w[u]))
      BY <3>1 DEF SyncInv
    <3> QED BY <1>2, <2>3, <2>5, <3>2
  <2> QED BY <1>0, <2>1, <2>2, <2>4, <2>5, WriterCases
<1>6. ASSUME NEW t \in Clients, pc[t] \in Logging, pc'[t] \in Grouped
      PROVE  w'[t].updates = w[t].updates /\ w'[t].sync = w[t].sync /\ w'[t].last = w[t].last
             /\ (pc'[t] \in {pc[t], "pop"} => w'[t].status = w[t].status)
  <2> USE <1>6
  <2>1. ~FormGroup(t) /\ ~RoomError(t)
    BY DEF FormGroup, RoomError, Logging
  <2>2. /\ w'[t].updates = w[t].updates /\ w'[t].last = w[t].last
        /\ (pc'[t] \in {pc[t], "pop"} => w'[t].status = w[t].status)
    BY <1>0, <2>1, GroupedFrom
  <2>3. pc[t] \in Grouped
    BY DEF Logging, Grouped
  <2>4. SameBatch(t)
    BY <1>0, <2>2, <2>3, <1>SameGroup
  <2> QED BY <2>2, <2>4 DEF SameBatch
<1>7. ASSUME NEW t \in Clients, pc'[t] = "insert", w'[t].sync
      PROVE  <<logfileNumber', w'[t].updates>> \in synced'
  <2> USE <1>7
  <2>0. pc'[t] \in Grouped
    BY DEF Grouped
  <2>1. CASE SyncLog(t, TRUE)
    <3>1. pc[t] = "sync" /\ synced' = synced \cup InCurrentLog /\ logfileNumber' = logfileNumber
      BY <2>1 DEF SyncLog
    <3> USE <3>1
    <3>2. <<logfileNumber, w[t].updates>> \in InCurrentLog
      BY <1>0 DEF StoreInv, InCurrentLog
    <3>3. w'[t].updates = w[t].updates
      BY <1>6, <2>0 DEF Logging
    <3> QED BY <3>2, <3>3
  <2>2. CASE Appending(t) /\ ~w[t].sync
    <3>1. pc[t] = "append"
      BY <2>2 DEF Appending, AppendLog
    <3> QED BY <1>6, <2>0, <2>2, <3>1 DEF Logging
  <2>3. CASE pc[t] = "insert"
    <3> USE <2>3
    <3>1. w'[t].updates = w[t].updates /\ w[t].sync
      BY <1>6, <2>0 DEF Logging
    <3>2. logfileNumber' = logfileNumber
      BY <1>0, <1>LogfileKept DEF Leading
    <3>3. <<logfileNumber, w[t].updates>> \in synced
      BY <3>1 DEF SyncInv
    <3>4. PICK p : p = <<logfileNumber, w[t].updates>>
      OBVIOUS
    <3>5. p \in synced'
      BY <1>0, <3>3, <3>4, <1>SyncedPairs
    <3> QED BY <3>1, <3>2, <3>4, <3>5
  <2> QED BY <1>0, <2>1, <2>2, <2>3, <1>LogFrom
<1>8. ASSUME NEW t \in Clients, pc'[t] = "relock", w'[t].status = "ok", w'[t].sync
      PROVE  Holds(SyncedRecords', w'[t].updates.ops)
  <2> USE <1>8
  <2>0. pc'[t] \in Grouped
    BY DEF Grouped
  <2>1. CASE InsertMem(t)
    <3>1. /\ pc[t] = "insert" /\ UNCHANGED <<logfileNumber, synced>>
          /\ mem' = mem \cup (IF w[t].updates.ops = {} THEN {} ELSE {w[t].updates})
      BY <2>1 DEF InsertMem
    <3> USE <3>1
    <3>2. w'[t].updates = w[t].updates /\ w[t].sync
      BY <1>6, <2>0 DEF Logging
    <3>3. <<logfileNumber, w[t].updates>> \in synced
      BY <3>2 DEF SyncInv
    <3>4. w[t].updates.ops # {} => w[t].updates \in SyncedRecords'
      BY <3>3 DEF SyncedRecords
    <3> QED BY <3>2, <3>4 DEF Holds
  <2>2. CASE pc[t] = "relock"
    <3>1. w'[t].updates = w[t].updates /\ w[t].sync /\ w[t].status = "ok"
      BY <1>6, <2>0, <2>2 DEF Logging
    <3>2. Holds(SyncedRecords, w[t].updates.ops)
      BY <2>2, <3>1 DEF SyncInv
    <3> QED BY <1>2, <3>1, <3>2
  <2> QED BY <1>0, <2>1, <2>2, <1>LogFrom
<1>9. ASSUME NEW t \in Clients, pc'[t] = "pop", w'[t].status = "ok", NEW u \in GroupOf(t)', w'[u].sync
      PROVE  Holds(SyncedRecords', OpsOf(w'[u]))
  <2> USE <1>9
  <2>0. pc'[t] \in Grouped
    BY DEF Grouped
  <2>1. CASE /\ pc[t] \in {"relock", "pop"} /\ w'[t].last = w[t].last /\ w'[t].status = w[t].status
    <3> USE <2>1
    <3>1. pc[t] \in Grouped
      BY DEF Grouped
    <3>2. u \in GroupOf(t) /\ SameBatch(u) /\ OpsOf(w'[u]) = OpsOf(w[u])
      BY <1>0, <2>0, <3>1, <1>SameGroup
    <3> USE <3>2
    <3>3. w[u].sync
      BY DEF SameBatch
    <3>4. CASE pc[t] = "pop"
      BY <1>3, <3>3, <3>4
    <3>5. CASE pc[t] = "relock"
      <4>1. w[t].sync
        BY <3>1, <3>3 DEF SyncInv
      <4>2. Holds(SyncedRecords, w[t].updates.ops)
        BY <3>5, <4>1 DEF SyncInv
      <4>3. OpsOf(w[u]) \subseteq w[t].updates.ops
        BY <1>0, <3>5, GroupLogged DEF GroupOf
      <4> QED BY <1>2, <4>2, <4>3, HoldsFewer
    <3> QED BY <3>4, <3>5
  <2>2. CASE w[t].batch = 0 /\ UNCHANGED w /\ w[t].last = 1
    <3>1. u = t
      BY <1>0, <2>0, <2>2, <1>OwnGroup
    <3>2. OpsOf(w'[u]) = {}
      BY SMTT(30), <1>0, <2>2, <3>1 DEF OpsOf, TypeOK, CallsOK
    <3> QED BY <3>2 DEF Holds
  <2> QED BY <1>0, <2>0, <2>1, <2>2, GroupedFrom
<1>10. ASSUME NEW t \in Clients, pc'[t] \in Grouped
       PROVE  \A u \in GroupOf(t)' : w'[u].sync => w'[t].sync
  BY <1>10, <1>SyncLeads
<1> QED BY <1>4, <1>5, <1>7, <1>8, <1>9, <1>10 DEF SyncInv
-----------------------------------------------------------------------------
(***************************************************************************)
(* ArrivalOrder.                                                           *)
(***************************************************************************)
\* What is known of a record that is not the one being logged.
Settled(r) ==
  /\ r.seq + Cardinality(r.ops) <= lastSequence + 1
  /\ \A o \in r.ops :
       /\ o[1] < nextBatch
       /\ \A i \in 1..Len(writers) : Waits(i) => o[1] < w[writers[i]].batch

LEMMA OrderStep == ASSUME TypeOK, QueueInv, StoreInv, AckInv, Counted, ErrorInv, OrderInv, [Next]_vars PROVE OrderInv'
\* Only AddRecord makes a record that did not exist.
<1>RecordsFrom. ASSUME NEW r \in AllRecords'
                PROVE  r \in AllRecords \/ \E t \in Clients : Appending(t) /\ r = w[t].updates
  <2> USE <1>RecordsFrom
  <2>1. ASSUME mem' \subseteq AllRecords, Imm' \subseteq AllRecords,
               versions'.tables \subseteq AllRecords, manifest'.tables \subseteq AllRecords,
               logged' \subseteq logged
        PROVE  r \in AllRecords
    BY <2>1 DEF AllRecords
  <2>2. /\ mem \subseteq AllRecords /\ Imm \subseteq AllRecords
        /\ versions.tables \subseteq AllRecords /\ manifest.tables \subseteq AllRecords
    BY DEF AllRecords
  <2>3. ASSUME UNCHANGED <<storeVars, manifest>>, versions'.tables = versions.tables
        PROVE  r \in AllRecords
    BY <2>1, <2>2, <2>3 DEF storeVars, Imm
  <2>4. CASE AtomicCall
    <3>1. UNCHANGED <<storeVars, manifest>>
      BY <2>4, AtomicFrame
    <3>2. versions'.tables = versions.tables
      BY <2>4, AtomicFrame DEF TypeOK, StoreOK
    <3> QED BY <2>3, <3>1, <3>2
  <2>5. ASSUME NEW t \in Clients, CallStep(t)
        PROVE  r \in AllRecords \/ (Appending(t) /\ r = w[t].updates)
    <3>0. UNCHANGED <<manifest, versions>>
      BY <2>5, ClientFrame
    <3>1. CASE UNCHANGED storeVars
      <4>1. UNCHANGED <<storeVars, manifest>> /\ versions'.tables = versions.tables
        BY <3>0, <3>1
      <4> QED BY <2>3, <4>1
    <3>2. CASE \E opened \in BOOLEAN : SwitchMemTable(t, opened)
      <4>1. mem' = {} /\ imm' = mem /\ logged' = logged
        BY <3>2 DEF SwitchMemTable
      <4>2. Imm' \subseteq mem
        BY <4>1 DEF Imm
      <4> QED BY <2>1, <2>2, <3>0, <4>1, <4>2
    <3>3. CASE (\E ok \in BOOLEAN : SyncLog(t, ok)) \/ Complete(t)
      <4>1. UNCHANGED <<mem, imm, logged>>
        BY <3>3 DEF SyncLog, Complete
      <4> QED BY <2>1, <2>2, <3>0, <4>1 DEF Imm
    <3>4. CASE Appending(t)
      <4>1. UNCHANGED <<mem, imm>> /\ logged' \subseteq logged \cup {<<logfileNumber, w[t].updates>>}
        BY <3>4 DEF Appending, AppendLog
      <4> QED BY SMTT(30), <3>0, <3>4, <4>1 DEF AllRecords, Imm
    <3>5. CASE InsertMem(t)
      <4>1. UNCHANGED <<imm, logged>> /\ mem' \subseteq mem \cup {w[t].updates} /\ pc[t] = "insert"
        BY <3>5 DEF InsertMem
      <4> USE <4>1
      <4>2. w[t].updates \in AllRecords
        <5>1. <<logfileNumber, w[t].updates>> \in logged
          BY DEF StoreInv
        <5> QED BY SMTT(30), <5>1 DEF AllRecords
      <4>3. mem' \subseteq AllRecords
        BY <2>2, <4>2
      <4> QED BY <2>1, <2>2, <3>0, <4>3 DEF Imm
    <3> QED BY <2>5, <3>1, <3>2, <3>3, <3>4, <3>5, ClientStore DEF Appending
  <2>6. CASE BackgroundStep
    <3>0. UNCHANGED mem
      BY <2>6, BackgroundFrame
    <3>1. CASE UNCHANGED <<storeVars, diskVars>>
      BY <2>3, <3>1 DEF diskVars
    <3>2. CASE \E ok, landed \in BOOLEAN : FlushManifest(ok, landed)
      <4>1. imm # NoImm
        BY <3>2 DEF StoreInv, Flushing, FlushManifest
      <4>2. UNCHANGED <<storeVars, versions>> /\ manifest'.tables \subseteq manifest.tables \cup imm
        BY SMTT(30), <3>2 DEF FlushManifest
      <4>3. manifest'.tables \subseteq AllRecords
        BY <2>2, <4>1, <4>2 DEF Imm
      <4> QED BY <2>1, <2>2, <4>2, <4>3 DEF storeVars, Imm
    <3>3. CASE \E ok, landed \in BOOLEAN : InstallManifest(ok, landed)
      <4>1. UNCHANGED <<storeVars, versions>> /\ manifest'.tables = manifest.tables
        BY <3>3 DEF InstallManifest, TypeOK, StoreOK
      <4> QED BY <2>1, <2>2, <4>1 DEF storeVars, Imm
    <3>4. CASE FlushInstalled
      <4> USE <3>4
      <4>1. CASE bg.ok
        <5>1. imm # NoImm
          BY DEF StoreInv, Flushing, FlushInstalled
        <5>2. /\ versions'.tables = versions.tables \cup imm /\ imm' = NoImm /\ logged' \subseteq logged
              /\ UNCHANGED <<mem, manifest>>
          BY SMTT(30), <4>1 DEF FlushInstalled, DeleteObsoleteFiles
        <5>3. versions'.tables \subseteq AllRecords /\ Imm' = {}
          BY <2>2, <5>1, <5>2 DEF Imm
        <5> QED BY <2>1, <2>2, <5>2, <5>3
      <4>2. CASE ~bg.ok
        <5>1. UNCHANGED <<storeVars, diskVars>>
          BY <4>2 DEF FlushInstalled
        <5> QED BY <3>1, <5>1
      <4> QED BY <4>1, <4>2
    <3>5. CASE CompactionInstalled
      <4>1. UNCHANGED <<mem, imm, manifest>> /\ (DeleteObsoleteFiles \/ UNCHANGED logged)
        BY <3>5 DEF CompactionInstalled, diskVars
      <4>2. versions' = versions \/ \E n, deep : versions' = [versions EXCEPT !.l0 = n, !.deep = deep]
        BY <3>5 DEF CompactionInstalled, diskVars
      <4>3. versions'.tables = versions.tables
        <5>1. versions \in [log : Nat, tables : SUBSET Record, l0 : Nat, deep : BOOLEAN]
          BY DEF TypeOK, StoreOK
        <5>2. CASE versions' # versions
          <6>1. PICK n, deep : versions' = [versions EXCEPT !.l0 = n, !.deep = deep]
            BY <4>2, <5>2
          <6> QED BY <5>1, <6>1
        <5> QED BY <5>2
      <4>4. logged' \subseteq logged
        BY <4>1 DEF DeleteObsoleteFiles
      <4> QED BY <2>1, <2>2, <4>1, <4>3, <4>4 DEF Imm
    <3> QED BY <2>6, <3>1, <3>2, <3>3, <3>4, <3>5, BackgroundStore
  <2> QED BY <2>4, <2>5, <2>6, StepKinds
\* The number of the last sequence only grows; Complete takes the group's last.
<1>SequenceGrows. lastSequence \in Nat /\ lastSequence' \in Nat /\ lastSequence <= lastSequence'
  <2>0. lastSequence \in Nat
    BY DEF TypeOK, StoreOK
  <2>1. CASE lastSequence' = lastSequence
    BY SMTT(30), <2>0, <2>1
  <2>2. ASSUME NEW t \in Clients, Complete(t) PROVE lastSequence' \in Nat /\ lastSequence <= lastSequence'
    <3>1. w[t].updates.seq = lastSequence + 1
      BY <2>2 DEF Complete, StoreInv
    <3>3. Cardinality(w[t].updates.ops) \in Nat
      BY DEF Counted
    <3>4. lastSequence' = w[t].updates.seq + Cardinality(w[t].updates.ops) - 1
      BY <2>2 DEF Complete, AdvancedSequence
    <3> QED BY SMTT(30), <2>0, <3>1, <3>3, <3>4
  <2>3. ASSUME NEW t \in Clients, CallStep(t), ~Complete(t) PROVE lastSequence' = lastSequence
    <3>1. CASE UNCHANGED storeVars
      BY <3>1 DEF storeVars
    <3>2. CASE \/ \E opened \in BOOLEAN : SwitchMemTable(t, opened)
               \/ \E ok \in BOOLEAN : SyncLog(t, ok)
               \/ \E ok, landed \in BOOLEAN : AppendLog(t, ok, landed)
               \/ InsertMem(t)
      BY <3>2 DEF SwitchMemTable, SyncLog, AppendLog, InsertMem
    <3> QED BY <2>3, <3>1, <3>2, ClientStore
  <2>4. CASE BackgroundStep \/ AtomicCall
    BY <2>1, <2>4, BackgroundFrame, AtomicFrame DEF storeVars
  <2> QED BY <2>0, <2>1, <2>2, <2>3, <2>4, StepKinds
\* A group that is being logged stays so until Complete, and then until PopGroup.
<1>GroupNext. ASSUME NEW t \in Clients
              PROVE  /\ pc[t] \in {"sync", "insert", "relock"} /\ ~Complete(t) =>
                          pc'[t] \in {"sync", "insert", "relock"} /\ w'[t].updates = w[t].updates
                     /\ pc[t] = "pop" /\ ~PopGroup(t) => pc'[t] = "pop" /\ w'[t].last = w[t].last
  <2> USE <1>GroupNext
  <2>0. pc \in [Threads -> ClientLabels \cup BGLabels] /\ t \in Threads /\ t # BG
    BY ClientsAssumption DEF TypeOK, ThreadsOK, Threads
  <2>1. ASSUME pc[t] \in {"sync", "insert", "relock", "pop"}, pc'[t] \in Grouped
        PROVE  w'[t].updates = w[t].updates /\ w'[t].last = w[t].last
    <3>1. ~FormGroup(t) /\ ~RoomError(t)
      BY <2>1 DEF FormGroup, RoomError
    <3> QED BY <2>1, <3>1, GroupedFrom
  <2>2. ASSUME ~CallStep(t) PROVE pc'[t] = pc[t]
    <3>1. CASE BackgroundStep
      BY <2>0, <3>1, BackgroundFrame
    <3>2. CASE AtomicCall
      BY <3>2, AtomicFrame DEF threadVars
    <3>3. ASSUME NEW u \in Clients, CallStep(u) PROVE pc'[t] = pc[t]
      BY <2>0, <2>2, <3>3, ClientFrame
    <3> QED BY <3>1, <3>2, <3>3, StepKinds
  <2>3. ASSUME CallStep(t), pc[t] \in {"sync", "insert", "relock", "pop"}
        PROVE  \/ pc'[t] = pc[t] \/ Complete(t) \/ PopGroup(t)
               \/ pc[t] = "sync" /\ pc'[t] \in {"insert", "relock"}
               \/ pc[t] = "insert" /\ pc'[t] = "relock"
    <3> USE <2>3
    <3>1. CASE Relock(t) \/ SpuriousWakeup(t)
      BY <3>1 DEF Relock, SpuriousWakeup
    <3>2. CASE InsertMem(t) \/ \E ok \in BOOLEAN : SyncLog(t, ok)
      BY <2>0, <3>2 DEF InsertMem, SyncLog, Goto
    <3>3. ~\/ WaitTurn(t) \/ ReturnServed(t) \/ Lead(t) \/ RoomError(t) \/ RoomDelay(t) \/ RoomReady(t)
           \/ RoomWait(t) \/ FormGroup(t) \/ WaitFlushed(t) \/ Flushed(t) \/ RequestManual(t)
           \/ WaitManual(t) \/ EndManual(t) \/ WaitClosed(t) \/ Closed(t) \/ Close(t)
      BY DEF WaitTurn, ReturnServed, Lead, RoomError, RoomDelay, RoomReady, RoomWait, FormGroup,
           WaitFlushed, Flushed, RequestManual, WaitManual, EndManual, WaitClosed, Closed, Close, InRoom,
           RangeLoop
    <3>4. /\ \A opened \in BOOLEAN : ~SwitchMemTable(t, opened)
          /\ \A ok, landed \in BOOLEAN : ~AppendLog(t, ok, landed)
          /\ \A n \in BatchSizes, sync \in BOOLEAN : ~Write(t, n, sync)
          /\ \A levels \in 1..MaxManualLevels : ~CompactRange(t, levels)
      BY DEF SwitchMemTable, InRoom, AppendLog, Write, CompactRange
    <3> QED BY <3>1, <3>2, <3>3, <3>4 DEF CallStep, ClientStep
  <2>4. ASSUME pc[t] \in {"sync", "insert", "relock"}, ~Complete(t)
        PROVE  pc'[t] \in {"sync", "insert", "relock"}
    <3>1. PopGroup(t) => pc[t] = "pop"
      BY DEF PopGroup
    <3> QED BY <2>2, <2>3, <2>4, <3>1
  <2>5. ASSUME pc[t] = "pop", ~PopGroup(t) PROVE pc'[t] = "pop"
    <3>1. ~Complete(t)
      BY <2>5 DEF Complete
    <3> QED BY <2>2, <2>3, <2>5, <3>1
  <2> QED BY <2>1, <2>4, <2>5 DEF Grouped
\* A Writer that is in the queue before and after a step.
<1>StaysQueued. ASSUME NEW i \in 1..Len(writers), NEW j \in 1..Len(writers'), writers'[j] = writers[i]
                PROVE  writers[i] \in Clients /\ SameBatch(writers[i])
  <2> USE <1>StaysQueued
  <2>1. writers[i] \in Clients
    BY SMTT(30) DEF TypeOK, CallsOK
  <2>2. PICK v \in Clients : v = writers[i]
    BY <2>1
  <2>3. QueueInv'
    BY QueueStep
  <2>4. InQueue(writers[i]) /\ (InQueue(writers[j]))'
    BY <2>3 DEF QueueInv
  <2>5. InQueue(v) /\ InQueue(v)'
    BY <2>2, <2>4 DEF InQueue
  <2> QED BY <2>1, <2>2, <2>5, QueuedKept
\* The queue after a step: without its first k writers, or with one more.
<1>QueueShift. \E k \in Nat : \A i \in 1..Len(writers') :
                 \/ /\ i + k \in 1..Len(writers) /\ writers'[i] = writers[i + k]
                    /\ writers[i + k] \in Clients /\ SameBatch(writers[i + k])
                    /\ Waits(i)' => Waits(i + k)
                 \/ k = 0 /\ i = Len(writers) + 1 /\ w'[writers'[i]].batch \in {0, nextBatch}
  <2>0. writers \in Seq(Clients) /\ w \in [Clients -> WriterType]
    BY DEF TypeOK, CallsOK
  <2>1. ASSUME NEW t \in Clients, PopGroup(t)
        PROVE  \E k \in Nat : \A i \in 1..Len(writers') :
                 /\ i + k \in 1..Len(writers) /\ writers'[i] = writers[i + k]
                 /\ writers[i + k] \in Clients /\ SameBatch(writers[i + k])
                 /\ Waits(i)' => Waits(i + k)
    <3>1. pc[t] = "pop" /\ writers' = SubSeq(writers, w[t].last + 1, Len(writers))
      BY <2>1 DEF PopGroup
    <3>2. pc[t] \in Leading
      BY <3>1 DEF Leading
    <3>3. w[t].last \in Nat /\ w[t].last <= Len(writers)
      BY <3>2, GroupMembers
    <3>4. PICK k \in Nat : k = w[t].last
      BY <3>3
    <3>5. ASSUME NEW i \in 1..Len(writers')
          PROVE  /\ i + k \in 1..Len(writers) /\ writers'[i] = writers[i + k]
                 /\ writers[i + k] \in Clients /\ SameBatch(writers[i + k])
                 /\ Waits(i)' => Waits(i + k)
      <4>1. i + k \in 1..Len(writers) /\ writers'[i] = writers[i + k]
        <5>1. k <= Len(writers) /\ writers' = SubSeq(writers, k + 1, Len(writers))
          BY <3>1, <3>3, <3>4
        <5> QED BY <2>0, <5>1, DropFirst
      <4> USE <4>1
      <4>2. writers[i + k] \in Clients /\ SameBatch(writers[i + k])
        BY <1>StaysQueued
      <4>3. \A u \in Clients : pc[u] = "pop" => u = t
        BY <3>2, OneLeader DEF Leading
      <4>4. w[t].last < i + k
        BY SMTT(30), <3>4
      <4>5. Waits(i)' => Waits(i + k)
        BY <4>2, <4>3, <4>4 DEF Waits, SameBatch
      <4> QED BY <4>2, <4>5
    <3> QED BY <3>5
  <2>2. ASSUME \A t \in Clients : ~PopGroup(t), NEW i \in 1..Len(writers), NEW j \in 1..Len(writers'),
               i = j, writers'[i] = writers[i]
        PROVE  Waits(i)' => Waits(i)
    <3> USE <2>2
    <3>1. SameBatch(writers[i])
      BY <1>StaysQueued
    <3>2. \A u \in Clients : pc[u] = "pop" => pc'[u] = "pop" /\ w'[u].last = w[u].last
      BY <1>GroupNext
    <3> QED BY <3>1, <3>2 DEF Waits, SameBatch
  <2>3. CASE (\A t \in Clients : ~PopGroup(t)) /\ UNCHANGED writers
    <3>1. \A i \in 1..Len(writers') :
             /\ i + 0 \in 1..Len(writers) /\ writers'[i] = writers[i + 0]
             /\ writers[i + 0] \in Clients /\ SameBatch(writers[i + 0])
             /\ Waits(i)' => Waits(i + 0)
      <4> TAKE i \in 1..Len(writers')
      <4>1. i + 0 = i /\ i \in 1..Len(writers) /\ writers'[i] = writers[i]
        BY SMTT(30), <2>3
      <4> USE <4>1
      <4>2. writers[i] \in Clients /\ SameBatch(writers[i])
        BY <1>StaysQueued
      <4>3. Waits(i)' => Waits(i)
        BY <2>2, <2>3
      <4> QED BY <4>2, <4>3
    <3>2. 0 \in Nat
      OBVIOUS
    <3> QED BY <3>1, <3>2
  <2>4. ASSUME NEW t \in Clients, Push(t), writers' = Append(writers, t), \A u \in Clients : ~PopGroup(u)
        PROVE  \A i \in 1..Len(writers') :
                 \/ /\ i + 0 \in 1..Len(writers) /\ writers'[i] = writers[i + 0]
                    /\ writers[i + 0] \in Clients /\ SameBatch(writers[i + 0])
                    /\ Waits(i)' => Waits(i + 0)
                 \/ i = Len(writers) + 1 /\ w'[writers'[i]].batch \in {0, nextBatch}
    <3> USE <2>4
    <3> TAKE i \in 1..Len(writers')
    <3>1. CASE i \in 1..Len(writers)
      <4> USE <3>1
      <4>1. i + 0 = i /\ writers'[i] = writers[i]
        BY SMTT(30), <2>0
      <4> USE <4>1
      <4>2. writers[i] \in Clients /\ SameBatch(writers[i])
        BY <1>StaysQueued
      <4>3. Waits(i)' => Waits(i)
        BY <2>2
      <4> QED BY <4>2, <4>3
    <3>2. CASE i = Len(writers) + 1
      <4> USE <3>2
      <4>1. writers'[i] = t
        BY SMTT(30), <2>0
      <4>2. CASE \E n \in BatchSizes, sync \in BOOLEAN : Write(t, n, sync)
        BY SMTT(30), <2>0, <4>1, <4>2 DEF Write, IdleWriter
      <4>3. CASE \E levels \in 1..MaxManualLevels : CompactRange(t, levels)
        BY SMTT(30), <2>0, <4>1, <4>3 DEF CompactRange, IdleWriter
      <4> QED BY <4>2, <4>3 DEF Push
    <3> QED BY SMTT(30), <2>0, <3>1, <3>2
  <2>5. CASE \E t \in Clients : PopGroup(t)
    BY <2>1, <2>5
  <2>6. CASE (\A u \in Clients : ~PopGroup(u)) /\ \E t \in Clients : Push(t) /\ writers' = Append(writers, t)
    <3>1. 0 \in Nat
      OBVIOUS
    <3> QED BY <2>4, <2>6, <3>1
  <2> QED BY <2>3, <2>5, <2>6, QueueCases
\* A record has a sequence number, a number of operations and their batches.
<1>RecordTypes. ASSUME NEW r, r \in AllRecords \/ \E t \in Clients : r = w[t].updates
                PROVE  r \in Record /\ r.seq \in Nat /\ Cardinality(r.ops) \in Nat /\ \A o \in r.ops : o[1] \in Nat
  <2> USE <1>RecordTypes
  <2>1. r \in Record
    <3>1. CASE r \in AllRecords
      <4>1. Imm \subseteq Record
        BY DEF TypeOK, StoreOK, Imm
      <4> QED BY SMTT(30), <3>1, <4>1 DEF AllRecords, TypeOK, StoreOK
    <3>2. CASE \E t \in Clients : r = w[t].updates
      BY <3>2 DEF TypeOK, CallsOK, WriterType
    <3> QED BY <3>1, <3>2
  <2>2. r.ops \subseteq Op /\ r.seq \in Nat
    BY <2>1 DEF Record
  <2>3. Cardinality(r.ops) \in Nat
    BY DEF Counted, OrderInv
  <2> QED BY <2>1, <2>2, <2>3 DEF Op, Batch
\* An operation of a group's record has the batch number of one of its writers.
<1>GroupOps. ASSUME NEW t \in Clients, pc[t] \in Grouped \ {"pop"}, NEW o \in w[t].updates.ops
             PROVE  \E i \in 1..Len(writers) : /\ i <= w[t].last /\ writers[i] \in Clients
                                               /\ o[1] = w[writers[i]].batch /\ w[writers[i]].batch # 0
  <2> USE <1>GroupOps
  <2>1. w[t].updates.ops = UNION {OpsOf(w[u]) : u \in GroupOf(t)}
    BY DEF OrderInv
  <2>2. PICK u \in GroupOf(t) : o \in OpsOf(w[u])
    BY <2>1
  <2>3. PICK i \in 1..w[t].last : u = writers[i]
    BY DEF GroupOf
  <2>4. i \in 1..Len(writers) /\ writers[i] \in Clients /\ i <= w[t].last
    BY SMTT(30), GroupMembers DEF Grouped, Leading
  <2>5. u \in Clients /\ w[u] \in WriterType /\ (w[u].batch = 0 => w[u].n = 0)
    BY <2>3, <2>4 DEF TypeOK, CallsOK
  <2>6. o[1] = w[u].batch /\ w[u].batch # 0
    <3>1. PICK k \in 1..w[u].n : o = <<w[u].batch, k>>
      BY <2>2 DEF OpsOf
    <3>2. w[u].n # 0
      BY SMTT(30), <2>5, <3>1 DEF WriterType
    <3> QED BY <2>5, <3>1, <3>2
  <2> QED BY <2>3, <2>4, <2>6
\* Before its record is appended, a group is later than every record there is.
<1>AppendLater. ASSUME NEW t \in Clients, pc[t] = "append", NEW r \in AllRecords
                PROVE  /\ r.seq + Cardinality(r.ops) <= w[t].updates.seq
                       /\ \A o1 \in w[t].updates.ops, o2 \in r.ops : o2[1] < o1[1]
  <2> USE <1>AppendLater
  <2>1. pc[t] \in Leading /\ pc[t] \in Grouped \ {"pop"}
    BY DEF Leading, Grouped
  <2>2. \A u \in Clients : pc[u] \in Leading => u = t
    BY <2>1, OneLeader
  <2>3. ~Pending(r)
    BY <2>2 DEF Pending, Leading
  <2>4. /\ r.seq + Cardinality(r.ops) <= lastSequence + 1
        /\ \A o \in r.ops : \A i \in 1..Len(writers) : Waits(i) => o[1] < w[writers[i]].batch
    BY <2>3 DEF OrderInv
  <2>5. w[t].updates.seq = lastSequence + 1
    BY DEF StoreInv
  <2>6. ASSUME NEW o1 \in w[t].updates.ops, NEW o2 \in r.ops PROVE o2[1] < o1[1]
    <3>1. PICK i \in 1..Len(writers) : o1[1] = w[writers[i]].batch /\ w[writers[i]].batch # 0
      BY <2>1, <1>GroupOps
    <3>2. Waits(i)
      BY <2>2, <3>1 DEF Waits, Leading
    <3> QED BY <2>4, <3>1, <3>2
  <2> QED BY <2>4, <2>5, <2>6
<1>ArrivalStep. ArrivalOrder'
  <2>0. TypeOK /\ QueueInv /\ StoreInv /\ Counted
    BY DEF IInv
  <2> USE <2>0
  <2> SUFFICES ASSUME NEW r1 \in AllRecords', NEW r2 \in AllRecords', NEW o1 \in r1.ops, NEW o2 \in r2.ops,
                      o1[1] <= o2[1], r1 # r2
               PROVE  r1.seq + Cardinality(r1.ops) <= r2.seq
    BY DEF ArrivalOrder
  <2>1. ASSUME NEW t \in Clients, Appending(t)
        PROVE  pc[t] = "append" /\ \A u \in Clients : Appending(u) => u = t
    <3>1. \A u \in Clients : Appending(u) => pc[u] = "append"
      BY DEF Appending, AppendLog
    <3> QED BY <2>1, <3>1, OneLeader DEF Leading
  <2>2. CASE r1 \in AllRecords /\ r2 \in AllRecords
    BY <2>2 DEF OrderInv, ArrivalOrder
  <2>3. CASE r1 \in AllRecords /\ r2 \notin AllRecords
    BY <2>1, <2>3, <1>RecordsFrom, <1>AppendLater
  <2>4. CASE r1 \notin AllRecords /\ r2 \in AllRecords
    <3> USE <2>4
    <3>1. PICK t \in Clients : Appending(t) /\ r1 = w[t].updates
      BY <1>RecordsFrom
    <3>2. o2[1] < o1[1]
      BY <2>1, <3>1, <1>AppendLater
    <3>3. o1[1] \in Nat /\ o2[1] \in Nat
      BY <3>1, <1>RecordTypes
    <3> QED BY SMTT(30), <3>2, <3>3
  <2>5. CASE r1 \notin AllRecords /\ r2 \notin AllRecords
    BY <2>1, <2>5, <1>RecordsFrom
  <2> QED BY <2>2, <2>3, <2>4, <2>5
\* The queue stays sorted.
<1>QueueSorted. ASSUME NEW i \in 1..Len(writers'), NEW j \in 1..Len(writers'), i < j,
                       w'[writers'[i]].batch # 0, w'[writers'[j]].batch # 0
                PROVE  w'[writers'[i]].batch < w'[writers'[j]].batch
  <2> USE <1>QueueSorted
  <2>0. TypeOK /\ QueueInv
    BY DEF IInv
  <2>1. PICK k \in Nat : \A l \in 1..Len(writers') :
             \/ /\ l + k \in 1..Len(writers) /\ writers'[l] = writers[l + k]
                /\ writers[l + k] \in Clients /\ SameBatch(writers[l + k])
                /\ Waits(l)' => Waits(l + k)
             \/ k = 0 /\ l = Len(writers) + 1 /\ w'[writers'[l]].batch \in {0, nextBatch}
    BY <2>0, <1>QueueShift
  <2>2. Len(writers) \in Nat
    BY SMTT(30), <2>0 DEF TypeOK, CallsOK
  <2>3. i \in Int /\ j \in Int
    BY SMTT(30)
  <2>4. /\ i + k \in 1..Len(writers) /\ writers'[i] = writers[i + k]
        /\ writers[i + k] \in Clients /\ w'[writers'[i]].batch = w[writers[i + k]].batch
    <3>1. CASE k = 0 /\ i = Len(writers) + 1
      <4>1. k = 0 /\ j > Len(writers) + 1
        BY <2>2, <2>3, <3>1
      <4>2. ~(j + k \in 1..Len(writers)) /\ j # Len(writers) + 1
        BY SMTT(30), <2>2, <2>3, <4>1
      <4> QED BY <2>1, <4>2
    <3>2. CASE ~(k = 0 /\ i = Len(writers) + 1)
      BY <2>1, <3>2 DEF SameBatch
    <3> QED BY <3>1, <3>2
  <2>5. CASE /\ j + k \in 1..Len(writers) /\ writers'[j] = writers[j + k]
             /\ writers[j + k] \in Clients /\ SameBatch(writers[j + k])
    <3>1. w'[writers'[j]].batch = w[writers[j + k]].batch /\ i + k < j + k
      BY SMTT(30), <2>3, <2>5 DEF SameBatch
    <3> QED BY <2>4, <2>5, <3>1 DEF OrderInv
  <2>6. CASE w'[writers'[j]].batch \in {0, nextBatch}
    <3>1. PICK u \in Clients : u = writers[i + k]
      BY <2>4
    <3>2. w[u].batch < nextBatch
      BY DEF ErrorInv
    <3>3. w'[writers'[j]].batch = nextBatch
      BY <2>6
    <3> QED BY <2>4, <3>1, <3>2, <3>3
  <2> QED BY <2>1, <2>5, <2>6
<1>SettledKept. ASSUME NEW r \in AllRecords, Settled(r) PROVE Settled(r)'
  <2> USE <1>SettledKept
  <2>0. TypeOK /\ QueueInv /\ StoreInv /\ Counted /\ TypeOK'
    BY CoreStep DEF IInv
  <2>1. r.seq \in Nat /\ Cardinality(r.ops) \in Nat /\ \A o \in r.ops : o[1] \in Nat
    BY <2>0, <1>RecordTypes
  <2>2. /\ lastSequence \in Nat /\ lastSequence' \in Nat /\ lastSequence <= lastSequence'
        /\ nextBatch \in Nat /\ nextBatch' \in Nat /\ nextBatch <= nextBatch'
    <3>1. nextBatch \in Nat /\ nextBatch' \in Nat
      BY <2>0 DEF TypeOK, HistoryOK, Batch
    <3> QED BY <2>0, <3>1, <1>SequenceGrows, NextBatchGrows
  <2>3. r.seq + Cardinality(r.ops) <= lastSequence' + 1
    BY SMTT(30), <2>1, <2>2 DEF Settled
  <2>4. ASSUME NEW o \in r.ops PROVE o[1] < nextBatch'
    BY SMTT(30), <2>1, <2>2 DEF Settled
  <2>5. ASSUME NEW o \in r.ops, NEW i \in 1..Len(writers'), Waits(i)'
        PROVE  o[1] < w'[writers'[i]].batch
    <3>1. PICK k \in Nat :
             \/ /\ i + k \in 1..Len(writers) /\ writers'[i] = writers[i + k]
                /\ writers[i + k] \in Clients /\ SameBatch(writers[i + k])
                /\ Waits(i)' => Waits(i + k)
             \/ k = 0 /\ i = Len(writers) + 1 /\ w'[writers'[i]].batch \in {0, nextBatch}
      BY <2>0, <1>QueueShift
    <3>2. CASE /\ i + k \in 1..Len(writers) /\ writers'[i] = writers[i + k]
               /\ SameBatch(writers[i + k]) /\ Waits(i + k)
      BY <3>2 DEF Settled, SameBatch
    <3>3. CASE w'[writers'[i]].batch \in {0, nextBatch}
      <4>1. w'[writers'[i]].batch = nextBatch
        BY <2>5, <3>3 DEF Waits
      <4> QED BY <4>1 DEF Settled
    <3> QED BY <2>5, <3>1, <3>2, <3>3
  <2> QED BY <2>3, <2>4, <2>5 DEF Settled
\* Complete settles the record of its group.
<1>SettledByComplete. ASSUME NEW t \in Clients, Complete(t) PROVE (Settled(w[t].updates))'
  <2> USE <1>SettledByComplete
  <2> DEFINE r == w[t].updates
  <2>0. TypeOK /\ QueueInv /\ StoreInv /\ Counted
    BY DEF IInv
  <2>1. /\ pc[t] = "relock" /\ UNCHANGED <<w, writers, historyVars>> /\ pc' = [pc EXCEPT ![t] = "pop"]
        /\ lastSequence' = r.seq + Cardinality(r.ops) - 1
    BY DEF Complete, Goto, AdvancedSequence
  <2>2. nextBatch' = nextBatch /\ pc'[t] = "pop"
    BY <2>0, <2>1 DEF historyVars, TypeOK, ThreadsOK, Threads
  <2>3. r.seq \in Nat /\ Cardinality(r.ops) \in Nat
    BY <2>0, <1>RecordTypes
  <2>4. r.seq + Cardinality(r.ops) <= lastSequence' + 1
    BY SMTT(30), <2>1, <2>3
  <2>5. ASSUME NEW o \in r.ops
        PROVE  o[1] < nextBatch /\ \A j \in 1..Len(writers) : Waits(j)' => o[1] < w[writers[j]].batch
    <3>1. PICK i \in 1..Len(writers) :
             i <= w[t].last /\ writers[i] \in Clients /\ o[1] = w[writers[i]].batch /\ w[writers[i]].batch # 0
      BY <2>0, <2>1, <1>GroupOps DEF Grouped
    <3> USE <3>1
    <3>2. o[1] < nextBatch
      BY DEF ErrorInv
    <3>3. ASSUME NEW j \in 1..Len(writers), Waits(j)' PROVE o[1] < w[writers[j]].batch
      <4>1. w[t].last < j /\ w[writers[j]].batch # 0
        BY <2>1, <2>2, <3>3 DEF Waits
      <4>2. w[t].last \in Nat
        BY <2>0 DEF TypeOK, CallsOK, WriterType
      <4>3. i < j
        BY SMTT(30), <4>1, <4>2
      <4> QED BY <4>1, <4>3 DEF OrderInv
    <3> QED BY <3>2, <3>3
  <2> QED BY <2>1, <2>2, <2>4, <2>5 DEF Settled
<1>0. TypeOK /\ QueueInv /\ StoreInv /\ Counted /\ TypeOK'
  BY CoreStep DEF IInv
<1>1. ArrivalOrder'
  BY <1>ArrivalStep
<1>5. \A r \in AllRecords' : Cardinality(r.ops) \in Nat
  BY <1>0, <1>RecordsFrom DEF Counted, OrderInv
<1>2. \A i, j \in 1..Len(writers') :
        i < j /\ w'[writers'[i]].batch # 0 /\ w'[writers'[j]].batch # 0 =>
          w'[writers'[i]].batch < w'[writers'[j]].batch
  BY <1>QueueSorted
<1>3. ASSUME NEW r \in AllRecords' PROVE Pending(r)' \/ Settled(r)'
  <2>1. CASE r \notin AllRecords
    <3>1. PICK t \in Clients : Appending(t) /\ r = w[t].updates
      BY <1>0, <2>1, <1>RecordsFrom
    <3>2. pc[t] = "append" /\ pc'[t] \in {"sync", "insert", "relock"}
      BY <1>0, <3>1 DEF Appending, AppendLog, Goto, TypeOK, ThreadsOK, Threads
    <3> USE <3>2
    <3>3. w'[t].updates = w[t].updates
      <4>1. ~FormGroup(t) /\ ~RoomError(t)
        BY DEF FormGroup, RoomError
      <4> QED BY <1>0, <4>1, GroupedFrom DEF Grouped
    <3> QED BY <3>1, <3>3 DEF Pending
  <2>2. CASE r \in AllRecords /\ Settled(r)
    BY <2>2, <1>SettledKept
  <2>3. CASE Pending(r)
    <3>1. PICK t \in Clients : pc[t] \in {"sync", "insert", "relock"} /\ r = w[t].updates
      BY <2>3 DEF Pending
    <3>2. CASE Complete(t)
      <4>1. (Settled(w[t].updates))' /\ w' = w
        BY <3>2, <1>SettledByComplete DEF Complete
      <4> QED BY <3>1, <4>1 DEF Settled
    <3>3. CASE ~Complete(t)
      BY <1>0, <3>1, <3>3, <1>GroupNext DEF Pending
    <3> QED BY <3>2, <3>3
  <2>4. r \in AllRecords => Pending(r) \/ Settled(r)
    BY DEF OrderInv, Settled
  <2> QED BY <2>1, <2>2, <2>3, <2>4
<1>4. ASSUME NEW t \in Clients, pc'[t] \in Grouped \ {"pop"}
      PROVE  w'[t].updates.ops = UNION {OpsOf(w'[u]) : u \in GroupOf(t)'}
  <2> USE <1>4
  <2>1. CASE pc[t] \in Grouped /\ w'[t].last = w[t].last /\ w'[t].updates = w[t].updates /\ pc[t] # "pop"
    <3> USE <2>1
    <3>1. pc[t] \in Leading /\ pc'[t] \in Leading
      BY DEF Grouped, Leading
    <3>2. w[t].last \in Nat /\ w[t].last <= Len(writers) /\ Len(writers) \in Nat
      BY SMTT(30), <1>0, <3>1, GroupMembers DEF TypeOK, CallsOK
    <3>3. \A i \in 1..w[t].last : writers'[i] = writers[i] /\ SameBatch(writers[i])
      BY SMTT(30), <1>0, <3>1, <3>2, GroupKept
    <3>4. GroupOf(t)' = GroupOf(t) /\ \A u \in GroupOf(t) : SameBatch(u)
      BY <3>3 DEF GroupOf
    <3>5. \A u \in GroupOf(t) : OpsOf(w'[u]) = OpsOf(w[u])
      BY <3>4 DEF OpsOf, SameBatch
    <3>6. w[t].updates.ops = UNION {OpsOf(w[u]) : u \in GroupOf(t)}
      BY DEF OrderInv
    <3> QED BY SMTT(30), <3>4, <3>5, <3>6
  <2>2. CASE FormGroup(t) /\ w[t].batch # 0
    <3>1. PICK g \in 1..Len(writers) :
            w' = [w EXCEPT ![t].last = g,
                           ![t].updates = [seq |-> lastSequence + 1,
                                           ops |-> UNION {OpsOf(w[writers[i]]) : i \in 1..g}]]
      BY <2>2 DEF FormGroup
    <3>2. w'[t].last = g /\ w'[t].updates.ops = UNION {OpsOf(w[writers[i]]) : i \in 1..g}
      BY SMTT(30), <1>0, <3>1 DEF TypeOK, CallsOK, WriterType
    <3>3. pc[t] \in Leading /\ pc'[t] \in Leading
      BY <2>2 DEF Grouped, Leading, FormGroup
    <3>4. g <= Len(writers) /\ Len(writers) \in Nat /\ g \in Nat
      BY SMTT(30), <1>0 DEF TypeOK, CallsOK
    <3>5. \A i \in 1..g : writers'[i] = writers[i] /\ SameBatch(writers[i])
      BY SMTT(30), <1>0, <3>3, <3>4, GroupKept
    <3>6. \A i \in 1..g : OpsOf(w'[writers'[i]]) = OpsOf(w[writers[i]])
      <4>1. ASSUME NEW u, SameBatch(u) PROVE OpsOf(w'[u]) = OpsOf(w[u])
        BY <4>1 DEF OpsOf, SameBatch
      <4> QED BY <3>5, <4>1
    <3>7. GroupOf(t)' = {writers'[i] : i \in 1..g}
      BY <3>2 DEF GroupOf
    <3> QED BY SMTT(30), <3>2, <3>6, <3>7
  <2> QED BY <1>0, <2>1, <2>2, GroupedFrom DEF Grouped
<1> QED BY <1>1, <1>2, <1>3, <1>4, <1>5 DEF OrderInv, Settled
-----------------------------------------------------------------------------
(***************************************************************************)
(* A group is finite, so LastSequence advances by a number.                *)
(***************************************************************************)
\* What Cardinality is defined to be.
Size(S) ==
  LET CS[T \in SUBSET S] == IF T = {} THEN 0 ELSE 1 + CS[T \ {CHOOSE x : x \in T}]
  IN  CS[S]

LEMMA CountedBySize ==
  /\ Counted <=> \A t \in Clients : Size(w[t].updates.ops) \in Nat
  /\ Counted' <=> \A t \in Clients : Size(w'[t].updates.ops) \in Nat
BY DEF Counted, Cardinality, Size

LOCAL INSTANCE FiniteSetTheorems

LEMMA SizeType == ASSUME NEW S, IsFiniteSet(S) PROVE Size(S) \in Nat
<1>1. Cardinality(S) \in Nat
  BY FS_CardinalityType
<1> QED BY <1>1 DEF Cardinality, Size

\* FormGroup makes a record of finitely many operations; every other step
\* leaves the records of the Writers alone or resets them.
LEMMA CountedStep == ASSUME IInv, [Next]_vars PROVE Counted'
\* The image of an interval under a function is finite.
<1>FiniteImage. ASSUME NEW n \in Nat, NEW f, DOMAIN f = 1..n
                PROVE  IsFiniteSet({f[k] : k \in 1..n})
  <2> USE <1>FiniteImage
  <2> DEFINE S == 1..n
             T == {f[k] : k \in 1..n}
             g == [k \in S |-> f[k]]
  <2>1. IsFiniteSet(S)
    BY SMTT(30), FS_Interval
  <2>2. g \in Surjection(S, T)
    BY DEF Surjection
  <2> HIDE DEF S, T, g
  <2>3. IsFiniteSet(T)
    BY <2>1, <2>2, FS_Surjection
  <2> QED BY <2>3 DEF T
<1> SUFFICES ASSUME NEW t \in Clients PROVE Size(w'[t].updates.ops) \in Nat
  BY CountedBySize
<1>1. TypeOK /\ QueueInv /\ Size(w[t].updates.ops) \in Nat
  BY CountedBySize DEF IInv
<1>2. CASE w'[t].updates = w[t].updates
  BY <1>1, <1>2
<1>3. CASE w'[t].updates = IdleWriter.updates
  BY SMTT(30), <1>3, FS_EmptySet, SizeType DEF IdleWriter
<1>4. CASE FormGroup(t) /\ w' # w
  <2>1. PICK g \in 1..Len(writers) :
          w' = [w EXCEPT ![t].last = g,
                         ![t].updates = [seq |-> lastSequence + 1,
                            ops |-> UNION {OpsOf(w[writers[i]]) : i \in 1..g}]]
    BY <1>4 DEF FormGroup
  <2> DEFINE f == [i \in 1..g |-> OpsOf(w[writers[i]])]
             T == {f[i] : i \in 1..g}
  <2>2. w'[t].updates.ops = UNION T
    <3>1. w \in [Clients -> WriterType]
      BY <1>1 DEF TypeOK, CallsOK
    <3>2. w'[t].updates.ops = UNION {OpsOf(w[writers[i]]) : i \in 1..g}
      BY <2>1, <3>1 DEF WriterType
    <3> QED BY <3>2
  <2>3. g \in Nat /\ \A i \in 1..g : writers[i] \in Clients
    BY SMTT(30), <1>1, QueueOfClients
  <2>4. IsFiniteSet(T)
    <3> DOMAIN f = 1..g OBVIOUS
    <3> HIDE DEF f
    <3> QED BY <2>3, <1>FiniteImage
  <2>5. \A i \in 1..g : IsFiniteSet(f[i])
    <3> TAKE i \in 1..g
    <3> DEFINE v == w[writers[i]]
               h == [k \in 1..v.n |-> <<v.batch, k>>]
    <3>1. v.n \in Nat
      <4>1. v \in WriterType
        BY <1>1, <2>3 DEF TypeOK, CallsOK
      <4> QED BY <4>1 DEF WriterType
    <3>2. f[i] = OpsOf(v)
      OBVIOUS
    <3>3. OpsOf(v) = {h[k] : k \in 1..v.n}
      <4> HIDE DEF v
      <4> QED BY DEF OpsOf
    <3> DOMAIN h = 1..v.n OBVIOUS
    <3> HIDE DEF h, v, f
    <3> QED BY SMTT(30), <3>1, <3>2, <3>3, <1>FiniteImage
  <2> HIDE DEF f
  <2>6. \A U \in T : IsFiniteSet(U)
    BY <2>5
  <2> HIDE DEF T
  <2>7. IsFiniteSet(UNION T)
    BY <2>4, <2>6, FS_UNION
  <2> QED BY <2>2, <2>7, SizeType
<1> QED BY <1>1, <1>2, <1>3, <1>4, UpdatesFrom

LEMMA InitInv == ASSUME Init PROVE IInv
<1>1. \A t \in Clients : w[t].updates.ops = {}
  BY DEF Init, IdleWriter
<1>2. Counted
  BY <1>1, CountedBySize, FS_EmptySet, SizeType
<1> QED BY <1>2, InitCore DEF IInv

\* Every step preserves the inductive invariant.
LEMMA InvStep == ASSUME IInv, [Next]_vars PROVE IInv'
BY CoreStep, CountedStep DEF IInv

\* IInv is an invariant of DBImpl.
THEOREM Invariance == Spec => []IInv
BY InitInv, InvStep, PTL DEF Spec

\* The state of DBImpl keeps its types through every interleaving of Write,
\* CompactRange, Suspend/ResumeCompaction, ~DBImpl and BackgroundCall.
THEOREM TypeCorrect == Spec => []TypeOK
<1>1. IInv => TypeOK
  BY DEF IInv
<1> QED BY <1>1, Invariance, PTL

\* Only the front of writers_ is between MakeRoomForWrite and the pop of its
\* group: mem_ and log_ have one writer at a time although mutex_ is released.
THEOREM OneLogger == Spec => []SingleLogger
<1>1. IInv => SingleLogger
  BY SMTT(30) DEF IInv, QueueInv, SingleLogger, TypeOK, CallsOK
<1> QED BY <1>1, Invariance, PTL

\* No wakeup of a Writer's condition variable is lost.
THEOREM WakeupsKept == Spec => []NoLostWakeup
<1>1. IInv => NoLostWakeup
  BY DEF IInv, QueueInv
<1> QED BY <1>1, Invariance, PTL

\* A read that starts at any time finds every acknowledged write.
THEOREM Reads == Spec => []AckedReadable
<1>1. IInv => AckedReadable
  BY DEF IInv, AckInv
<1> QED BY <1>1, Invariance, PTL

\* When the Env reports failed Sync() and NewWritableFile() calls, recovery finds
\* every acknowledged write, wherever the process ends.
THEOREM Recovers == ASSUME EnvReports PROVE Spec => []AckedRecoverable
<1>1. IInv => AckedRecoverable
  <2> SUFFICES ASSUME IInv, NEW o \in acked
               PROVE  \E r \in manifest.tables \cup LiveLogged(logged) : o \in r.ops
    BY DEF AckedRecoverable, Holds
  <2>1. PICK r \in mem \cup Imm \cup versions.tables : o \in r.ops
    BY DEF IInv, AckInv, AckedReadable, Holds
  <2> USE <2>1
  <2>2. CASE r \in mem
    <3>1. <<logfileNumber, r>> \in logged /\ logfileNumber >= manifest.log
      BY <2>2 DEF IInv, StoreInv, TypeOK, StoreOK
    <3> QED BY SMTT(30), <3>1 DEF LiveLogged
  <2>3. CASE r \in Imm
    BY <2>3 DEF IInv, StoreInv, LiveLogged
  <2>4. CASE r \in versions.tables
    BY <2>4 DEF IInv, StoreInv
  <2> QED BY <2>2, <2>3, <2>4
<1> QED BY <1>1, Invariance, PTL

\* Level 0 never has more than kL0_StopWritesTrigger files, the one that imm_
\* will become included, whichever compactions and flushes are running.
THEOREM Level0StaysBounded == Spec => []Level0Bounded
<1>1. Init => Level0Bounded
  BY SMTT(30), TriggersAssumption DEF Init, Level0Bounded, NoImm
<1>2. IInv /\ Level0Bounded /\ [Next]_vars => Level0Bounded'
  BY Level0Step DEF IInv
<1> QED BY <1>1, <1>2, Invariance, PTL DEF Spec

\* The waiters of bg_cv_ and the calls in progress are as CallInv says.
LEMMA CallInvariance == Spec => []CallInv
<1>1. IInv /\ CallInv /\ [Next]_vars => CallInv'
  BY CallStepInv DEF IInv
<1> QED BY CallInit, <1>1, Invariance, PTL DEF Spec

\* ~DBImpl returns only when no background call is queued or running, nobody
\* waits on bg_cv_ and no Write is queued.
THEOREM CloseWaits == Spec => []ClosedIsQuiet
<1>1. IInv /\ CallInv => ClosedIsQuiet
  <2> SUFFICES ASSUME IInv, CallInv, NEW t \in Clients, pc[t] = "closed"
               PROVE  ~scheduled /\ pc[BG] = "idle" /\ bgWait = {} /\ writers = <<>>
    BY DEF ClosedIsQuiet
  <2>1. ~scheduled /\ pc[BG] = "idle" /\ shuttingDown
    BY DEF CallInv, Ending
  <2>2. \A u \in Clients : u # t => pc[u] = "idle"
    BY <2>1 DEF CallInv, Ending
  <2>3. bgWait = {}
    BY <2>2 DEF CallInv, IInv, TypeOK, ThreadsOK
  <2>4. Len(writers) = 0
    <3>1. Len(writers) \in Nat /\ \A i \in 1..Len(writers) : writers[i] \in Clients /\ InQueue(writers[i])
      BY SMTT(30) DEF IInv, QueueInv, TypeOK, CallsOK
    <3>2. \A u \in Clients : ~InQueue(u)
      BY <2>2 DEF InQueue, Leading
    <3> QED BY SMTT(30), <3>1, <3>2
  <2>5. writers = <<>>
    BY SMTT(30), <2>4 DEF IInv, TypeOK, CallsOK
  <2> QED BY <2>1, <2>3, <2>5
<1> QED BY <1>1, Invariance, CallInvariance, PTL

\* As long as the application has not suspended compactions, whoever waits on
\* bg_cv_ (for room, for imm_, for a manual compaction or in the destructor)
\* waits for a background call that is queued or running.
THEOREM WaitersAreServed == (Spec /\ []~suspending) => []NoStrandedWaiter
<1>1. Init => WorkInv
  BY SMTT(30), TriggersAssumption DEF Init, WorkInv, NoStrandedWaiter, NeedsCompaction, NoImm
<1>2. IInv /\ CallInv /\ WorkInv /\ ~suspending /\ [Next]_vars => WorkInv'
  BY WorkStep DEF IInv
<1>3. WorkInv => NoStrandedWaiter
  BY DEF WorkInv
<1> QED BY <1>1, <1>2, <1>3, Invariance, CallInvariance, PTL DEF Spec

\* The manual compaction the background thread started is still there when
\* BackgroundCompaction updates it, unless a background error has made
\* CompactRange give up before the database was closed.
THEOREM ManualIsThere ==
  (Spec /\ [](bgError => shuttingDown)) => []ManualStillThere
<1>1. Init => ManualInv
  BY SMTT(30) DEF Init, ManualInv, ManualStillThere, IdleBG, Threads
<1>2. IInv /\ CallInv /\ ManualInv /\ (bgError => shuttingDown) /\ [Next]_vars => ManualInv'
  BY ManualStep DEF IInv
<1>3. ManualInv => ManualStillThere
  BY DEF ManualInv
<1> QED BY <1>1, <1>2, <1>3, Invariance, CallInvariance, PTL DEF Spec

LEMMA ErrorInvariance == Spec => []ErrorInv
<1>1. ASSUME Init PROVE ErrorInv
  BY SMTT(30), <1>1 DEF Init, ErrorInv, NoAckAfterError, IdleWriter, Threads
<1>2. IInv /\ ErrorInv /\ [Next]_vars => ErrorInv'
  BY ErrorStep DEF IInv
<1> QED BY <1>1, <1>2, Invariance, PTL DEF Spec

\* After a background error no Write is acknowledged that was issued later,
\* however the error races with a group that is being logged.
THEOREM NoWriteAfterError == Spec => []NoAckAfterError
<1>1. ErrorInv => NoAckAfterError
  BY DEF ErrorInv
<1> QED BY <1>1, ErrorInvariance, PTL

\* A write acknowledged with options.sync is in a table the MANIFEST names or in
\* a synced log that recovery reads, when Sync() and NewWritableFile() report
\* their failures: also when another writer logged it.
THEOREM SyncedWritesRecover == ASSUME EnvReports PROVE Spec => []SyncRecoverable
<1>1. ASSUME Init PROVE SyncInv
  <2>1. ackedSync = {} /\ \A t \in Clients : pc[t] = "idle" /\ ~w[t].done
    BY <1>1 DEF Init, Threads, IdleWriter
  <2> QED BY <2>1 DEF SyncInv, Holds, Grouped
<1>2. IInv /\ SyncInv /\ [Next]_vars => SyncInv'
  BY SyncStep DEF IInv
<1>3. IInv /\ SyncInv => SyncRecoverable
  <2> SUFFICES ASSUME IInv, SyncInv PROVE SyncRecoverable
    OBVIOUS
  <2>1. SyncedRecords \subseteq manifest.tables \cup LiveLogged(synced)
    <3> SUFFICES ASSUME NEW r \in SyncedRecords, r \notin manifest.tables PROVE r \in LiveLogged(synced)
      OBVIOUS
    <3>1. manifest.log <= logfileNumber
      BY DEF IInv, StoreInv
    <3>2. PICK p \in synced : p[2] = r /\ p[1] >= manifest.log
      <4>1. CASE <<logfileNumber, r>> \in synced
        BY <3>1, <4>1 DEF IInv, TypeOK, StoreOK
      <4>2. CASE \E p \in synced : p[2] = r /\ p[1] >= manifest.log
        BY <4>2
      <4> QED BY <4>1, <4>2 DEF SyncedRecords
    <3> QED BY <3>2 DEF LiveLogged
  <2>2. Holds(SyncedRecords, ackedSync)
    BY DEF SyncInv
  <2> QED BY <2>1, <2>2, HoldsMore DEF SyncRecoverable
<1> QED BY <1>1, <1>2, <1>3, Invariance, PTL DEF Spec

\* Sequence numbers follow the order in which writers entered the queue, and no
\* two records share one: through grouping, failed appends and failed syncs.
THEOREM SequencesFollowQueue == Spec => []ArrivalOrder
<1>1. ASSUME Init PROVE OrderInv
  <2>1. AllRecords = {} /\ Len(writers) = 0
    BY <1>1 DEF Init, AllRecords, Imm
  <2>2. \A t \in Clients : pc[t] \notin Grouped
    BY <1>1 DEF Init, Grouped, Threads
  <2> QED BY SMTT(30), <2>1, <2>2 DEF OrderInv, ArrivalOrder
<1>2. IInv /\ ErrorInv /\ OrderInv /\ [Next]_vars => OrderInv'
  BY OrderStep DEF IInv
<1>3. OrderInv => ArrivalOrder
  BY DEF OrderInv
<1> QED BY <1>1, <1>2, <1>3, Invariance, ErrorInvariance, PTL DEF Spec
=============================================================================
