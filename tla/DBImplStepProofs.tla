------------------------- MODULE DBImplStepProofs --------------------------
(***************************************************************************)
(* Every step of DBImpl preserves AckInv (what is acknowledged, or about   *)
(* to be, is in a memtable or a table) and, with its help, the             *)
(* strengthenings of Level0Bounded, ClosedIsQuiet, NoStrandedWaiter,       *)
(* ManualStillThere and NoAckAfterError.                                   *)
(***************************************************************************)
EXTENDS DBImplCoreProofs

\* Zenon is the prover of the steps that name no other.
USE ZenonT(60)
-----------------------------------------------------------------------------
(***************************************************************************)
(* AckInv.                                                                 *)
(***************************************************************************)
\* More records hold no fewer operations.
LEMMA HoldsMore ==
  ASSUME NEW R1, NEW R2, NEW ops, R1 \subseteq R2, Holds(R1, ops)
  PROVE  Holds(R2, ops)
BY DEF Holds

\* What a set of records holds, it holds of every subset of the operations.
LEMMA HoldsFewer ==
  ASSUME NEW R, NEW ops1, NEW ops2, ops1 \subseteq ops2, Holds(R, ops2)
  PROVE  Holds(R, ops1)
BY DEF Holds

\* What AckInv says of the group of a writer that is logging.
LEMMA GroupLogged ==
  ASSUME AckInv, NEW u \in Clients, pc[u] \in {"append", "sync", "insert", "relock"}
  PROVE  \A i \in 1..w[u].last : OpsOf(w[writers[i]]) \subseteq w[u].updates.ops
BY DEF AckInv

\* The group of a leading writer consists of clients.
LEMMA GroupMembers ==
  ASSUME TypeOK, QueueInv, NEW t \in Clients, pc[t] \in Leading
  PROVE  /\ w[t].last \in Nat /\ 1 <= w[t].last /\ w[t].last <= Len(writers) /\ writers[1] = t
         /\ \A i \in 1..w[t].last : i \in 1..Len(writers) /\ writers[i] \in Clients
<1>1. Len(writers) \in Nat /\ \A i \in 1..Len(writers) : writers[i] \in Clients
  BY SMTT(30) DEF TypeOK, CallsOK
<1>2. w[t].last \in Nat /\ 1 <= w[t].last /\ w[t].last <= Len(writers) /\ writers[1] = t
  BY SMTT(30) DEF QueueInv, TypeOK, CallsOK, WriterType
<1> QED BY SMTT(30), <1>1, <1>2

\* Every step preserves AckInv.
LEMMA AckStep == ASSUME TypeOK, QueueInv, StoreInv, AckInv, Counted, [Next]_vars PROVE AckInv'
\* No step takes a record from what a read can find.
<1>ReadableGrows. Readable \subseteq Readable'
  <2> USE DEF Readable, Imm
  <2>1. CASE AtomicCall
    <3>1. UNCHANGED <<mem, imm>> /\ versions'.tables = versions.tables
      BY <2>1, AtomicFrame DEF storeVars, TypeOK, StoreOK
    <3> QED BY <3>1
  <2>2. ASSUME NEW t \in Clients, CallStep(t) PROVE Readable \subseteq Readable'
    <3>1. versions' = versions
      BY <2>2, ClientFrame
    <3>2. CASE UNCHANGED <<storeVars, broken>>
      BY <3>1, <3>2 DEF storeVars
    <3>3. CASE \E opened \in BOOLEAN : SwitchMemTable(t, opened)
      <4>1. imm = NoImm /\ imm' = mem
        BY <3>3 DEF SwitchMemTable, NoSwitch
      <4>2. mem \subseteq Imm'
        BY <4>1, NullAssumption DEF TypeOK, StoreOK, NoImm
      <4> QED BY <3>1, <4>1, <4>2
    <3>4. CASE \/ \E ok \in BOOLEAN : SyncLog(t, ok)
               \/ \E ok, landed \in BOOLEAN : AppendLog(t, ok, landed)
               \/ InsertMem(t) \/ Complete(t)
      <4>1. imm' = imm /\ mem \subseteq mem'
        BY <3>4 DEF SyncLog, AppendLog, InsertMem, Complete
      <4> QED BY <3>1, <4>1
    <3> QED BY <2>2, <3>2, <3>3, <3>4, ClientStore
  <2>3. CASE BackgroundStep
    <3>1. mem' = mem
      BY <2>3, BackgroundFrame
    <3>2. CASE UNCHANGED <<storeVars, diskVars>>
      BY <3>2 DEF storeVars, diskVars
    <3>3. CASE \E ok, landed \in BOOLEAN : FlushManifest(ok, landed) \/ InstallManifest(ok, landed)
      BY <3>3 DEF FlushManifest, InstallManifest, storeVars
    <3>4. CASE FlushInstalled
      <4>1. CASE UNCHANGED <<storeVars, diskVars>>
        BY <4>1 DEF storeVars, diskVars
      <4>2. CASE ~UNCHANGED <<storeVars, diskVars>>
        <5>1. \E l0, deep : versions' = [log |-> bg.editLog, tables |-> versions.tables \cup imm,
                                       l0 |-> l0, deep |-> deep]
          BY <3>4, <4>2 DEF FlushInstalled
        <5> QED BY SMTT(30), <3>1, <5>1
      <4> QED BY <4>1, <4>2
    <3>5. CASE CompactionInstalled
      <4>1. imm' = imm /\ versions'.tables = versions.tables
        BY <3>5 DEF CompactionInstalled, diskVars, TypeOK, StoreOK
      <4> QED BY <3>1, <4>1
    <3> QED BY <2>3, <3>2, <3>3, <3>4, <3>5, BackgroundStore
  <2> QED BY <2>1, <2>2, <2>3, StepKinds
\* What AckInv says is held stays held as the readable records grow.
<1>AckFacts. ASSUME Readable \subseteq Readable'
             PROVE  /\ Holds(Readable', acked)
                    /\ \A u \in Clients :
                         /\ w[u].done /\ w[u].status = "ok" => Holds(Readable', OpsOf(w[u]))
                         /\ pc[u] = "relock" /\ w[u].status = "ok" => Holds(Readable', w[u].updates.ops)
                         /\ pc[u] = "pop" /\ w[u].status = "ok" =>
                              \A i \in 1..w[u].last : Holds(Readable', OpsOf(w[writers[i]]))
  <2> USE <1>AckFacts
  <2>1. \A ops : Holds(Readable, ops) => Holds(Readable', ops)
    BY HoldsMore
  <2>2. Holds(Readable, acked)
    BY DEF AckInv, AckedReadable, Readable
  <2>3. ASSUME NEW u \in Clients
        PROVE  /\ w[u].done /\ w[u].status = "ok" => Holds(Readable, OpsOf(w[u]))
               /\ pc[u] = "relock" /\ w[u].status = "ok" => Holds(Readable, w[u].updates.ops)
               /\ pc[u] = "pop" /\ w[u].status = "ok" =>
                    \A i \in 1..w[u].last : Holds(Readable, OpsOf(w[writers[i]]))
    BY DEF AckInv
  <2> QED BY <2>1, <2>2, <2>3
\* A step of t that keeps the queue and every Writer's batch, and acknowledges
\* nothing.
<1>AckKept. ASSUME Readable \subseteq Readable', UNCHANGED <<writers, acked>>, NEW t \in Clients, NEW v,
                   NEW label, w' = [w EXCEPT ![t] = v], pc' = [pc EXCEPT ![t] = label], v.batch = w[t].batch,
                   v.n = w[t].n, v.done = w[t].done, v.done => v.status = w[t].status,
                   label \in Logging \cup {"pop"} => v.last \in Nat /\ v.last <= Len(writers),
                   label \in Logging => \A i \in 1..v.last : OpsOf(w[writers[i]]) \subseteq v.updates.ops,
                   label = "relock" /\ v.status = "ok" => Holds(Readable', v.updates.ops),
                   label = "pop" /\ v.status = "ok" => \A i \in 1..v.last : Holds(Readable', OpsOf(w[writers[i]]))
            PROVE  AckInv'
  <2> USE <1>AckKept
  <2>1. /\ \A u \in Clients : u # t => w'[u] = w[u] /\ pc'[u] = pc[u]
        /\ w'[t] = v /\ pc'[t] = label
    BY DEF TypeOK, CallsOK, ThreadsOK, Threads
  <2>2. \A u \in Clients : OpsOf(w'[u]) = OpsOf(w[u])
    BY SMTT(30), <2>1 DEF OpsOf
  <2>3. \A i \in 1..Len(writers) : writers[i] \in Clients
    BY SMTT(30) DEF TypeOK, CallsOK
  <2>4. AckedReadable'
    BY <1>AckFacts DEF AckedReadable, Readable
  <2>5. ASSUME NEW u \in Clients, w'[u].done, w'[u].status = "ok"
        PROVE  Holds(Readable', OpsOf(w'[u]))
    <3>1. w[u].done /\ w[u].status = "ok"
      BY SMTT(30), <2>1, <2>5
    <3>2. Holds(Readable', OpsOf(w[u]))
      BY <3>1, <1>AckFacts
    <3> QED BY <2>2, <3>2
  <2>6. ASSUME NEW u \in Clients, pc'[u] \in Logging
        PROVE  \A i \in 1..w'[u].last : OpsOf(w'[writers[i]]) \subseteq w'[u].updates.ops
    <3> USE <2>6
    <3>1. CASE u = t
      <4>1. \A i \in 1..v.last : writers[i] \in Clients
        BY SMTT(30), <2>1, <2>3, <3>1
      <4> QED BY SMTT(30), <2>1, <2>2, <3>1, <4>1
    <3>2. CASE u # t
      <4>1. pc[u] \in Logging /\ w'[u] = w[u]
        BY <2>1, <3>2
      <4> USE <4>1
      <4>2. \A i \in 1..w[u].last : writers[i] \in Clients
        <5>1. pc[u] \in Leading
          BY DEF Logging, Leading
        <5> QED BY <5>1, GroupMembers
      <4>3. \A i \in 1..w[u].last : OpsOf(w[writers[i]]) \subseteq w[u].updates.ops
        BY GroupLogged DEF Logging
      <4> QED BY <2>2, <4>2, <4>3
    <3> QED BY <3>1, <3>2
  <2>7. ASSUME NEW u \in Clients, pc'[u] = "relock", w'[u].status = "ok"
        PROVE  Holds(Readable', w'[u].updates.ops)
    <3>1. CASE u = t
      BY <2>1, <2>7, <3>1
    <3>2. CASE u # t
      BY <2>1, <2>7, <3>2, <1>AckFacts
    <3> QED BY <3>1, <3>2
  <2>8. ASSUME NEW u \in Clients, pc'[u] = "pop", w'[u].status = "ok"
        PROVE  \A i \in 1..w'[u].last : Holds(Readable', OpsOf(w'[writers[i]]))
    <3> USE <2>8
    <3>1. CASE u = t
      <4>1. \A i \in 1..v.last : writers[i] \in Clients
        BY SMTT(30), <2>1, <2>3, <3>1
      <4> QED BY SMTT(30), <2>1, <2>2, <3>1, <4>1
    <3>2. CASE u # t
      <4>1. pc[u] = "pop" /\ w'[u] = w[u]
        BY <2>1, <3>2
      <4> USE <4>1
      <4>2. \A i \in 1..w[u].last : writers[i] \in Clients
        <5>1. pc[u] \in Leading
          BY DEF Leading
        <5> QED BY <5>1, GroupMembers
      <4>3. \A i \in 1..w[u].last : Holds(Readable', OpsOf(w[writers[i]]))
        BY <1>AckFacts
      <4> QED BY <2>2, <4>2, <4>3
    <3> QED BY <3>1, <3>2
  <2> QED BY <2>4, <2>5, <2>6, <2>7, <2>8 DEF AckInv, Logging
\* A call pushes its Writer behind every group.
<1>AckPush. ASSUME Readable \subseteq Readable', NEW t \in Clients, Push(t) PROVE AckInv'
  <2> USE <1>AckPush
  <2>1. PICK v : /\ w' = [w EXCEPT ![t] = v] /\ ~v.done
                 /\ pc[t] = "idle" /\ pc' = [pc EXCEPT ![t] = "queued"]
                 /\ writers' = Append(writers, t) /\ acked' = acked
    <3>1. CASE \E n \in BatchSizes, sync \in BOOLEAN : Write(t, n, sync)
      <4>1. PICK n \in BatchSizes, sync \in BOOLEAN : Write(t, n, sync)
        BY <3>1
      <4> DEFINE v == [IdleWriter EXCEPT !.batch = nextBatch, !.n = n, !.sync = sync]
      <4>2. ~v.done
        BY DEF IdleWriter
      <4>3. /\ w' = [w EXCEPT ![t] = v] /\ pc[t] = "idle" /\ pc' = [pc EXCEPT ![t] = "queued"]
            /\ writers' = Append(writers, t) /\ acked' = acked
        BY <4>1 DEF Write, Goto
      <4> QED BY <4>2, <4>3
    <3>2. CASE \E levels \in 1..MaxManualLevels : CompactRange(t, levels)
      <4>1. ~IdleWriter.done
        BY DEF IdleWriter
      <4> QED BY <3>2, <4>1 DEF CompactRange, Goto, coreVars, historyVars
    <3> QED BY <3>1, <3>2 DEF Push
  <2>2. /\ \A u \in Clients : u # t => w'[u] = w[u] /\ pc'[u] = pc[u]
        /\ w'[t] = v /\ pc'[t] = "queued"
    BY <2>1 DEF TypeOK, CallsOK, ThreadsOK, Threads
  <2>3. \A i \in 1..Len(writers) : writers'[i] = writers[i] /\ writers[i] # t /\ writers[i] \in Clients
    <3>1. writers \in Seq(Clients) /\ \A i \in 1..Len(writers) : InQueue(writers[i])
      BY DEF TypeOK, CallsOK, QueueInv
    <3>2. ~InQueue(t)
      BY <2>1 DEF InQueue, Leading
    <3>3. \A i \in 1..Len(writers) : Append(writers, t)[i] = writers[i] /\ writers[i] \in Clients
      BY SMTT(30), <3>1
    <3> QED BY <2>1, <3>1, <3>2, <3>3
  <2>4. AckedReadable'
    BY <2>1, <1>AckFacts DEF AckedReadable, Readable
  <2>5. \A u \in Clients : w'[u].done /\ w'[u].status = "ok" => Holds(Readable', OpsOf(w'[u]))
    BY <2>1, <2>2, <1>AckFacts
  <2>6. ASSUME NEW u \in Clients, pc'[u] \in Logging \cup {"pop"}
        PROVE  /\ pc[u] = pc'[u] /\ w'[u] = w[u]
               /\ \A i \in 1..w[u].last : w'[writers'[i]] = w[writers[i]]
    <3>1. u # t /\ pc[u] = pc'[u] /\ w'[u] = w[u]
      BY <2>2, <2>6 DEF Logging
    <3>2. \A i \in 1..w[u].last : i \in 1..Len(writers)
      <4>1. pc[u] \in Leading
        BY <2>6, <3>1 DEF Logging, Leading
      <4> QED BY <4>1, GroupMembers
    <3> QED BY <2>2, <2>3, <3>1, <3>2
  <2>7. ASSUME NEW u \in Clients, pc'[u] = "relock", w'[u].status = "ok"
        PROVE  Holds(Readable', w'[u].updates.ops)
    <3>1. pc[u] = "relock" /\ w'[u] = w[u]
      BY <2>6, <2>7 DEF Logging
    <3> QED BY <2>7, <3>1, <1>AckFacts
  <2>8. ASSUME NEW u \in Clients, pc'[u] = "pop", w'[u].status = "ok", NEW i \in 1..w'[u].last
        PROVE  Holds(Readable', OpsOf(w'[writers'[i]]))
    <3>1. /\ pc[u] = "pop" /\ w[u].status = "ok" /\ i \in 1..w[u].last
          /\ w'[writers'[i]] = w[writers[i]]
      BY <2>1, <2>6, <2>8
    <3> QED BY <3>1, <1>AckFacts
  <2>9. ASSUME NEW u \in Clients, pc'[u] \in Logging, NEW i \in 1..w'[u].last
        PROVE  OpsOf(w'[writers'[i]]) \subseteq w'[u].updates.ops
    <3>1. /\ pc[u] \in Logging /\ i \in 1..w[u].last
          /\ w'[u] = w[u] /\ w'[writers'[i]] = w[writers[i]]
      BY <2>1, <2>6, <2>9
    <3>2. OpsOf(w[writers[i]]) \subseteq w[u].updates.ops
      BY <3>1, GroupLogged DEF Logging
    <3> QED BY <3>1, <3>2
  <2> QED BY <2>4, <2>5, <2>7, <2>8, <2>9 DEF AckInv, Logging
\* A writer that another one has served returns.
<1>AckServed. ASSUME Readable \subseteq Readable', NEW t \in Clients, ReturnServed(t) PROVE AckInv'
  <2> USE <1>AckServed
  <2>1. /\ w' = [w EXCEPT ![t] = IdleWriter] /\ ~IdleWriter.done /\ writers' = writers
        /\ pc[t] = "queued" /\ w[t].done /\ pc' = [pc EXCEPT ![t] = pc'[t]]
        /\ acked' = acked \cup (IF w[t].status = "ok" THEN OpsOf(w[t]) ELSE {})
    BY DEF ReturnServed, Return, Goto, IdleWriter, TypeOK, ThreadsOK, Threads
  <2>2. /\ \A u \in Clients : u # t => w'[u] = w[u] /\ pc'[u] = pc[u]
        /\ w'[t] = IdleWriter
        /\ pc'[t] \notin Logging \cup {"pop"}
    BY <2>1 DEF TypeOK, CallsOK, ThreadsOK, Threads, ReturnServed, Return, Goto, Logging
  <2>3. \A i \in 1..Len(writers) : writers[i] # t /\ writers[i] \in Clients
    <3>1. ~InQueue(t)
      BY <2>1 DEF InQueue, Leading
    <3>2. \A i \in 1..Len(writers) : InQueue(writers[i])
      BY DEF QueueInv
    <3>3. \A i \in 1..Len(writers) : writers[i] \in Clients
      BY SMTT(30) DEF TypeOK, CallsOK
    <3> QED BY <3>1, <3>2, <3>3
  <2>4. AckedReadable'
    <3>1. Holds(Readable', acked)
      BY <1>AckFacts
    <3>2. w[t].status = "ok" => Holds(Readable', OpsOf(w[t]))
      BY <2>1, <1>AckFacts
    <3> QED BY <2>1, <3>1, <3>2 DEF AckedReadable, Holds, Readable
  <2>5. \A u \in Clients : w'[u].done /\ w'[u].status = "ok" => Holds(Readable', OpsOf(w'[u]))
    BY <2>1, <2>2, <1>AckFacts
  <2>6. ASSUME NEW u \in Clients, pc'[u] \in Logging \cup {"pop"}
        PROVE  /\ pc[u] = pc'[u] /\ w'[u] = w[u]
               /\ \A i \in 1..w[u].last : w'[writers[i]] = w[writers[i]]
    <3>1. u # t /\ pc[u] = pc'[u] /\ w'[u] = w[u]
      BY <2>2, <2>6
    <3>2. \A i \in 1..w[u].last : i \in 1..Len(writers)
      <4>1. pc[u] \in Leading
        BY <2>6, <3>1 DEF Logging, Leading
      <4> QED BY <4>1, GroupMembers
    <3> QED BY <2>2, <2>3, <3>1, <3>2
  <2>7. ASSUME NEW u \in Clients, pc'[u] = "relock", w'[u].status = "ok"
        PROVE  Holds(Readable', w'[u].updates.ops)
    <3>1. pc[u] = "relock" /\ w'[u] = w[u]
      BY <2>6, <2>7 DEF Logging
    <3> QED BY <2>7, <3>1, <1>AckFacts
  <2>8. ASSUME NEW u \in Clients, pc'[u] = "pop", w'[u].status = "ok", NEW i \in 1..w'[u].last
        PROVE  Holds(Readable', OpsOf(w'[writers'[i]]))
    <3>1. /\ pc[u] = "pop" /\ w[u].status = "ok" /\ i \in 1..w[u].last
          /\ w'[writers'[i]] = w[writers[i]]
      BY <2>1, <2>6, <2>8
    <3> QED BY <3>1, <1>AckFacts
  <2>9. ASSUME NEW u \in Clients, pc'[u] \in Logging, NEW i \in 1..w'[u].last
        PROVE  OpsOf(w'[writers'[i]]) \subseteq w'[u].updates.ops
    <3>1. /\ pc[u] \in Logging /\ i \in 1..w[u].last
          /\ w'[u] = w[u] /\ w'[writers'[i]] = w[writers[i]]
      BY <2>1, <2>6, <2>9
    <3>2. OpsOf(w[writers[i]]) \subseteq w[u].updates.ops
      BY <3>1, GroupLogged DEF Logging
    <3> QED BY <3>1, <3>2
  <2> QED BY <2>4, <2>5, <2>7, <2>8, <2>9 DEF AckInv, Logging
\* The front writer hands its status to its group and returns.
<1>AckPop. ASSUME Readable \subseteq Readable', NEW t \in Clients, PopGroup(t) PROVE AckInv'
  <2> USE <1>AckPop
  <2> DEFINE last == w[t].last
             served == {writers[i] : i \in 2..last}
  <2>1. /\ pc[t] = "pop" /\ pc[t] \in Leading
        /\ acked' = acked \cup (IF w[t].status = "ok" THEN OpsOf(w[t]) ELSE {})
        /\ w' = [u \in Clients |->
                   IF u = t THEN IdleWriter
                   ELSE IF u \in served
                   THEN [w[u] EXCEPT !.status = w[t].status, !.done = TRUE]
                   ELSE w[u]]
    BY DEF PopGroup, Return, Leading
  <2>2. \A i \in 1..last : i \in 1..Len(writers) /\ writers[i] \in Clients
    BY <2>1, GroupMembers
  <2>3. last \in Nat /\ 1 <= last /\ writers[1] = t
    BY <2>1, GroupMembers
  <2>4. \A u \in Clients : pc'[u] \notin Logging \cup {"pop"}
    <3>1. pc'[t] \notin Logging \cup {"pop"} /\ \A u \in Clients : u # t => pc'[u] = pc[u]
      BY DEF PopGroup, Return, Goto, TypeOK, ThreadsOK, Threads, Logging
    <3> QED BY <2>1, <3>1, OneLeader DEF Leading, Logging
  <2>5. w[t].status = "ok" => \A i \in 1..last : Holds(Readable', OpsOf(w[writers[i]]))
    BY <2>1, <1>AckFacts
  <2> HIDE DEF last
  <2>6. AckedReadable'
    <3>1. Holds(Readable', acked)
      BY <1>AckFacts
    <3>2. w[t].status = "ok" => Holds(Readable', OpsOf(w[t]))
      BY SMTT(30), <2>3, <2>5
    <3> QED BY <2>1, <3>1, <3>2 DEF AckedReadable, Holds, Readable
  <2>7. ASSUME NEW u \in Clients, w'[u].done, w'[u].status = "ok"
        PROVE  Holds(Readable', OpsOf(w'[u]))
    <3> USE <2>7
    <3>1. u # t
      BY <2>1 DEF IdleWriter
    <3>2. CASE u \in served
      <4>1. w'[u] = [w[u] EXCEPT !.status = w[t].status, !.done = TRUE]
        BY <2>1, <3>1, <3>2
      <4>2. w[u] \in WriterType
        BY DEF TypeOK, CallsOK
      <4>3. OpsOf(w'[u]) = OpsOf(w[u]) /\ w'[u].status = w[t].status
        BY SMTT(30), <4>1, <4>2 DEF OpsOf, WriterType
      <4>4. PICK i \in 2..last : u = writers[i]
        BY <3>2
      <4>5. i \in 1..last
        BY SMTT(30), <2>3, <4>4
      <4> QED BY <2>5, <4>3, <4>4, <4>5
    <3>3. CASE u \notin served
      <4>1. w'[u] = w[u]
        BY <2>1, <3>1, <3>3
      <4> QED BY <4>1, <1>AckFacts
    <3> QED BY <3>2, <3>3
  <2> QED BY <2>4, <2>6, <2>7 DEF AckInv, Logging
<1>0. /\ TypeOK /\ QueueInv /\ StoreInv /\ AckInv /\ Readable \subseteq Readable'
      /\ w \in [Clients -> WriterType] /\ Len(writers) \in Nat
  BY SMTT(30), <1>ReadableGrows DEF IInv, TypeOK, CallsOK
<1> USE <1>0
<1>1. CASE AtomicCall \/ BackgroundStep
  <2>1. UNCHANGED <<w, writers, acked>> /\ \A u \in Clients : pc'[u] = pc[u]
    BY <1>1, AtomicFrame, BackgroundFrame, ClientsAssumption DEF threadVars, historyVars, TypeOK, ThreadsOK, Threads
  <2>2. AckedReadable'
    BY <2>1, <1>AckFacts DEF AckedReadable, Readable
  <2>3. ASSUME NEW u \in Clients, pc[u] \in {"append", "sync", "insert", "relock"}
        PROVE  \A i \in 1..w[u].last : OpsOf(w[writers[i]]) \subseteq w[u].updates.ops
    BY <2>3, GroupLogged
  <2> QED BY <2>1, <2>2, <2>3, <1>AckFacts DEF AckInv
<1>2. ASSUME NEW t \in Clients, CallStep(t) PROVE AckInv'
  <2>0. w[t] \in WriterType /\ w = [w EXCEPT ![t] = w[t]]
    OBVIOUS
  <2>a. pc[t] \in Leading => w[t].last \in Nat /\ w[t].last <= Len(writers)
    BY GroupMembers
  <2>1. CASE Push(t) \/ ReturnServed(t) \/ PopGroup(t)
    BY <2>1, <1>AckPush, <1>AckServed, <1>AckPop
  <2>2. CASE \E v, label : Quiet(t, v, label)
    <3>1. PICK v, label : Quiet(t, v, label)
      BY <2>2
    <3>2. label \in Logging =>
            \A i \in 1..v.last : OpsOf(w[writers[i]]) \subseteq v.updates.ops
      BY <3>1 DEF Quiet, AckInv, Logging
    <3>3. label = "relock" /\ v.status = "ok" => Holds(Readable', v.updates.ops)
      BY <3>1, <1>AckFacts DEF Quiet, Logging
    <3>4. label = "pop" /\ v.status = "ok" =>
            \A i \in 1..v.last : Holds(Readable', OpsOf(w[writers[i]]))
      <4>1. CASE v = w[t] /\ pc[t] = "pop"
        BY <4>1, <1>AckFacts
      <4>2. CASE v = w[t] /\ pc[t] = "group" /\ v.batch = 0
        <5>1. v.last = 1 /\ writers[1] = t /\ w[t].n = 0
          BY <4>2 DEF QueueInv, Grouped, Leading, TypeOK, CallsOK
        <5> USE <5>1
        <5>2. OpsOf(w[t]) = {}
          BY SMTT(30) DEF OpsOf
        <5>3. Holds(Readable', OpsOf(w[t]))
          BY <5>2 DEF Holds
        <5>4. 1..v.last = {1}
          BY SMTT(30)
        <5> QED BY <5>3, <5>4
      <4> QED BY <3>1, <4>1, <4>2 DEF Quiet
    <3>5. label \in Logging \cup {"pop"} => v.last \in Nat /\ v.last <= Len(writers)
      <4>1. w'[t] = v /\ pc'[t] = label /\ writers' = writers /\ v \in WriterType
        BY <3>1 DEF Quiet, TypeOK, ThreadsOK, Threads
      <4>2. QueueInv'
        BY QueueStep
      <4> QED BY <4>1, <4>2 DEF QueueInv, Leading, Logging, WriterType
    <3> QED BY <3>1, <3>2, <3>3, <3>4, <3>5, <1>AckKept DEF Quiet
  <2>3. CASE FormGroup(t) /\ w[t].batch # 0
    <3>1. PICK g \in 1..Len(writers) :
            w' = [w EXCEPT ![t].last = g,
                           ![t].updates = [seq |-> lastSequence + 1,
                                           ops |-> UNION {OpsOf(w[writers[i]]) : i \in 1..g}]]
      BY <2>3 DEF FormGroup
    <3> DEFINE v == [w[t] EXCEPT !.last = g,
                       !.updates = [seq |-> lastSequence + 1,
                                    ops |-> UNION {OpsOf(w[writers[i]]) : i \in 1..g}]]
    <3>2. /\ v.batch = w[t].batch /\ v.n = w[t].n /\ v.done = w[t].done /\ v.status = w[t].status
          /\ v.last = g
          /\ v.updates.ops = UNION {OpsOf(w[writers[i]]) : i \in 1..g}
      BY <2>0 DEF WriterType
    <3> USE <3>2
    <3>3. w' = [w EXCEPT ![t] = v]
      BY <3>1
    <3> HIDE DEF v
    <3>4. v.last \in Nat /\ v.last <= Len(writers)
      BY SMTT(30)
    <3>5. \A i \in 1..v.last : OpsOf(w[writers[i]]) \subseteq v.updates.ops
      OBVIOUS
    <3>6. pc' = [pc EXCEPT ![t] = "append"] /\ UNCHANGED <<writers, acked>>
      BY <2>3 DEF FormGroup, Goto, coreVars, historyVars
    <3> QED BY <3>3, <3>4, <3>5, <3>6, <1>AckKept
  <2>4. CASE \E opened \in BOOLEAN : SwitchMemTable(t, opened)
    <3>1. /\ w' = [w EXCEPT ![t] = [w[t] EXCEPT !.force = FALSE]] /\ pc[t] = "room"
          /\ pc' = [pc EXCEPT ![t] = "room"] /\ UNCHANGED <<writers, acked>>
      BY <2>4 DEF SwitchMemTable, InRoom, threadVars, historyVars, TypeOK, ThreadsOK, Threads
    <3> DEFINE v == [w[t] EXCEPT !.force = FALSE]
    <3>2. /\ v.batch = w[t].batch /\ v.n = w[t].n /\ v.done = w[t].done /\ v.status = w[t].status
          /\ v.last = w[t].last
      BY <2>0 DEF WriterType
    <3> HIDE DEF v
    <3>3. w' = [w EXCEPT ![t] = v]
      BY <3>1 DEF v
    <3> QED BY <2>a, <3>1, <3>2, <3>3, <1>AckKept DEF Logging, Leading
  <2>5. CASE \E ok \in BOOLEAN : SyncLog(t, ok)
    <3>1. PICK ok \in BOOLEAN : SyncLog(t, ok)
      BY <2>5
    <3> DEFINE error == ~ok /\ EnvReports
               st == IF error THEN "error" ELSE "ok"
               label == IF error THEN "relock" ELSE "insert"
               v == [w[t] EXCEPT !.status = st, !.syncError = error]
    <3>2. /\ w' = [w EXCEPT ![t] = v] /\ pc[t] = "sync" /\ pc[t] \in Leading
          /\ pc' = [pc EXCEPT ![t] = label] /\ UNCHANGED <<writers, acked>>
      BY <3>1 DEF SyncLog, Goto, historyVars, Leading
    <3> USE <3>2
    <3>3. /\ v.batch = w[t].batch /\ v.n = w[t].n /\ v.done = w[t].done /\ v.status = st
          /\ v.last = w[t].last /\ v.updates = w[t].updates
      BY <2>0 DEF WriterType
    <3>4. (label = "relock" => st # "ok") /\ label # "pop"
      OBVIOUS
    <3>5. ~w[t].done
      BY DEF QueueInv
    <3>6. \A i \in 1..w[t].last : OpsOf(w[writers[i]]) \subseteq w[t].updates.ops
      BY GroupLogged
    <3> HIDE DEF v, st, label
    <3> QED BY <2>a, <3>3, <3>4, <3>5, <3>6, <1>AckKept
  <2>6. CASE \E ok, landed \in BOOLEAN : AppendLog(t, ok, landed)
    <3>1. PICK ok \in BOOLEAN, landed \in BOOLEAN : AppendLog(t, ok, landed)
      BY <2>6
    <3> DEFINE st == IF ok THEN "ok" ELSE "error"
               label == IF ~ok THEN "relock" ELSE IF w[t].sync THEN "sync" ELSE "insert"
               v == [w[t] EXCEPT !.status = st]
    <3>2. /\ w' = [w EXCEPT ![t] = v] /\ pc[t] = "append" /\ pc[t] \in Leading
          /\ pc' = [pc EXCEPT ![t] = label] /\ UNCHANGED <<writers, acked>>
      BY <3>1 DEF AppendLog, Goto, historyVars, Leading
    <3> USE <3>2
    <3>3. /\ v.batch = w[t].batch /\ v.n = w[t].n /\ v.done = w[t].done /\ v.status = st
          /\ v.last = w[t].last /\ v.updates = w[t].updates
      BY <2>0 DEF WriterType
    <3>4. (label = "relock" => st # "ok") /\ label # "pop"
      OBVIOUS
    <3>5. ~w[t].done
      BY DEF QueueInv
    <3>6. \A i \in 1..w[t].last : OpsOf(w[writers[i]]) \subseteq w[t].updates.ops
      BY GroupLogged
    <3> HIDE DEF v, st, label
    <3> QED BY <2>a, <3>3, <3>4, <3>5, <3>6, <1>AckKept
  <2>7. CASE InsertMem(t)
    <3>1. /\ w' = [w EXCEPT ![t] = w[t]] /\ pc[t] = "insert" /\ pc[t] \in Leading
          /\ pc' = [pc EXCEPT ![t] = "relock"] /\ UNCHANGED <<writers, acked>>
          /\ mem' = mem \cup (IF w[t].updates.ops = {} THEN {} ELSE {w[t].updates})
      BY <2>0, <2>7 DEF InsertMem, Goto, historyVars, Leading
    <3> USE <3>1
    <3>2. Holds(Readable', w[t].updates.ops)
      BY DEF Holds, Readable
    <3>3. \A i \in 1..w[t].last : OpsOf(w[writers[i]]) \subseteq w[t].updates.ops
      BY GroupLogged
    <3> QED BY <2>a, <3>2, <3>3, <1>AckKept
  <2>8. CASE Complete(t)
    <3>1. /\ w' = [w EXCEPT ![t] = w[t]] /\ pc[t] = "relock" /\ pc[t] \in Leading
          /\ pc' = [pc EXCEPT ![t] = "pop"] /\ UNCHANGED <<writers, acked>>
      BY <2>0, <2>8 DEF Complete, Goto, historyVars, Leading
    <3> USE <3>1
    <3>2. w[t].status = "ok" => Holds(Readable', w[t].updates.ops)
      BY <1>AckFacts
    <3>3. \A i \in 1..w[t].last : OpsOf(w[writers[i]]) \subseteq w[t].updates.ops
      BY GroupLogged
    <3>4. w[t].status = "ok" => \A i \in 1..w[t].last : Holds(Readable', OpsOf(w[writers[i]]))
      BY <3>2, <3>3, HoldsFewer
    <3> QED BY <2>a, <3>4, <1>AckKept DEF Logging
  <2> QED BY <1>2, <2>1, <2>2, <2>3, <2>4, <2>5, <2>6, <2>7, <2>8, ClientCases
<1> QED BY <1>1, <1>2, StepKinds
-----------------------------------------------------------------------------
\* The state DB::Open leaves.
LEMMA InitCore == ASSUME Init PROVE TypeOK /\ QueueInv /\ StoreInv /\ AckInv
\* The state DB::Open leaves is well typed.
<1>InitType. TypeOK
  <2>1. ThreadsOK
    BY DEF Init, ThreadsOK, Threads, ClientLabels, BGLabels
  <2>2. CallsOK
    <3>1. w \in [Clients -> WriterType] /\ range \in [Clients -> RangeType] /\ bg \in BGType
      BY IdleTypes DEF Init
    <3>2. \A t \in Clients : w[t].n = 0
      BY DEF Init, IdleWriter
    <3> QED BY SMTT(30), <3>1, <3>2 DEF Init, CallsOK
  <2>3. StoreOK
    BY DEF Init, StoreOK
  <2>4. FlagsOK
    BY DEF Init, FlagsOK
  <2>5. HistoryOK
    <3>1. budget \in [Items -> Nat]
      BY BoundsAssumption DEF Init, Items, Bound
    <3> QED BY SMTT(30), <3>1 DEF Init, HistoryOK, Batch
  <2> QED BY <2>1, <2>2, <2>3, <2>4, <2>5 DEF TypeOK
<1>1. TypeOK
  BY <1>InitType
<1>2. \A t \in Clients : pc[t] = "idle" /\ w[t] = IdleWriter
  BY DEF Init, Threads
<1> USE <1>2
<1>3. QueueInv
  <2>1. /\ Len(writers) = 0 /\ cvWait = {}
        /\ \A t \in Clients : ~InQueue(t) /\ pc[t] \notin Leading
        /\ ~IdleWriter.done /\ IdleWriter.last = 1
    BY DEF Init, InQueue, Leading, IdleWriter
  <2> QED BY SMTT(30), <2>1 DEF QueueInv, NoLostWakeup
<1>4. StoreInv
  <2>1. /\ mem = {} /\ Imm = {} /\ versions.tables = {} /\ versions.log = 1 /\ versions.l0 = 0
        /\ manifest.log = 1 /\ manifest.tables = {} /\ logfileNumber = 1
        /\ bg.editLog = 0 /\ bg.k = 0 /\ pc[BG] = "idle"
    BY DEF Init, Imm, IdleBG, Threads
  <2> QED BY SMTT(30), <2>1 DEF StoreInv, Flushing
<1>5. AckInv
  BY DEF Init, AckInv, AckedReadable, Holds, IdleWriter
<1> QED BY <1>1, <1>3, <1>4, <1>5

\* Every step preserves these parts of the inductive invariant.
LEMMA CoreStep ==
  ASSUME IInv, [Next]_vars
  PROVE  TypeOK' /\ QueueInv' /\ StoreInv' /\ AckInv'
BY TypeStep, QueueStep, StoreInvStep, AckStep DEF IInv
-----------------------------------------------------------------------------
(***************************************************************************)
(* mutex_ and the flags.                                                   *)
(***************************************************************************)
\* What a call changes of bg_error_ and of the schedule.
LEMMA ClientFlags ==
  ASSUME TypeOK, NEW t \in Clients, CallStep(t)
  PROVE  /\ RequestManual(t) \/ EndManual(t) \/ UNCHANGED manual
         /\ Close(t) \/ UNCHANGED <<suspending, shuttingDown>>
         /\ Complete(t) \/ UNCHANGED errorVars
         /\ \/ RequestManual(t) \/ UNCHANGED scheduled
            \/ \E opened \in BOOLEAN : SwitchMemTable(t, opened)
<1> USE DEF coreVars, flagVars
<1>1. CASE \/ Relock(t) \/ SpuriousWakeup(t) \/ WaitTurn(t) \/ RoomReady(t) \/ RoomWait(t)
           \/ WaitFlushed(t) \/ Flushed(t) \/ RequestManual(t) \/ WaitManual(t)
           \/ WaitClosed(t) \/ Closed(t) \/ Close(t)
  BY <1>1 DEF Relock, SpuriousWakeup, WaitTurn, RoomReady, RoomWait, WaitFlushed, Flushed,
              RequestManual, WaitManual, WaitClosed, Closed, Close, WaitForBackground
<1>2. CASE \/ \E n \in BatchSizes, sync \in BOOLEAN : Write(t, n, sync)
           \/ \E levels \in 1..MaxManualLevels : CompactRange(t, levels)
           \/ Lead(t) \/ RoomError(t) \/ RoomDelay(t) \/ EndManual(t)
           \/ FormGroup(t) \/ ReturnServed(t) \/ PopGroup(t)
  BY <1>2 DEF Write, CompactRange, Lead, RoomError, RoomDelay, EndManual, FormGroup, ReturnServed,
              PopGroup
<1>3. CASE \/ \E ok \in BOOLEAN : SyncLog(t, ok)
           \/ \E ok, landed \in BOOLEAN : AppendLog(t, ok, landed)
           \/ \E opened \in BOOLEAN : SwitchMemTable(t, opened)
           \/ InsertMem(t) \/ Complete(t)
  BY <1>3 DEF SyncLog, AppendLog, SwitchMemTable, InsertMem, Complete
<1> QED BY <1>1, <1>2, <1>3 DEF CallStep, ClientStep
-----------------------------------------------------------------------------
(***************************************************************************)
(* Level0Bounded.                                                          *)
(***************************************************************************)
LEMMA Level0Step == ASSUME TypeOK, StoreInv, Level0Bounded, [Next]_vars PROVE Level0Bounded'
<1>0. versions.l0 \in Nat /\ bg.k \in Nat /\ StopTrigger \in Nat
  BY TriggersAssumption DEF TypeOK, StoreOK, CallsOK, BGType
<1>1. CASE AtomicCall
  <2>1. UNCHANGED imm /\ versions'.l0 = versions.l0
    BY <1>1, AtomicFrame DEF storeVars, TypeOK, StoreOK
  <2> QED BY <2>1 DEF Level0Bounded
<1>2. ASSUME NEW t \in Clients, CallStep(t) PROVE Level0Bounded'
  <2>1. versions' = versions
    BY <1>2, ClientFrame
  <2>2. CASE imm' = imm
    BY <2>1, <2>2 DEF Level0Bounded
  <2>3. CASE \E opened \in BOOLEAN : SwitchMemTable(t, opened)
    BY SMTT(30), <1>0, <2>1, <2>3 DEF SwitchMemTable, NoSwitch, Level0Bounded
  <2>4. CASE \/ \E ok \in BOOLEAN : SyncLog(t, ok)
             \/ \E ok, landed \in BOOLEAN : AppendLog(t, ok, landed)
             \/ InsertMem(t) \/ Complete(t)
    BY <2>2, <2>4 DEF SyncLog, AppendLog, InsertMem, Complete
  <2> QED BY <1>2, <2>2, <2>3, <2>4, ClientStore DEF storeVars
<1>3. CASE BackgroundStep
  <2>1. CASE UNCHANGED <<imm, versions>>
    BY <2>1 DEF Level0Bounded
  <2>2. CASE \E ok, landed \in BOOLEAN : FlushManifest(ok, landed) \/ InstallManifest(ok, landed)
    BY <2>1, <2>2 DEF FlushManifest, InstallManifest, storeVars
  <2>3. CASE FlushInstalled
    <3>1. CASE UNCHANGED <<storeVars, diskVars>>
      BY <2>1, <3>1 DEF storeVars, diskVars
    <3>2. CASE ~UNCHANGED <<storeVars, diskVars>>
      <4>1. PICK level0, deep \in BOOLEAN :
              versions' = [log |-> bg.editLog, tables |-> versions.tables \cup imm,
                           l0 |-> versions.l0 + (IF level0 THEN 1 ELSE 0), deep |-> deep]
        BY <2>3, <3>2 DEF FlushInstalled
      <4>2. imm # NoImm /\ imm' = NoImm
        BY <2>3, <3>2 DEF FlushInstalled, StoreInv, Flushing
      <4> QED BY SMTT(30), <1>0, <4>1, <4>2 DEF Level0Bounded
    <3> QED BY <3>1, <3>2
  <2>4. CASE CompactionInstalled
    <3>1. imm' = imm /\ bg.k <= versions.l0
      BY <2>4 DEF CompactionInstalled, StoreInv
    <3>2. versions' = versions
          \/ \E deep \in BOOLEAN : versions' = [versions EXCEPT !.l0 = versions.l0 - bg.k, !.deep = deep]
      BY <2>4 DEF CompactionInstalled, diskVars
    <3>3. versions'.l0 \in {versions.l0, versions.l0 - bg.k}
      BY <3>2 DEF TypeOK, StoreOK
    <3> QED BY SMTT(30), <1>0, <3>1, <3>3 DEF Level0Bounded
  <2> QED BY <1>3, <2>1, <2>2, <2>3, <2>4, BackgroundStore DEF storeVars, diskVars
<1> QED BY <1>1, <1>2, <1>3, StepKinds
-----------------------------------------------------------------------------
(***************************************************************************)
(* CallInv: the calls in progress and the waiters of bg_cv_.               *)
(***************************************************************************)
\* What the background thread changes of the schedule and of the manual request.
LEMMA BackgroundFlags ==
  ASSUME TypeOK, BackgroundStep
  PROVE  /\ BGTail \/ UNCHANGED scheduled
         /\ manual' = NULL \/ UNCHANGED <<manual, range>>
         /\ pc[BG] = "idle" => scheduled
<1> USE DEF coreVars, flagVars
<1>1. CASE Relock(BG) \/ BGStart \/ BGNothing \/ BGManualDone \/ BGTail
  <2>1. CASE Relock(BG)
    BY <2>1 DEF Relock, Locking
  <2>2. CASE BGStart \/ BGNothing
    BY <2>2 DEF BGStart, BGNothing
  <2>3. CASE BGManualDone
    BY <2>3 DEF BGManualDone, BGDispatch
  <2>4. CASE BGTail
    BY <2>4 DEF BGTail
  <2> QED BY <1>1, <2>1, <2>2, <2>3, <2>4
<1>2. CASE BGCompactMemTable \/ BGManual \/ \E label \in {"compact", "install"} : BGPick(label)
  BY <1>2 DEF BGCompactMemTable, BGManual, BGPick, BGDispatch, Begin
<1>3. CASE FlushApply \/ FlushFailed \/ FlushInstalled \/ CompactPrioritizeImm
  BY <1>3 DEF FlushApply, FlushFailed, FlushInstalled, FlushReturn, CompactPrioritizeImm
<1>4. CASE CompactionApply \/ CompactionFailed \/ CompactionInstalled
  <2>1. pc[BG] # "idle" /\ UNCHANGED scheduled
    BY <1>4 DEF CompactionApply, CompactionFailed, CompactionInstalled, CompactionReturn
  <2>2. CASE CompactionApply
    BY <2>1, <2>2 DEF CompactionApply
  <2>3. CASE CompactionFailed \/ CompactionInstalled
    <3>1. \E ok \in BOOLEAN : CompactionReturn(ok)
      BY <2>3 DEF CompactionFailed, CompactionInstalled, TypeOK, CallsOK, BGType
    <3>2. bg.manual => manual' = NULL
      BY <3>1 DEF CompactionReturn
    <3>3. ~bg.manual => UNCHANGED <<manual, range>>
      BY <3>1 DEF CompactionReturn
    <3> QED BY <2>1, <3>2, <3>3
  <2> QED BY <1>4, <2>2, <2>3
<1>5. CASE \/ \E ok \in BOOLEAN : BuildTable(ok) \/ CompactDone(ok)
           \/ \E ok, landed \in BOOLEAN : FlushManifest(ok, landed) \/ InstallManifest(ok, landed)
  BY <1>5 DEF BuildTable, CompactDone, FlushManifest, InstallManifest
<1> QED BY <1>1, <1>2, <1>3, <1>4, <1>5 DEF BackgroundStep

LEMMA CallStepInv == ASSUME TypeOK, QueueInv, StoreInv, AckInv, Counted, CallInv, [Next]_vars PROVE CallInv'
\* A step inside Write or CompactRange that leaves the schedule alone.
<1>CallKept. ASSUME NEW t \in Clients, ~shuttingDown, mutex = t \/ pc[t] # "room",
                    pc[t] \notin Ending \cup {"ranging"} /\ (pc[t] = "flushing" => mutex = t), NEW label,
                    pc' = [pc EXCEPT ![t] = label], label \notin Ending, bgWait' \subseteq bgWait,
                    mutex' \in {mutex, NULL, t}, UNCHANGED <<shuttingDown, scheduled, manual>>,
                    \A u \in Clients : u # t => range'[u] = range[u]
             PROVE  CallInv'
  <2> USE <1>CallKept
  <2>1. /\ \A u \in Clients : u # t => pc'[u] = pc[u]
        /\ pc'[t] = label /\ pc'[BG] = pc[BG] /\ manual \in Clients \cup {NULL}
        /\ bgWait \subseteq Clients
    BY ClientsAssumption DEF TypeOK, ThreadsOK, Threads, FlagsOK
  <2> USE <2>1
  <2>2. t \notin bgWait /\ manual # t
    BY SMTT(30), NullAssumption, ClientsAssumption DEF CallInv, Ending
  <2>3. \A u \in bgWait' : pc'[u] \in {"room", "flushing", "ranging", "closing"} /\ mutex' # u
    BY <2>2, ClientsAssumption DEF CallInv
  <2>4. manual' # NULL => pc'[manual'] = "ranging" /\ ~range'[manual'].done
    BY <2>2 DEF CallInv
  <2>5. \A u \in Clients : pc'[u] \in Ending => u # t /\ pc[u] = pc'[u]
    OBVIOUS
  <2>6. /\ pc'[BG] # "idle" => scheduled'
        /\ \A u \in Clients : pc'[u] \in Ending => shuttingDown'
        /\ \A u, v \in Clients : pc'[u] \in Ending /\ pc'[v] \in Ending => u = v
        /\ \A u \in Clients : pc'[u] = "closed" => ~scheduled'
    BY <2>5 DEF CallInv, Ending
  <2> QED BY <2>3, <2>4, <2>6 DEF CallInv
\* A wait on bg_cv_ begins, a wait ends, or mutex_ is taken: nothing else changes.
<1>CallWait. ASSUME NEW t \in Clients, UNCHANGED <<pc, shuttingDown, scheduled, manual, range>>,
                    \/ bgWait' \subseteq bgWait /\ mutex' = mutex
                    \/ bgWait' \subseteq bgWait /\ mutex' \in {NULL, BG}
                    \/ bgWait' = bgWait /\ mutex' = t /\ t \notin bgWait
                    \/ /\ bgWait' = bgWait \cup {t} /\ mutex' = NULL
                       /\ pc[t] \in {"room", "flushing", "ranging", "closing"}
             PROVE  CallInv'
  <2> USE <1>CallWait
  <2>1. \A u \in bgWait' : pc[u] \in {"room", "flushing", "ranging", "closing"} /\ mutex' # u
    BY SMTT(30), ClientsAssumption DEF CallInv, TypeOK, ThreadsOK
  <2> QED BY <2>1 DEF CallInv
\* MaybeScheduleCompaction schedules nothing once the destructor runs.
<1>ScheduleFacts. ASSUME NEW already \in BOOLEAN, MaybeScheduleCompaction(already)
                  PROVE  /\ already => scheduled'
                         /\ shuttingDown => scheduled' = already
  BY <1>ScheduleFacts DEF MaybeScheduleCompaction
<1>CallClient. ASSUME NEW t \in Clients, CallStep(t) PROVE CallInv'
  <2> USE <1>CallClient
  <2>0. /\ TypeOK /\ QueueInv /\ w \in [Clients -> WriterType] /\ range \in [Clients -> RangeType]
        /\ scheduled \in BOOLEAN
    BY DEF IInv, TypeOK, CallsOK, FlagsOK
  <2>1. /\ pc[t] \notin {"idle"} \cup Ending => ~shuttingDown
        /\ t \in bgWait => mutex # t
        /\ pc[t] \in ClientLabels
    BY <2>0 DEF CallInv, TypeOK, ThreadsOK
  <2>2. CASE Relock(t) \/ SpuriousWakeup(t) \/ WaitTurn(t)
    <3>1. /\ UNCHANGED <<pc, shuttingDown, scheduled, manual, range>>
          /\ \/ bgWait' \subseteq bgWait /\ mutex' = mutex
             \/ bgWait' \subseteq bgWait /\ mutex' \in {NULL, BG}
             \/ bgWait' = bgWait /\ mutex' = t /\ t \notin bgWait
      BY <2>2 DEF Relock, SpuriousWakeup, WaitTurn, coreVars, flagVars
    <3> QED BY <2>0, <3>1, <1>CallWait
  <2>3. CASE RoomWait(t) \/ WaitFlushed(t) \/ WaitManual(t) \/ WaitClosed(t)
    <3>1. /\ UNCHANGED <<pc, shuttingDown, scheduled, manual, range>>
          /\ bgWait' = bgWait \cup {t} /\ mutex' = NULL
          /\ pc[t] \in {"room", "flushing", "ranging", "closing"}
      BY <2>3 DEF RoomWait, InRoom, WaitFlushed, WaitManual, RangeLoop, WaitClosed, WaitForBackground,
           coreVars, flagVars
    <3> QED BY <2>0, <3>1, <1>CallWait
  <2>4. CASE \/ Push(t) \/ ReturnServed(t) \/ PopGroup(t) \/ Lead(t) \/ RoomError(t) \/ RoomDelay(t)
             \/ RoomReady(t) \/ FormGroup(t) \/ InsertMem(t) \/ Complete(t) \/ Flushed(t)
             \/ \E ok \in BOOLEAN : SyncLog(t, ok)
             \/ \E ok, landed \in BOOLEAN : AppendLog(t, ok, landed)
    <3> USE <2>4
    <3>1. /\ ~shuttingDown
          /\ mutex = t \/ pc[t] # "room"
          /\ pc[t] \notin Ending \cup {"ranging"} /\ (pc[t] = "flushing" => mutex = t)
      <4>1. CASE Push(t)
        BY <4>1 DEF Push, Write, CompactRange, Ending
      <4>2. CASE ~Push(t)
        <5>1. /\ pc[t] \in Leading \cup {"queued", "flushing"}
              /\ pc[t] \in {"room", "flushing"} => mutex = t
          BY <4>2 DEF ReturnServed, PopGroup, Lead, RoomError, RoomDelay, RoomReady, InRoom,
               FormGroup, InsertMem, Complete, Flushed, SyncLog, AppendLog, Leading
        <5> QED BY <2>1, <5>1 DEF Leading, Ending
      <4> QED BY <4>1, <4>2
    <3>2. PICK label \in ClientLabels : pc' = [pc EXCEPT ![t] = label]
      BY <2>0, ClientFrame
    <3>3. pc'[t] \notin Ending
      <4>1. CASE Push(t) \/ ReturnServed(t) \/ PopGroup(t)
        BY <2>0, <4>1 DEF Push, Write, CompactRange, ReturnServed, PopGroup, Return, Goto, TypeOK, ThreadsOK,
             Threads, Ending
      <4>2. CASE ~(Push(t) \/ ReturnServed(t) \/ PopGroup(t))
        BY <2>0, <4>2 DEF Lead, RoomError, RoomDelay, RoomReady, FormGroup, InsertMem, Complete, Flushed,
             SyncLog, AppendLog, Goto, TypeOK, ThreadsOK, Threads, Ending, InRoom
      <4> QED BY <4>1, <4>2
    <3>4. label \notin Ending
      BY <2>0, <3>2, <3>3 DEF TypeOK, ThreadsOK, Threads
    <3>5. /\ bgWait' \subseteq bgWait
          /\ UNCHANGED <<shuttingDown, scheduled, manual>>
          /\ \A u \in Clients : u # t => range'[u] = range[u]
      <4>1. CASE Push(t)
        BY <2>0, <4>1 DEF Push, Write, CompactRange, coreVars, flagVars
      <4>2. CASE ~Push(t)
        BY <4>2 DEF ReturnServed, PopGroup, Lead, RoomError, RoomDelay, RoomReady, FormGroup,
             InsertMem, Complete, RecordBackgroundError, Flushed, SyncLog, AppendLog, coreVars, flagVars
      <4> QED BY <4>1, <4>2
    <3>6. mutex' \in {mutex, NULL, t}
      BY <2>0, ClientFrame
    <3> QED BY <2>0, <3>1, <3>2, <3>4, <3>5, <3>6, <1>CallKept
  <2>5. CASE RequestManual(t) \/ \E opened \in BOOLEAN : SwitchMemTable(t, opened)
    <3>1. /\ UNCHANGED <<threadVars, shuttingDown, range>> /\ ~shuttingDown /\ (scheduled => scheduled')
      <4>1. pc[t] \in {"ranging", "room"} /\ MaybeScheduleCompaction(scheduled)
            /\ UNCHANGED <<threadVars, shuttingDown, range>>
        BY <2>5 DEF RequestManual, RangeLoop, SwitchMemTable, InRoom
      <4>2. ~shuttingDown
        BY <2>1, <4>1 DEF Ending
      <4> QED BY <2>0, <4>1, <4>2, <1>ScheduleFacts
    <3>2. manual' # NULL => pc[manual'] = "ranging" /\ ~range[manual'].done
      BY <2>5 DEF RequestManual, RangeLoop, RangeOver, SwitchMemTable, CallInv
    <3>3. \A u \in Clients : pc[u] \notin Ending
      BY <3>1 DEF CallInv
    <3> QED BY <3>1, <3>2, <3>3 DEF CallInv, threadVars, Ending
  <2>6. CASE EndManual(t)
    <3>1. /\ pc[t] = "ranging" /\ mutex = t /\ mutex' = NULL
          /\ UNCHANGED <<bgWait, shuttingDown, scheduled>>
          /\ manual' = Withdrawn(t)
          /\ \E label \in {"ranging", "idle"} : pc' = [pc EXCEPT ![t] = label]
          /\ \A u \in Clients : u # t => range'[u] = range[u]
      BY <2>0, <2>6 DEF EndManual, Goto, RangeType
    <3> USE <3>1
    <3>2. /\ \A u \in Clients : u # t => pc'[u] = pc[u]
          /\ pc'[t] \in {"ranging", "idle"} /\ pc'[BG] = pc[BG] /\ manual \in Clients \cup {NULL}
          /\ bgWait \subseteq Clients /\ t \notin bgWait /\ ~shuttingDown
      BY <2>0, <2>1, ClientsAssumption DEF TypeOK, ThreadsOK, Threads, FlagsOK, Ending
    <3> USE <3>2
    <3>3. manual' # t /\ (manual' # NULL => manual' = manual)
      BY ClientsAssumption DEF Withdrawn
    <3>4. manual' # NULL => pc'[manual'] = "ranging" /\ ~range'[manual'].done
      BY <3>3 DEF CallInv
    <3>5. \A u \in bgWait' : pc'[u] \in {"room", "flushing", "ranging", "closing"} /\ mutex' # u
      BY ClientsAssumption DEF CallInv
    <3>6. \A u \in Clients : pc'[u] \notin Ending
      BY DEF CallInv, Ending
    <3> QED BY <3>4, <3>5, <3>6 DEF CallInv, Ending
  <2>7. CASE Close(t)
    <3>1. /\ shuttingDown' /\ \A u \in Clients : pc[u] = "idle"
          /\ mutex' = t /\ pc' = [pc EXCEPT ![t] = "closing"]
          /\ UNCHANGED <<bgWait, range, scheduled, manual>>
      BY <2>7 DEF Close, Goto
    <3> USE <3>1
    <3>2. bgWait = {} /\ manual = NULL
      BY <2>0 DEF CallInv, TypeOK, ThreadsOK, FlagsOK
    <3>3. /\ \A u \in Clients : u # t => pc'[u] = "idle"
          /\ pc'[t] = "closing" /\ pc'[BG] = pc[BG]
      BY <2>0, ClientsAssumption DEF TypeOK, ThreadsOK, Threads
    <3> QED BY <3>2, <3>3 DEF CallInv, Ending
  <2>8. CASE Closed(t)
    <3>1. /\ pc[t] = "closing" /\ mutex = t /\ mutex' = NULL /\ ~scheduled
          /\ pc' = [pc EXCEPT ![t] = "closed"]
          /\ UNCHANGED <<bgWait, range, scheduled, shuttingDown, manual>>
      BY <2>8 DEF Closed, Goto, StillWorking, coreVars, flagVars
    <3> USE <3>1
    <3>2. /\ \A u \in Clients : u # t => pc'[u] = pc[u]
          /\ pc'[t] = "closed" /\ pc'[BG] = pc[BG]
      BY <2>0, ClientsAssumption DEF TypeOK, ThreadsOK, Threads
    <3>3. shuttingDown /\ \A u \in Clients : u # t => pc[u] \notin Ending
      BY DEF CallInv, Ending
    <3> USE <3>3
    <3>4. bgWait = {} /\ manual = NULL
      <4>1. \A u \in Clients : pc[u] \in {"idle", "closing", "closed"}
        BY DEF CallInv, Ending
      <4> QED BY <2>0, <4>1 DEF CallInv, TypeOK, ThreadsOK, FlagsOK, Ending
    <3> QED BY <3>2, <3>4 DEF CallInv, Ending
  <2> QED BY <2>2, <2>3, <2>4, <2>5, <2>6, <2>7, <2>8 DEF CallStep, ClientStep, Push
<1>CallBackground. ASSUME BackgroundStep PROVE CallInv'
  <2> USE <1>CallBackground
  <2>0. TypeOK /\ scheduled \in BOOLEAN /\ bgWait \subseteq Clients /\ manual \in Clients \cup {NULL}
    BY DEF IInv, TypeOK, FlagsOK, ThreadsOK
  <2> USE <2>0
  <2>1. /\ UNCHANGED shuttingDown /\ bgWait' \subseteq bgWait /\ mutex' \in {mutex, NULL, BG}
        /\ \A u \in Clients : pc'[u] = pc[u]
    BY BackgroundFrame, ClientsAssumption DEF TypeOK, ThreadsOK, Threads
  <2> USE <2>1
  <2>2. scheduled
    BY BackgroundFlags DEF CallInv
  <2>3. \A u \in Clients : pc'[u] # "closed"
    BY <2>2 DEF CallInv
  <2>4. pc'[BG] # "idle" => scheduled'
    <3>1. CASE BGTail
      BY <3>1 DEF BGTail, Goto, TypeOK, ThreadsOK, Threads
    <3>2. CASE UNCHANGED scheduled
      BY <2>2, <3>2
    <3> QED BY <3>1, <3>2, BackgroundFlags
  <2>5. manual' # NULL => pc'[manual'] = "ranging" /\ ~range'[manual'].done
    BY BackgroundFlags DEF CallInv
  <2>6. \A u \in bgWait' : pc'[u] \in {"room", "flushing", "ranging", "closing"} /\ mutex' # u
    BY ClientsAssumption DEF CallInv
  <2> QED BY <2>3, <2>4, <2>5, <2>6 DEF CallInv
\* SuspendCompaction, ResumeCompaction and reads do not run while the database
\* is being closed.
<1>CallAtomic. ASSUME AtomicCall PROVE CallInv'
  <2> USE <1>CallAtomic
  <2>0. TypeOK /\ scheduled \in BOOLEAN
    BY DEF IInv, TypeOK, FlagsOK
  <2>1. UNCHANGED <<threadVars, range, shuttingDown, manual>>
    BY <2>0, AtomicFrame
  <2>2. scheduled' = scheduled \/ (scheduled' /\ ~shuttingDown)
    <3>1. CASE SeekCompaction
      BY <2>0, <3>1, <1>ScheduleFacts DEF SeekCompaction, MaybeScheduleCompaction
    <3>2. CASE ~SeekCompaction
      BY <3>2 DEF AtomicCall, SuspendCompaction, ResumeCompaction, vars, coreVars, flagVars
    <3> QED BY <3>1, <3>2
  <2> QED BY SMTT(30), <2>1, <2>2 DEF CallInv, threadVars, Ending
<1> QED BY <1>CallClient, <1>CallBackground, <1>CallAtomic, StepKinds

LEMMA CallInit == ASSUME Init PROVE CallInv
BY ClientsAssumption DEF Init, CallInv, Ending, Threads
-----------------------------------------------------------------------------
(***************************************************************************)
(* WorkInv: what is waited for is scheduled.                               *)
(***************************************************************************)
LEMMA WorkStep == ASSUME TypeOK, QueueInv, StoreInv, AckInv, Counted, CallInv, WorkInv, ~suspending, [Next]_vars PROVE WorkInv'
<1>WorkClient. ASSUME NEW t \in Clients, CallStep(t) PROVE WorkInv'
  <2> USE <1>WorkClient
  <2>0. TypeOK /\ scheduled \in BOOLEAN /\ bgWait \subseteq Clients /\ bgError \in BOOLEAN
        /\ versions.l0 \in Nat
    BY DEF IInv, TypeOK, FlagsOK, ThreadsOK, StoreOK
  <2>1. UNCHANGED versions /\ (bgError => bgError') /\ (shuttingDown => shuttingDown')
    <3>1. UNCHANGED versions
      BY <2>0, ClientFrame
    <3>2. bgError => bgError'
      BY <2>0, ClientFlags DEF Complete, RecordBackgroundError, errorVars
    <3>3. shuttingDown => shuttingDown'
      BY <2>0, ClientFlags DEF Close
    <3> QED BY <3>1, <3>2, <3>3
  <2>2. CASE RequestManual(t) \/ \E opened \in BOOLEAN : SwitchMemTable(t, opened)
    <3>1. /\ MaybeScheduleCompaction(scheduled) /\ UNCHANGED <<bgWait, shuttingDown>>
      BY <2>2 DEF RequestManual, SwitchMemTable, threadVars
    <3> QED BY <2>0, <3>1 DEF WorkInv, MaybeScheduleCompaction, NoStrandedWaiter
  <2>3. CASE ~(RequestManual(t) \/ \E opened \in BOOLEAN : SwitchMemTable(t, opened))
    <3> USE <2>3
    <3>1. UNCHANGED <<scheduled, imm>> /\ (manual' # NULL => manual # NULL)
      <4>1. UNCHANGED scheduled
        BY <2>0, ClientFlags
      <4>2. manual' # NULL => manual # NULL
        BY <2>0, ClientFlags DEF EndManual, Withdrawn
      <4>3. UNCHANGED imm
        BY <2>0, ClientStore DEF storeVars, SyncLog, AppendLog, InsertMem, Complete
      <4> QED BY <4>1, <4>2, <4>3
    <3>2. bgWait' \subseteq bgWait \/ scheduled
      <4>1. CASE RoomWait(t)
        <5>1. pc[t] = "room" /\ NoSwitch /\ ~bgError
          BY <4>1 DEF RoomWait, InRoom
        <5> USE <5>1
        <5>2. ~shuttingDown
          BY DEF CallInv, Ending
        <5>3. imm # NoImm \/ NeedsCompaction
          BY SMTT(30), <2>0, TriggersAssumption DEF NoSwitch, NeedsCompaction
        <5> QED BY <5>2, <5>3 DEF WorkInv
      <4>2. CASE WaitFlushed(t) \/ WaitManual(t)
        <5>1. /\ pc[t] \in {"flushing", "ranging"} /\ ~bgError
              /\ imm # NoImm \/ manual # NULL
          BY <4>2 DEF WaitFlushed, WaitManual, RangeLoop, RangeOver
        <5>2. ~shuttingDown
          BY <5>1 DEF CallInv, Ending
        <5> QED BY <5>1, <5>2 DEF WorkInv
      <4>3. CASE WaitClosed(t)
        BY <4>3 DEF WaitClosed, StillWorking
      <4>4. CASE ~(RoomWait(t) \/ WaitFlushed(t) \/ WaitManual(t) \/ WaitClosed(t))
        BY <4>4 DEF CallStep, ClientStep, Relock, SpuriousWakeup, WaitTurn, RoomReady, Flushed, Closed,
             CompactRange, InsertMem, Write, ReturnServed, Lead, RoomError, RoomDelay, EndManual, Close,
             SyncLog, AppendLog, FormGroup, PopGroup, Complete, RecordBackgroundError
      <4> QED BY <4>1, <4>2, <4>3, <4>4
    <3> QED BY <2>0, <2>1, <3>1, <3>2 DEF WorkInv, NoStrandedWaiter, NeedsCompaction
  <2> QED BY <2>2, <2>3
<1>WorkBackground. ASSUME BackgroundStep PROVE WorkInv'
  <2> USE <1>WorkBackground
  <2>0. TypeOK
    BY DEF IInv
  <2>1. scheduled
    BY <2>0, BackgroundFlags DEF CallInv
  <2>2. CASE BGTail
    <3>1. MaybeScheduleCompaction(FALSE) /\ bgWait' = {} /\ UNCHANGED shuttingDown
      BY <2>2 DEF BGTail, Reschedule
    <3> QED BY <3>1 DEF WorkInv, NoStrandedWaiter, MaybeScheduleCompaction
  <2>3. CASE UNCHANGED scheduled
    BY <2>1, <2>3 DEF WorkInv, NoStrandedWaiter
  <2> QED BY <2>0, <2>2, <2>3, BackgroundFlags
<1>WorkAtomic. ASSUME AtomicCall PROVE WorkInv'
  <2> USE <1>WorkAtomic
  <2>0. TypeOK
    BY DEF IInv
  <2>1. UNCHANGED <<threadVars, imm, bgError, shuttingDown, manual>>
    BY <2>0, AtomicFrame DEF storeVars, errorVars
  <2>2. CASE SeekCompaction
    <3>1. MaybeScheduleCompaction(scheduled)
      BY <2>2 DEF SeekCompaction
    <3> QED BY <2>1, <3>1 DEF WorkInv, NoStrandedWaiter, MaybeScheduleCompaction, threadVars
  <2>3. CASE ~SeekCompaction
    <3>1. UNCHANGED <<scheduled, versions>>
      BY <2>3 DEF AtomicCall, SuspendCompaction, ResumeCompaction, vars, coreVars, flagVars, diskVars
    <3> QED BY <2>1, <3>1 DEF WorkInv, NoStrandedWaiter, NeedsCompaction, threadVars
  <2> QED BY <2>2, <2>3
<1> QED BY <1>WorkClient, <1>WorkBackground, <1>WorkAtomic, StepKinds
-----------------------------------------------------------------------------
(***************************************************************************)
(* ManualInv: manual_compaction_ is there when the background thread       *)
(* dereferences it.                                                        *)
(***************************************************************************)
LEMMA ManualStep ==
  ASSUME TypeOK, QueueInv, StoreInv, AckInv, Counted, CallInv, ManualInv, bgError => shuttingDown, [Next]_vars PROVE ManualInv'
<1>ManualClient. ASSUME NEW t \in Clients, CallStep(t) PROVE ManualInv'
  <2> USE <1>ManualClient
  <2>0. TypeOK /\ manual \in Clients \cup {NULL}
    BY DEF IInv, TypeOK, FlagsOK
  <2>1. UNCHANGED bg /\ pc'[BG] = pc[BG]
    BY SMTT(30), <2>0, ClientFrame, ClientsAssumption DEF TypeOK, ThreadsOK, Threads
  <2>2. manual # NULL => manual' # NULL
    <3>1. CASE RequestManual(t)
      BY <3>1, ClientsAssumption DEF RequestManual
    <3>2. CASE EndManual(t)
      <4>1. pc[t] = "ranging" /\ RangeOver(t) /\ manual' = Withdrawn(t)
        BY <3>2 DEF EndManual
      <4>2. ~shuttingDown
        BY <4>1 DEF CallInv, Ending
      <4>3. manual = t => ~range[t].done
        BY ClientsAssumption DEF CallInv
      <4> QED BY <4>1, <4>2, <4>3 DEF RangeOver, Withdrawn
    <3>3. CASE UNCHANGED manual
      BY <3>3
    <3> QED BY <2>0, <3>1, <3>2, <3>3, ClientFlags
  <2> QED BY <2>1, <2>2 DEF ManualInv, ManualStillThere
\* What the background thread does to the request it is working for.
<1>ManualBackground. ASSUME BackgroundStep PROVE ManualInv'
  <2> USE <1>ManualBackground
  <2>0. /\ TypeOK /\ bg \in BGType /\ BG \in Threads
        /\ pc \in [Threads -> ClientLabels \cup BGLabels]
    BY DEF IInv, TypeOK, CallsOK, ThreadsOK, Threads
  <2> USE DEF Goto
  <2>1. CASE Relock(BG)
    BY <2>1 DEF Relock, coreVars, flagVars, ManualInv, ManualStillThere
  <2>2. CASE BGStart \/ BGNothing \/ BGManualDone \/ BGTail
    <3>1. pc'[BG] \in {"call", "tail", "idle"}
      BY <2>0, <2>2 DEF BGStart, BGNothing, BGManualDone, BGTail
    <3> QED BY <3>1 DEF ManualInv, ManualStillThere, Compacting
  <2>3. CASE BGCompactMemTable \/ BGManual \/ \E label \in {"compact", "install"} : BGPick(label)
    <3>1. UNCHANGED manual /\ pc'[BG] \in {"build", "compact", "install"}
      BY <2>0, <2>3 DEF BGCompactMemTable, BGManual, BGPick, Begin, coreVars, flagVars
    <3>2. CASE BGManual
      BY <3>1, <3>2 DEF BGManual, ManualInv, ManualStillThere
    <3>3. CASE BGCompactMemTable \/ \E label \in {"compact", "install"} : BGPick(label)
      <4>1. \E kind, k, label : Begin(kind, k, FALSE, label)
        BY <3>3 DEF BGCompactMemTable, BGPick
      <4>2. ~bg'.manual
        BY <4>1 DEF Begin, IdleBG
      <4> QED BY <3>1, <4>2 DEF ManualInv, ManualStillThere
    <3> QED BY <2>3, <3>2, <3>3
  <2>4. CASE \/ FlushApply \/ FlushFailed \/ FlushInstalled \/ CompactPrioritizeImm \/ CompactionApply
             \/ \E ok \in BOOLEAN : BuildTable(ok) \/ CompactDone(ok)
             \/ \E ok, landed \in BOOLEAN : FlushManifest(ok, landed) \/ InstallManifest(ok, landed)
    <3>1. UNCHANGED manual /\ pc[BG] \in Compacting /\ pc'[BG] \in Compacting \cup {"tail"}
      BY <2>0, <2>4 DEF FlushApply, FlushFailed, FlushInstalled, FlushReturn, CompactPrioritizeImm,
           CompactionApply, BuildTable, CompactDone, FlushManifest, InstallManifest, coreVars, flagVars,
           Compacting, BGLabels
    <3>2. bg'.manual = bg.manual
      <4>1. CASE FlushApply \/ CompactPrioritizeImm \/ CompactionApply
        BY <2>0, <4>1 DEF FlushApply, CompactPrioritizeImm, CompactionApply, BGType
      <4>2. CASE FlushFailed \/ FlushInstalled
        <5>1. bg' = [bg EXCEPT !.nested = FALSE, !.ok = TRUE]
          BY <4>2 DEF FlushFailed, FlushInstalled, FlushReturn
        <5> QED BY <2>0, <5>1 DEF BGType
      <4>3. CASE \/ \E ok \in BOOLEAN : BuildTable(ok) \/ CompactDone(ok)
                 \/ \E ok, landed \in BOOLEAN : FlushManifest(ok, landed) \/ InstallManifest(ok, landed)
        <5>1. PICK ok : bg' = [bg EXCEPT !.ok = ok]
          BY <4>3 DEF BuildTable, CompactDone, FlushManifest, InstallManifest
        <5> QED BY <2>0, <5>1 DEF BGType
      <4> QED BY <2>4, <4>1, <4>2, <4>3
    <3> QED BY <3>1, <3>2 DEF ManualInv, ManualStillThere, Compacting
  <2>5. CASE CompactionFailed \/ CompactionInstalled
    <3>1. pc[BG] \in Compacting
      BY <2>5 DEF CompactionFailed, CompactionInstalled, Compacting, BGLabels
    <3>2. ~(bg.manual /\ manual = NULL)
      BY <3>1 DEF ManualInv
    <3>3. pc'[BG] = "tail"
      BY <2>0, <2>5, <3>2 DEF CompactionFailed, CompactionInstalled, CompactionReturn
    <3> QED BY <3>3 DEF ManualInv, ManualStillThere, Compacting
  <2> QED BY <2>1, <2>2, <2>3, <2>4, <2>5 DEF BackgroundStep
<1>1. CASE AtomicCall
  BY <1>1, AtomicFrame DEF IInv, ManualInv, ManualStillThere, threadVars
<1> QED BY <1>1, <1>ManualClient, <1>ManualBackground, StepKinds
-----------------------------------------------------------------------------
(***************************************************************************)
(* Groups: a writer keeps its batch while it is queued, and a group, once  *)
(* formed, its members.                                                    *)
(***************************************************************************)
Appending(t) == \E ok, landed \in BOOLEAN : AppendLog(t, ok, landed)
SameBatch(u) == w'[u].batch = w[u].batch /\ w'[u].n = w[u].n /\ w'[u].sync = w[u].sync

\* What a step does to a Writer: it is pushed, it returns, it is served, or only
\* the locals of Write change.
LEMMA WriterCases ==
  ASSUME TypeOK, QueueInv, [Next]_vars, NEW u \in Clients
  PROVE  \/ Push(u)
         \/ ReturnServed(u) \/ PopGroup(u)
         \/ \E t \in Clients : /\ PopGroup(t) /\ u # t /\ u \in {writers[i] : i \in 2..w[t].last}
                               /\ SameBatch(u) /\ w'[u].done /\ w'[u].status = w[t].status
         \/ SameBatch(u) /\ w'[u].done = w[u].done /\ (w[u].done => w'[u].status = w[u].status)
<1>0. w \in [Clients -> WriterType] /\ w[u] \in WriterType
  BY DEF TypeOK, CallsOK
<1>1. CASE UNCHANGED w
  BY <1>1 DEF SameBatch
<1>2. ASSUME NEW t \in Clients, CallStep(t), ~UNCHANGED w
      PROVE  \/ Push(u)
             \/ ReturnServed(u) \/ PopGroup(u)
             \/ PopGroup(t) /\ u # t /\ u \in {writers[i] : i \in 2..w[t].last}
                /\ SameBatch(u) /\ w'[u].done /\ w'[u].status = w[t].status
             \/ SameBatch(u) /\ w'[u].done = w[u].done /\ (w[u].done => w'[u].status = w[u].status)
  <2> USE <1>2
  <2>1. CASE PopGroup(t)
    <3> USE <2>1
    <3>1. w' = [v \in Clients |->
                 IF v = t THEN IdleWriter
                 ELSE IF v \in {writers[i] : i \in 2..w[t].last}
                 THEN [w[v] EXCEPT !.status = w[t].status, !.done = TRUE]
                 ELSE w[v]]
      BY DEF PopGroup
    <3>2. CASE u # t /\ u \in {writers[i] : i \in 2..w[t].last}
      <4>1. w'[u] = [w[u] EXCEPT !.status = w[t].status, !.done = TRUE]
        BY <3>1, <3>2
      <4>2. SameBatch(u) /\ w'[u].done /\ w'[u].status = w[t].status
        BY <1>0, <4>1 DEF SameBatch, WriterType
      <4> QED BY <3>2, <4>2
    <3>3. CASE u # t /\ u \notin {writers[i] : i \in 2..w[t].last}
      <4>1. w'[u] = w[u]
        BY <3>1, <3>3
      <4> QED BY <4>1 DEF SameBatch
    <3> QED BY <3>2, <3>3
  <2>2. CASE ~PopGroup(t) /\ u # t
    <3>1. w'[u] = w[u]
      <4>1. PICK v : w' = [w EXCEPT ![t] = v]
        <5>1. CASE \E v, label : Quiet(t, v, label)
          BY <5>1 DEF Quiet
        <5>2. CASE Push(t) \/ ReturnServed(t)
          BY <5>2 DEF Push, Write, CompactRange, ReturnServed
        <5>3. CASE FormGroup(t) /\ w[t].batch # 0
          <6>1. w' = [w EXCEPT ![t] = w'[t]]
            BY <1>0, <5>3 DEF FormGroup
          <6> QED BY <6>1
        <5>4. CASE \/ \E opened \in BOOLEAN : SwitchMemTable(t, opened)
                   \/ \E ok, landed \in BOOLEAN : AppendLog(t, ok, landed)
          <6>1. w' = [w EXCEPT ![t] = w'[t]]
            BY <1>0, <5>4 DEF SwitchMemTable, AppendLog
          <6> QED BY <6>1
        <5>5. CASE \E ok \in BOOLEAN : SyncLog(t, ok)
          <6>1. w' = [w EXCEPT ![t] = w'[t]]
            BY <1>0, <5>5 DEF SyncLog
          <6> QED BY <6>1
        <5>6. CASE InsertMem(t) \/ Complete(t)
          BY <5>6 DEF InsertMem, Complete
        <5> QED BY <2>2, <5>1, <5>2, <5>3, <5>4, <5>5, <5>6, ClientCases
      <4> QED BY <1>0, <2>2, <4>1
    <3> QED BY <3>1 DEF SameBatch
  <2>3. CASE ~PopGroup(t) /\ u = t
    <3> USE <2>3
    <3>1. CASE Push(t) \/ ReturnServed(t)
      BY <3>1
    <3>2. CASE \E v, label : Quiet(t, v, label)
      BY <1>0, <3>2 DEF Quiet, SameBatch
    <3>3. CASE FormGroup(t) /\ w[t].batch # 0
      <4>1. PICK g, x : w' = [w EXCEPT ![t].last = g, ![t].updates = x]
        BY <3>3 DEF FormGroup
      <4>2. w'[t] = [w[t] EXCEPT !.last = g, !.updates = x]
        BY <1>0, <4>1
      <4> QED BY <1>0, <4>2 DEF SameBatch, WriterType
    <3>4. CASE \E opened \in BOOLEAN : SwitchMemTable(t, opened)
      <4>1. w'[t] = [w[t] EXCEPT !.force = FALSE]
        BY <1>0, <3>4 DEF SwitchMemTable
      <4> QED BY <1>0, <4>1 DEF SameBatch, WriterType
    <3>5. CASE \E ok, landed \in BOOLEAN : AppendLog(t, ok, landed)
      <4>1. PICK st : w' = [w EXCEPT ![t].status = st] /\ pc[t] = "append"
        BY <3>5 DEF AppendLog
      <4>2. w'[t] = [w[t] EXCEPT !.status = st] /\ ~w[t].done
        BY <1>0, <4>1 DEF QueueInv
      <4> QED BY <1>0, <4>2 DEF SameBatch, WriterType
    <3>6. CASE \E ok \in BOOLEAN : SyncLog(t, ok)
      <4>1. PICK st, er : w' = [w EXCEPT ![t].status = st, ![t].syncError = er] /\ pc[t] = "sync"
        BY <3>6 DEF SyncLog
      <4>2. w'[t] = [w[t] EXCEPT !.status = st, !.syncError = er] /\ ~w[t].done
        BY <1>0, <4>1 DEF QueueInv
      <4> QED BY <1>0, <4>2 DEF SameBatch, WriterType
    <3>7. CASE InsertMem(t) \/ Complete(t)
      BY <3>7 DEF InsertMem, Complete
    <3> QED BY <3>1, <3>2, <3>3, <3>4, <3>5, <3>6, <3>7, ClientCases
  <2> QED BY <2>1, <2>2, <2>3
<1>3. AtomicCall \/ BackgroundStep => UNCHANGED w
  BY AtomicFrame, BackgroundFrame
<1>4. CASE \E t \in Clients : CallStep(t) /\ ~UNCHANGED w
  <2>1. PICK t \in Clients : CallStep(t) /\ ~UNCHANGED w
    BY <1>4
  <2> QED BY <1>2, <2>1
<1> QED BY <1>1, <1>3, <1>4, StepKinds

\* A Writer in the queue before and after a step holds the same batch.
LEMMA QueuedKept ==
  ASSUME TypeOK, QueueInv, [Next]_vars, NEW u \in Clients, InQueue(u), InQueue(u)'
  PROVE  SameBatch(u)
<1>1. ~Push(u)
  BY DEF Push, Write, CompactRange, InQueue, Leading
<1>2. ~ReturnServed(u)
  BY DEF ReturnServed, InQueue, Leading
<1>3. ~PopGroup(u)
  <2> SUFFICES ASSUME PopGroup(u) PROVE FALSE
    OBVIOUS
  <2>1. pc'[u] \in {"idle", "flushing", "ranging"}
    BY DEF PopGroup, Return, Goto, TypeOK, ThreadsOK, Threads
  <2> QED BY <2>1 DEF InQueue, Leading
<1> QED BY <1>1, <1>2, <1>3, WriterCases

\* The queue is kept, grows at its end, or loses the group of the writer that pops.
LEMMA QueueCases ==
  ASSUME TypeOK, QueueInv, [Next]_vars
  PROVE  \/ UNCHANGED writers
         \/ \E t \in Clients : Push(t) /\ writers' = Append(writers, t)
         \/ \E t \in Clients : PopGroup(t)
<1>1. CASE AtomicCall \/ BackgroundStep
  BY <1>1, AtomicFrame, BackgroundFrame
<1>2. ASSUME NEW t \in Clients, CallStep(t)
      PROVE  UNCHANGED writers \/ (Push(t) /\ writers' = Append(writers, t)) \/ PopGroup(t)
  <2>1. CASE Push(t)
    BY <2>1 DEF Push, Write, CompactRange
  <2>2. CASE \/ \E v, label : Quiet(t, v, label)
    BY <2>2 DEF Quiet
  <2>3. CASE ReturnServed(t) \/ FormGroup(t) \/ InsertMem(t) \/ Complete(t)
    BY <2>3 DEF ReturnServed, FormGroup, InsertMem, Complete
  <2>4. CASE \/ \E opened \in BOOLEAN : SwitchMemTable(t, opened)
             \/ \E ok \in BOOLEAN : SyncLog(t, ok)
             \/ \E ok, landed \in BOOLEAN : AppendLog(t, ok, landed)
    BY <2>4 DEF SwitchMemTable, SyncLog, AppendLog
  <2> QED BY <1>2, <2>1, <2>2, <2>3, <2>4, ClientCases
<1> QED BY <1>1, <1>2, StepKinds

\* Where a writer in a group comes from.
LEMMA GroupedFrom ==
  ASSUME TypeOK, QueueInv, [Next]_vars, NEW u \in Clients, pc'[u] \in Grouped
  PROVE  \/ /\ pc[u] \in Grouped /\ w'[u].last = w[u].last /\ w'[u].updates = w[u].updates
            /\ pc[u] = "pop" => pc'[u] = "pop"
            /\ pc'[u] \in {pc[u], "pop"} => w'[u].status = w[u].status
            /\ pc'[u] = "pop" => pc[u] \in {"relock", "pop"}
         \/ FormGroup(u) /\ w[u].batch # 0 /\ pc'[u] = "append"
         \/ FormGroup(u) /\ w[u].batch = 0 /\ UNCHANGED w /\ pc'[u] = "pop" /\ w[u].last = 1
         \/ RoomError(u) /\ pc'[u] = "pop" /\ w'[u].status = "error" /\ w'[u].last = 1
<1>0. /\ w \in [Clients -> WriterType] /\ w[u] \in WriterType
      /\ pc \in [Threads -> ClientLabels \cup BGLabels] /\ u \in Threads
  BY DEF TypeOK, CallsOK, ThreadsOK, Threads
<1>1. CASE pc'[u] = pc[u] /\ w'[u] = w[u]
  BY <1>1
<1>2. CASE AtomicCall \/ BackgroundStep
  <2>1. UNCHANGED w /\ pc'[u] = pc[u]
    BY <1>0, <1>2, AtomicFrame, BackgroundFrame, ClientsAssumption DEF threadVars, TypeOK, ThreadsOK, Threads
  <2> QED BY <1>1, <2>1
<1>3. ASSUME NEW t \in Clients, CallStep(t), t # u PROVE pc'[u] = pc[u] /\ (PopGroup(t) \/ w'[u] = w[u])
  <2> USE <1>3
  <2>1. pc'[u] = pc[u]
    BY <1>0, ClientFrame
  <2>2. ~PopGroup(t) => w'[u] = w[u]
    <3>1. CASE \E v, label : Quiet(t, v, label)
      BY <1>0, <3>1 DEF Quiet
    <3>2. CASE Push(t) \/ ReturnServed(t)
      BY <1>0, <3>2 DEF Push, Write, CompactRange, ReturnServed
    <3>3. CASE FormGroup(t) \/ InsertMem(t) \/ Complete(t)
      BY <1>0, <3>3 DEF FormGroup, InsertMem, Complete
    <3>4. CASE \/ \E opened \in BOOLEAN : SwitchMemTable(t, opened)
               \/ \E ok \in BOOLEAN : SyncLog(t, ok)
               \/ \E ok, landed \in BOOLEAN : AppendLog(t, ok, landed)
      BY <1>0, <3>4 DEF SwitchMemTable, SyncLog, AppendLog
    <3> QED BY <3>1, <3>2, <3>3, <3>4, ClientCases
  <2> QED BY <2>1, <2>2
<1>4. ASSUME NEW t \in Clients, PopGroup(t), t # u PROVE FALSE
  <2> USE <1>4
  <2>1. pc[t] = "pop" /\ CallStep(t)
    BY DEF PopGroup, CallStep, ClientStep
  <2>2. pc[u] \in Leading
    BY <1>3, <2>1 DEF Grouped, Leading
  <2>3. pc[t] \in Leading
    BY <2>1 DEF Leading
  <2> QED BY <2>2, <2>3, OneLeader
<1>5. CASE CallStep(u)
  <2>1. CASE Push(u) \/ ReturnServed(u) \/ PopGroup(u)
    BY <1>0, <2>1 DEF Push, Write, CompactRange, ReturnServed, PopGroup, Return, Goto, Grouped
  <2>2. CASE RoomError(u)
    <3>1. pc'[u] = "pop" /\ w'[u].status = "error" /\ w'[u].last = w[u].last /\ pc[u] = "room"
      BY <1>0, <2>2 DEF RoomError, Goto, WriterType
    <3>2. w[u].last = 1
      BY <3>1 DEF QueueInv, Grouped
    <3> QED BY <2>2, <3>1, <3>2
  <2>3. CASE FormGroup(u)
    <3> USE <2>3
    <3>1. CASE w[u].batch # 0
      BY <1>0, <3>1 DEF FormGroup, Goto
    <3>2. CASE w[u].batch = 0
      <4>1. pc'[u] = "pop" /\ UNCHANGED w /\ pc[u] = "group"
        BY <1>0, <3>2 DEF FormGroup, Goto
      <4>2. w[u].last = 1
        BY <4>1 DEF QueueInv, Grouped
      <4> QED BY <3>2, <4>1, <4>2
    <3> QED BY <3>1, <3>2
  <2>4. CASE InsertMem(u) \/ Complete(u)
    <3>1. UNCHANGED w /\ pc[u] \in {"insert", "relock"} /\ (pc'[u] = "pop" => pc[u] = "relock")
      BY <1>0, <2>4 DEF InsertMem, Complete, Goto
    <3> QED BY <3>1 DEF Grouped
  <2>5. CASE \E ok, landed \in BOOLEAN : AppendLog(u, ok, landed)
    <3>1. PICK st : w' = [w EXCEPT ![u].status = st]
      BY <2>5 DEF AppendLog
    <3>2. pc[u] = "append" /\ pc'[u] \notin {"pop", "append"}
      BY <1>0, <2>5 DEF AppendLog, Goto
    <3>3. w'[u].last = w[u].last /\ w'[u].updates = w[u].updates
      BY <1>0, <3>1 DEF WriterType
    <3> QED BY <3>2, <3>3 DEF Grouped
  <2>6. CASE \E ok \in BOOLEAN : SyncLog(u, ok)
    <3>1. PICK st, er : w' = [w EXCEPT ![u].status = st, ![u].syncError = er]
      BY <2>6 DEF SyncLog
    <3>2. pc[u] = "sync" /\ pc'[u] \notin {"pop", "sync"}
      BY <1>0, <2>6 DEF SyncLog, Goto
    <3>3. w'[u] = [w[u] EXCEPT !.status = st, !.syncError = er]
      BY <1>0, <3>1
    <3>4. w'[u].last = w[u].last /\ w'[u].updates = w[u].updates
      BY <1>0, <3>3 DEF WriterType
    <3> QED BY <3>2, <3>4 DEF Grouped
  <2>7. CASE \E opened \in BOOLEAN : SwitchMemTable(u, opened)
    <3>1. pc'[u] = pc[u] /\ pc[u] = "room"
      BY <2>7 DEF SwitchMemTable, InRoom, threadVars
    <3> QED BY <3>1 DEF Grouped
  <2>8. CASE \/ Relock(u) \/ SpuriousWakeup(u) \/ WaitTurn(u) \/ RoomWait(u)
             \/ WaitFlushed(u) \/ RequestManual(u) \/ WaitManual(u) \/ WaitClosed(u)
    <3>1. UNCHANGED <<pc, w>>
      BY <2>8 DEF Relock, SpuriousWakeup, WaitTurn, RoomWait, WaitFlushed, RequestManual,
           WaitManual, WaitClosed, WaitForBackground, threadVars
    <3> QED BY <1>1, <3>1
  <2>9. CASE Lead(u) \/ RoomDelay(u) \/ RoomReady(u) \/ Flushed(u) \/ EndManual(u) \/ Close(u) \/ Closed(u)
    BY <1>0, <2>9 DEF Lead, RoomDelay, RoomReady, Flushed, EndManual, Close, Closed, Goto, Grouped
  <2> QED BY <1>5, <2>1, <2>2, <2>3, <2>4, <2>5, <2>6, <2>7, <2>8, <2>9 DEF CallStep, ClientStep, Push
<1> QED BY <1>1, <1>2, <1>3, <1>4, <1>5, StepKinds

\* While t leads, the writers in the queue keep their places and their batches.
LEMMA GroupKept ==
  ASSUME TypeOK, QueueInv, [Next]_vars, NEW u \in Clients, pc[u] \in Leading, pc'[u] \in Leading
  PROVE  \A i \in 1..Len(writers) : /\ i \in 1..Len(writers') /\ writers'[i] = writers[i]
                                    /\ writers[i] \in Clients /\ SameBatch(writers[i])
<1> SUFFICES ASSUME NEW i \in 1..Len(writers)
             PROVE  /\ i \in 1..Len(writers') /\ writers'[i] = writers[i]
                    /\ writers[i] \in Clients /\ SameBatch(writers[i])
  OBVIOUS
<1>1. writers \in Seq(Clients) /\ writers[i] \in Clients
  BY SMTT(30) DEF TypeOK, CallsOK
<1>2. ASSUME NEW t \in Clients, PopGroup(t) PROVE FALSE
  <2>1. t = u
    BY <1>2, OneLeader DEF PopGroup, Leading
  <2>2. pc'[u] \in {"idle", "flushing", "ranging"}
    BY <1>2, <2>1 DEF PopGroup, Return, Goto, TypeOK, ThreadsOK, Threads
  <2> QED BY <2>2 DEF Leading
<1>3. i \in 1..Len(writers') /\ writers'[i] = writers[i]
  BY SMTT(30), <1>1, <1>2, QueueCases
<1> USE <1>3
<1>4. QueueInv'
  BY QueueStep
<1>5. InQueue(writers[i]) /\ (InQueue(writers[i]))'
  BY <1>4 DEF QueueInv
<1>6. PICK v \in Clients : v = writers[i]
  BY <1>1
<1>7. InQueue(v) /\ InQueue(v)'
  BY <1>5, <1>6 DEF InQueue
<1>8. SameBatch(v)
  BY <1>7, QueuedKept
<1> QED BY <1>1, <1>6, <1>8

\* What is newly acknowledged is the batch of a Writer that was served, or the
\* front one's, with status ok.
LEMMA AckedFrom ==
  ASSUME TypeOK, QueueInv, [Next]_vars
  PROVE  \/ UNCHANGED <<acked, ackedSync>>
         \/ \E t \in Clients :
              /\ acked' = acked \cup OpsOf(w[t])
              /\ ackedSync' = ackedSync \cup (IF w[t].sync THEN OpsOf(w[t]) ELSE {})
              /\ w[t].status = "ok"
              /\ UNCHANGED <<errorVars, nextBatch>>
              /\ w[t].done \/ pc[t] = "pop"
<1>1. CASE AtomicCall \/ BackgroundStep
  BY <1>1, AtomicFrame, BackgroundFrame DEF historyVars
<1>2. ASSUME NEW t \in Clients, ReturnServed(t) \/ PopGroup(t)
      PROVE  \/ UNCHANGED <<acked, ackedSync>>
             \/ /\ acked' = acked \cup OpsOf(w[t])
                /\ ackedSync' = ackedSync \cup (IF w[t].sync THEN OpsOf(w[t]) ELSE {})
                /\ w[t].status = "ok"
                /\ UNCHANGED <<errorVars, nextBatch>>
                /\ w[t].done \/ pc[t] = "pop"
  <2>1. Return(t, w[t].status) /\ UNCHANGED <<errorVars, nextBatch>> /\ (w[t].done \/ pc[t] = "pop")
    BY <1>2 DEF ReturnServed, PopGroup, flagVars
  <2> QED BY <2>1 DEF Return
<1>3. ASSUME NEW t \in Clients, CallStep(t), ~ReturnServed(t), ~PopGroup(t)
      PROVE  UNCHANGED <<acked, ackedSync>>
  <2>1. CASE Push(t)
    BY <2>1 DEF Push, Write, CompactRange, coreVars, historyVars
  <2>2. CASE \/ Relock(t) \/ SpuriousWakeup(t) \/ WaitTurn(t) \/ RoomWait(t)
             \/ WaitFlushed(t) \/ WaitManual(t) \/ WaitClosed(t)
             \/ Lead(t) \/ RoomError(t) \/ RoomDelay(t) \/ RoomReady(t) \/ Flushed(t) \/ Closed(t)
    BY <2>2 DEF Relock, SpuriousWakeup, WaitTurn, RoomWait, WaitFlushed,
         WaitManual, WaitClosed, WaitForBackground, Lead, RoomError, RoomDelay, RoomReady, Flushed,
         Closed, coreVars, historyVars
  <2>3. CASE RequestManual(t) \/ EndManual(t) \/ Close(t) \/ FormGroup(t) \/ InsertMem(t) \/ Complete(t)
    BY <2>3 DEF RequestManual, EndManual, Close, FormGroup, InsertMem, Complete,
         coreVars, historyVars
  <2>4. CASE \/ \E opened \in BOOLEAN : SwitchMemTable(t, opened)
             \/ \E ok \in BOOLEAN : SyncLog(t, ok)
             \/ \E ok, landed \in BOOLEAN : AppendLog(t, ok, landed)
    BY <2>4 DEF SwitchMemTable, SyncLog, AppendLog, historyVars
  <2> QED BY <1>3, <2>1, <2>2, <2>3, <2>4 DEF CallStep, ClientStep, Push
<1> QED BY <1>1, <1>2, <1>3, StepKinds
-----------------------------------------------------------------------------
(***************************************************************************)
(* NoAckAfterError.                                                        *)
(***************************************************************************)
\* The numbers the proofs compare.
LEMMA BatchNumbers ==
  ASSUME TypeOK
  PROVE  /\ nextBatch \in Nat \ {0} /\ errorBatch \in Nat
         /\ \A t \in Clients : w[t].batch \in Nat
         /\ \A o \in acked : o[1] \in Nat
BY DEF TypeOK, CallsOK, HistoryOK, WriterType, Batch, Op

LEMMA NextBatchGrows ==
  ASSUME TypeOK, [Next]_vars
  PROVE  nextBatch' >= nextBatch
<1>0. nextBatch \in Nat
  BY BatchNumbers
<1>1. CASE AtomicCall \/ BackgroundStep
  BY SMTT(30), <1>0, <1>1, AtomicFrame, BackgroundFrame DEF historyVars
<1>2. ASSUME NEW t \in Clients, CallStep(t) PROVE nextBatch' \in {nextBatch, nextBatch + 1}
  <2>1. CASE \E n \in BatchSizes, sync \in BOOLEAN : Write(t, n, sync)
    BY <2>1 DEF Write
  <2>2. CASE \/ Relock(t) \/ SpuriousWakeup(t) \/ WaitTurn(t) \/ RoomWait(t)
             \/ WaitFlushed(t) \/ WaitManual(t) \/ WaitClosed(t)
             \/ Lead(t) \/ RoomError(t) \/ RoomDelay(t) \/ RoomReady(t) \/ Flushed(t) \/ Closed(t)
    BY <2>2 DEF Relock, SpuriousWakeup, WaitTurn, RoomWait, WaitFlushed,
         WaitManual, WaitClosed, WaitForBackground, Lead, RoomError, RoomDelay, RoomReady, Flushed,
         Closed, coreVars, historyVars
  <2>3. CASE RequestManual(t) \/ EndManual(t) \/ Close(t) \/ FormGroup(t) \/ InsertMem(t) \/ Complete(t)
    BY <2>3 DEF RequestManual, EndManual, Close, FormGroup, InsertMem, Complete,
         coreVars, historyVars
  <2>4. CASE \/ \E opened \in BOOLEAN : SwitchMemTable(t, opened)
             \/ \E ok \in BOOLEAN : SyncLog(t, ok)
             \/ \E ok, landed \in BOOLEAN : AppendLog(t, ok, landed)
    BY <2>4 DEF SwitchMemTable, SyncLog, AppendLog, historyVars
  <2>5. CASE \/ ReturnServed(t) \/ PopGroup(t)
             \/ \E levels \in 1..MaxManualLevels : CompactRange(t, levels)
    BY <2>5 DEF ReturnServed, PopGroup, CompactRange, coreVars, historyVars
  <2> QED BY <1>2, <2>1, <2>2, <2>3, <2>4, <2>5 DEF CallStep, ClientStep
<1> QED BY SMTT(30), <1>0, <1>1, <1>2, StepKinds

LEMMA ErrorStep == ASSUME TypeOK, QueueInv, StoreInv, AckInv, Counted, ErrorInv, [Next]_vars PROVE ErrorInv'
\* Only its holder releases mutex_, and only a free mutex_ is taken.
<1>ClientMutex. ASSUME NEW t \in Clients, CallStep(t), mutex \notin {NULL, t} PROVE mutex' = mutex
  <2> USE <1>ClientMutex
  <2> USE DEF threadVars
  <2>1. CASE \/ Relock(t) \/ SpuriousWakeup(t) \/ WaitTurn(t) \/ RoomReady(t) \/ RoomWait(t)
             \/ WaitFlushed(t) \/ Flushed(t) \/ RequestManual(t) \/ WaitManual(t)
             \/ WaitClosed(t) \/ Closed(t) \/ Close(t)
    BY <2>1 DEF Relock, SpuriousWakeup, WaitTurn, RoomReady, InRoom, RoomWait, WaitFlushed, Flushed,
                RequestManual, RangeLoop, WaitManual, WaitClosed, Closed, Close
  <2>2. CASE \/ \E n \in BatchSizes, sync \in BOOLEAN : Write(t, n, sync)
             \/ \E levels \in 1..MaxManualLevels : CompactRange(t, levels)
             \/ Lead(t) \/ RoomError(t) \/ RoomDelay(t) \/ EndManual(t)
             \/ FormGroup(t) \/ ReturnServed(t) \/ PopGroup(t)
    BY <2>2 DEF Write, CompactRange, Lead, RoomError, RoomDelay, EndManual, FormGroup, ReturnServed,
                PopGroup
  <2>3. CASE \/ \E ok \in BOOLEAN : SyncLog(t, ok)
             \/ \E ok, landed \in BOOLEAN : AppendLog(t, ok, landed)
             \/ \E opened \in BOOLEAN : SwitchMemTable(t, opened)
             \/ InsertMem(t) \/ Complete(t)
    BY <2>3 DEF SyncLog, AppendLog, SwitchMemTable, InsertMem, Complete
  <2> QED BY <2>1, <2>2, <2>3 DEF CallStep, ClientStep
<1>BackgroundMutex. ASSUME BackgroundStep, mutex \notin {NULL, BG} PROVE mutex' = mutex
  <2> USE <1>BackgroundMutex
  <2>1. CASE Relock(BG) \/ BGStart \/ BGNothing \/ BGManualDone \/ BGTail
    BY <2>1 DEF Relock, BGStart, BGNothing, BGManualDone, BGTail
  <2>2. CASE BGCompactMemTable \/ BGManual \/ \E label \in {"compact", "install"} : BGPick(label)
    BY <2>2 DEF BGCompactMemTable, BGManual, BGPick, BGDispatch
  <2>3. CASE FlushApply \/ FlushFailed \/ FlushInstalled \/ CompactPrioritizeImm
    BY <2>3 DEF FlushApply, FlushFailed, FlushInstalled, CompactPrioritizeImm
  <2>4. CASE CompactionApply \/ CompactionFailed \/ CompactionInstalled
    BY <2>4 DEF CompactionApply, CompactionFailed, CompactionInstalled
  <2>5. CASE \/ \E ok \in BOOLEAN : BuildTable(ok) \/ CompactDone(ok)
             \/ \E ok, landed \in BOOLEAN : FlushManifest(ok, landed) \/ InstallManifest(ok, landed)
    BY <2>5 DEF BuildTable, CompactDone, FlushManifest, InstallManifest
  <2> QED BY <2>1, <2>2, <2>3, <2>4, <2>5 DEF BackgroundStep
\* bg_error_ is set once, under the mutex, by the background thread or by the
\* writer that completes its group.
<1>ErrorSet. /\ bgError => bgError' /\ errorBatch' = errorBatch
             /\ ~bgError /\ bgError' => /\ errorBatch' = nextBatch /\ UNCHANGED historyVars
                                        /\ mutex = BG \/ \E t \in Clients : Complete(t)
  <2>1. CASE AtomicCall
    BY SMTT(30), <2>1, AtomicFrame DEF errorVars
  <2>2. ASSUME NEW t \in Clients, CallStep(t), ~UNCHANGED errorVars PROVE Complete(t)
    BY <2>2, ClientFlags
  <2>3. ASSUME NEW t \in Clients, Complete(t)
        PROVE  /\ bgError => bgError' /\ errorBatch' = errorBatch
               /\ ~bgError /\ bgError' => errorBatch' = nextBatch /\ UNCHANGED historyVars
    BY <2>3 DEF Complete, RecordBackgroundError
  <2>4. CASE BackgroundStep
    <3>1. UNCHANGED historyVars
      BY <2>4, BackgroundFrame
    <3>2. CASE FlushFailed \/ FlushInstalled \/ CompactionFailed \/ CompactionInstalled
      <4>1. mutex = BG
        BY <3>2 DEF FlushFailed, FlushInstalled, CompactionFailed, CompactionInstalled
      <4>2. \E ok, ws : RecordBackgroundError(ok, ws)
        BY <3>2 DEF FlushFailed, FlushInstalled, CompactionFailed, CompactionInstalled,
             FlushReturn, CompactionReturn
      <4> QED BY <3>1, <4>1, <4>2 DEF RecordBackgroundError
    <3>3. CASE UNCHANGED errorVars
      BY <3>3 DEF errorVars
    <3> USE <3>3
    <3>4. CASE Relock(BG) \/ BGStart \/ BGNothing \/ BGManualDone \/ BGTail \/ FlushApply
               \/ CompactPrioritizeImm \/ CompactionApply
      BY <3>4 DEF Relock, BGStart, BGNothing, BGManualDone, BGTail, FlushApply,
           CompactPrioritizeImm, CompactionApply, coreVars, flagVars
    <3>5. CASE \/ \E ok \in BOOLEAN : BuildTable(ok) \/ CompactDone(ok)
               \/ \E ok, landed \in BOOLEAN : FlushManifest(ok, landed) \/ InstallManifest(ok, landed)
      BY <3>5 DEF BuildTable, CompactDone, FlushManifest, InstallManifest,
           coreVars, flagVars
    <3>6. CASE BGCompactMemTable \/ BGManual \/ \E label \in {"compact", "install"} : BGPick(label)
      <4>1. \E kind, k, m, label : Begin(kind, k, m, label)
        BY <3>6, BeginCases
      <4> QED BY <4>1 DEF Begin, coreVars, flagVars
    <3> QED BY <2>4, <3>2, <3>4, <3>5, <3>6 DEF BackgroundStep
  <2> QED BY <2>1, <2>2, <2>3, <2>4, StepKinds DEF errorVars
\* The batch numbers of the Writers stay below the next one.
<1>BatchesIssued. ASSUME \A t \in Clients : w[t].batch < nextBatch
                  PROVE  \A t \in Clients : w'[t].batch < nextBatch'
  <2> USE <1>BatchesIssued
  <2> SUFFICES ASSUME NEW u \in Clients PROVE w'[u].batch < nextBatch'
    OBVIOUS
  <2>0. /\ w \in [Clients -> WriterType] /\ w[u].batch \in Nat /\ nextBatch \in Nat \ {0}
        /\ nextBatch' >= nextBatch /\ nextBatch' \in Nat
    <3>1. HistoryOK'
      BY HistoryStep
    <3> QED BY <3>1, BatchNumbers, NextBatchGrows DEF TypeOK, CallsOK, HistoryOK, Batch
  <2> USE <2>0
  <2>1. CASE Push(u)
    <3>1. CASE \E n \in BatchSizes, sync \in BOOLEAN : Write(u, n, sync)
      <4>1. w'[u].batch = nextBatch /\ nextBatch' = nextBatch + 1
        BY <3>1 DEF Write, IdleWriter
      <4> QED BY SMTT(30), <4>1
    <3>2. CASE \E levels \in 1..MaxManualLevels : CompactRange(u, levels)
      <4>1. w'[u].batch = 0
        BY SMTT(30), <3>2 DEF CompactRange, IdleWriter
      <4> QED BY SMTT(30), <4>1
    <3> QED BY <2>1, <3>1, <3>2 DEF Push
  <2>2. CASE ReturnServed(u) \/ PopGroup(u)
    <3>1. w'[u] = IdleWriter
      BY <2>2 DEF ReturnServed, PopGroup
    <3> QED BY SMTT(30), <3>1 DEF IdleWriter
  <2>3. CASE SameBatch(u)
    BY SMTT(30), <2>3 DEF SameBatch
  <2> QED BY <2>1, <2>2, <2>3, WriterCases
\* A writer that forms a group holds the mutex, and there is no error.
<1>GroupLocked. ASSUME NEW u \in Clients, \A t \in Clients : pc[t] = "group" => ~bgError /\ mutex = t,
                       pc'[u] = "group"
                PROVE  ~bgError' /\ mutex' = u
  <2> USE <1>GroupLocked
  <2>0. pc \in [Threads -> ClientLabels \cup BGLabels] /\ u \in Threads /\ u # BG /\ u # NULL
    BY ClientsAssumption DEF TypeOK, ThreadsOK, Threads
  <2>1. CASE AtomicCall
    BY SMTT(30), <2>1, AtomicFrame DEF threadVars, errorVars
  <2>2. CASE BackgroundStep
    <3>1. pc[u] = "group"
      BY <2>0, <2>2, BackgroundFrame
    <3>2. ~bgError /\ mutex = u
      BY <3>1
    <3> USE <3>2
    <3>3. mutex' = u
      BY <2>0, <2>2, <1>BackgroundMutex
    <3>4. ASSUME NEW t \in Clients, Complete(t) PROVE FALSE
      BY <3>1, <3>4 DEF Complete
    <3> QED BY <2>0, <3>3, <3>4, <1>ErrorSet
  <2>3. ASSUME NEW t \in Clients, CallStep(t), t # u PROVE ~bgError' /\ mutex' = u
    <3>1. pc[u] = "group"
      BY <2>0, <2>3, ClientFrame
    <3>2. ~bgError /\ mutex = u
      BY <3>1
    <3> USE <3>2
    <3>3. mutex' = u
      BY <2>0, <2>3, <1>ClientMutex
    <3>4. ASSUME NEW v \in Clients, Complete(v) PROVE FALSE
      BY <3>1, <3>4 DEF Complete
    <3> QED BY <2>0, <3>3, <3>4, <1>ErrorSet
  <2>4. CASE CallStep(u)
    <3>1. CASE RoomReady(u)
      BY <3>1 DEF RoomReady, InRoom, coreVars, flagVars, errorVars
    <3>2. CASE SpuriousWakeup(u)
      BY <3>2 DEF SpuriousWakeup, coreVars, flagVars, errorVars
    <3>3. CASE \/ Relock(u) \/ WaitTurn(u) \/ RoomWait(u) \/ WaitFlushed(u) \/ RequestManual(u)
               \/ WaitManual(u) \/ WaitClosed(u)
      <4>1. UNCHANGED pc /\ pc[u] # "group"
        BY <3>3 DEF Relock, WaitTurn, RoomWait, WaitFlushed, RequestManual,
             WaitManual, WaitClosed, WaitForBackground, threadVars, Locking, InRoom, RangeLoop
      <4> QED BY <4>1
    <3>4. CASE \/ ReturnServed(u) \/ Lead(u) \/ RoomError(u) \/ RoomDelay(u) \/ FormGroup(u) \/ InsertMem(u)
               \/ Complete(u) \/ PopGroup(u) \/ Flushed(u) \/ EndManual(u) \/ Closed(u) \/ Close(u) \/ Push(u)
      BY <2>0, <3>4 DEF ReturnServed, Lead, RoomError, RoomDelay, FormGroup, InsertMem, Complete,
           PopGroup, Return, Flushed, EndManual, Closed, Close, Push, Write, CompactRange, Goto
    <3>5. CASE \/ \E opened \in BOOLEAN : SwitchMemTable(u, opened)
               \/ \E ok \in BOOLEAN : SyncLog(u, ok)
               \/ \E ok, landed \in BOOLEAN : AppendLog(u, ok, landed)
      BY <2>0, <3>5 DEF SwitchMemTable, InRoom, threadVars, SyncLog, AppendLog, Goto
    <3> QED BY <2>4, <3>1, <3>2, <3>3, <3>4, <3>5 DEF CallStep, ClientStep, Push
  <2> QED BY <2>1, <2>2, <2>3, <2>4, StepKinds
<1>0. TypeOK /\ QueueInv /\ TypeOK'
  BY CoreStep DEF IInv
<1>1. \A t \in Clients : w'[t].batch < nextBatch'
  BY <1>0, <1>BatchesIssued DEF ErrorInv
<1>2. \A t \in Clients : pc'[t] = "group" => ~bgError' /\ mutex' = t
  BY <1>0, <1>GroupLocked DEF ErrorInv
<1>3. /\ nextBatch \in Nat \ {0} /\ errorBatch \in Nat /\ nextBatch' \in Nat \ {0} /\ errorBatch' \in Nat
      /\ nextBatch' >= nextBatch /\ nextBatch' # 0
      /\ \A t \in Clients : w[t].batch \in Nat /\ w'[t].batch \in Nat
  BY <1>0, BatchNumbers, NextBatchGrows DEF TypeOK, HistoryOK, CallsOK, WriterType, Batch
<1>4. \A o \in acked' : o \in acked
         \/ \E t \in Clients : /\ o[1] = w[t].batch /\ w[t].status = "ok"
                               /\ UNCHANGED <<errorVars, nextBatch>> /\ (w[t].done \/ pc[t] = "pop")
  BY SMTT(30), <1>0, AckedFrom DEF OpsOf
<1>5. \A o \in acked' : o[1] < nextBatch'
  <2> SUFFICES ASSUME NEW o \in acked' PROVE o[1] < nextBatch'
    OBVIOUS
  <2>1. CASE o \in acked
    <3>1. o[1] \in Nat /\ o[1] < nextBatch
      BY <1>0, <2>1, BatchNumbers DEF ErrorInv
    <3> QED BY SMTT(30), <1>3, <3>1
  <2>2. CASE o \notin acked
    <3>1. PICK t \in Clients : o[1] = w[t].batch
      BY <1>4, <2>2
    <3>2. w[t].batch < nextBatch
      BY DEF ErrorInv
    <3> QED BY SMTT(30), <1>3, <3>1, <3>2
  <2> QED BY <2>1, <2>2
<1>6. CASE ~bgError /\ bgError'
  <2>1. errorBatch' = nextBatch /\ UNCHANGED historyVars
    BY <1>0, <1>6, <1>ErrorSet
  <2>2. nextBatch' = nextBatch /\ acked' = acked
    BY <2>1 DEF historyVars
  <2>3. \A t \in Clients : pc'[t] \in Grouped => \A u \in GroupOf(t)' : u \in Clients
    <3> SUFFICES ASSUME NEW t \in Clients, pc'[t] \in Grouped PROVE GroupOf(t)' \subseteq Clients
      OBVIOUS
    <3>1. QueueInv' /\ pc'[t] \in Leading
      BY QueueStep, <1>0 DEF Grouped, Leading
    <3>2. w'[t].last \in Nat /\ w'[t].last <= Len(writers') /\ writers' \in Seq(Clients)
      BY <1>0, <3>1 DEF QueueInv, TypeOK, CallsOK, WriterType
    <3> QED BY SMTT(30), <3>2 DEF GroupOf
  <2>4. NoAckAfterError'
    BY <1>5, <2>1, <2>2 DEF NoAckAfterError
  <2>5. \A t \in Clients : w'[t].batch < errorBatch'
    BY <1>1, <2>1, <2>2
  <2>6. \A t \in Clients : pc'[t] \in Grouped => \A u \in GroupOf(t)' : w'[u].batch < errorBatch'
    BY <2>3, <2>5
  <2>7. 0 < errorBatch' /\ errorBatch' <= nextBatch'
    BY SMTT(30), <1>3, <2>1, <2>2
  <2> QED BY <1>1, <1>2, <1>5, <2>4, <2>5, <2>6, <2>7 DEF ErrorInv
<1>7. CASE bgError
  <2> USE <1>7
  <2>1. bgError' /\ errorBatch' = errorBatch
    BY <1>0, <1>ErrorSet
  <2>2. 0 < errorBatch /\ errorBatch <= nextBatch
    BY DEF ErrorInv
  <2>3. ASSUME NEW t \in Clients, pc[t] = "pop", w[t].status = "ok"
        PROVE  \A u \in GroupOf(t) : w[u].batch < errorBatch
    BY <2>3 DEF ErrorInv, Grouped
  <2>4. NoAckAfterError'
    <3> SUFFICES ASSUME NEW o \in acked' PROVE o[1] < errorBatch
      BY <2>1 DEF NoAckAfterError
    <3>1. CASE o \in acked
      BY <3>1 DEF ErrorInv, NoAckAfterError
    <3>2. CASE o \notin acked
      <4>1. PICK t \in Clients : o[1] = w[t].batch /\ w[t].status = "ok" /\ (w[t].done \/ pc[t] = "pop")
        BY <1>4, <3>2
      <4> USE <4>1
      <4>2. CASE w[t].done
        BY <4>2 DEF ErrorInv
      <4>3. CASE pc[t] = "pop"
        <5>1. t \in GroupOf(t)
          BY SMTT(30), <1>0, <4>3, GroupMembers DEF GroupOf, Leading
        <5> QED BY <2>3, <4>3, <5>1
      <4> QED BY <4>2, <4>3
    <3> QED BY <3>1, <3>2
  <2>5. ASSUME NEW u \in Clients, w'[u].done, w'[u].status = "ok" PROVE w'[u].batch < errorBatch
    <3> USE <2>5
    <3>0. w \in [Clients -> WriterType]
      BY <1>0 DEF TypeOK, CallsOK
    <3>1. CASE Push(u)
      <4>1. CASE \E n \in BatchSizes, sync \in BOOLEAN : Write(u, n, sync)
        BY <3>0, <4>1 DEF Write, IdleWriter
      <4>2. CASE \E levels \in 1..MaxManualLevels : CompactRange(u, levels)
        BY SMTT(30), <3>0, <4>2 DEF CompactRange, IdleWriter
      <4> QED BY <3>1, <4>1, <4>2 DEF Push
    <3>2. CASE ReturnServed(u) \/ PopGroup(u)
      <4>1. w'[u] = IdleWriter
        BY <3>0, <3>2 DEF ReturnServed, PopGroup
      <4> QED BY SMTT(30), <4>1 DEF IdleWriter
    <3>3. ASSUME NEW t \in Clients, PopGroup(t), u \in {writers[i] : i \in 2..w[t].last},
                 SameBatch(u), w'[u].status = w[t].status
          PROVE  w'[u].batch < errorBatch
      <4> USE <3>3
      <4>1. u \in GroupOf(t)
        BY SMTT(30) DEF GroupOf
      <4>2. pc[t] = "pop" /\ w[t].status = "ok"
        BY DEF PopGroup
      <4> QED BY <2>3, <4>1, <4>2 DEF SameBatch
    <3>4. CASE SameBatch(u) /\ w'[u].done = w[u].done /\ (w[u].done => w'[u].status = w[u].status)
      BY <3>4 DEF ErrorInv, SameBatch
    <3> QED BY <1>0, <3>1, <3>2, <3>3, <3>4, WriterCases
  <2>6. ASSUME NEW t \in Clients, pc'[t] \in Grouped, pc'[t] = "pop" => w'[t].status = "ok",
               NEW u \in GroupOf(t)'
        PROVE  w'[u].batch < errorBatch
    <3> USE <2>6
    <3>1. /\ pc[t] \in Grouped /\ w'[t].last = w[t].last /\ (pc[t] = "pop" => w[t].status = "ok")
      <4>1. ~FormGroup(t)
        BY DEF FormGroup, ErrorInv
      <4>2. ~(pc'[t] = "pop" /\ w'[t].status = "error")
        OBVIOUS
      <4> QED BY <1>0, <4>1, <4>2, GroupedFrom
    <3>2. pc[t] \in Leading /\ pc'[t] \in Leading
      BY <3>1 DEF Grouped, Leading
    <3>3. w[t].last \in Nat /\ w[t].last <= Len(writers) /\ Len(writers) \in Nat
      BY SMTT(30), <1>0, <3>2, GroupMembers DEF TypeOK, CallsOK
    <3>4. PICK i \in 1..w[t].last : u = writers'[i]
      BY <3>1 DEF GroupOf
    <3> USE <3>4
    <3>5. i \in 1..Len(writers)
      BY SMTT(30), <3>3
    <3>6. u = writers[i] /\ SameBatch(writers[i])
      BY <1>0, <3>2, <3>5, GroupKept
    <3>7. u \in GroupOf(t)
      BY <3>6 DEF GroupOf
    <3>8. w[u].batch < errorBatch
      BY <3>1, <3>7 DEF ErrorInv
    <3> QED BY <3>6, <3>8 DEF SameBatch
  <2>7. 0 < errorBatch' /\ errorBatch' <= nextBatch'
    BY SMTT(30), <1>3, <2>1, <2>2
  <2> QED BY <1>1, <1>2, <1>5, <2>1, <2>4, <2>5, <2>6, <2>7 DEF ErrorInv
<1>8. CASE ~bgError'
  BY <1>1, <1>2, <1>5, <1>8 DEF ErrorInv, NoAckAfterError
<1> QED BY <1>6, <1>7, <1>8
=============================================================================
