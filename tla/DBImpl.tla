------------------------------- MODULE DBImpl -------------------------------
(***************************************************************************)
(* The concurrency core of db/db_impl.cc: client threads inside            *)
(* DBImpl::Write, CompactRange, SuspendCompaction, ResumeCompaction and    *)
(* ~DBImpl, and the one background thread of the Env inside                *)
(* BackgroundCall.                                                         *)
(*                                                                         *)
(* mutex_ is modelled by its holder.  A step of a thread is the code       *)
(* between two points where other threads can see a difference; code that  *)
(* runs without mutex_ (log append, table build, MANIFEST write, the       *)
(* compaction loop) has steps of its own.                                  *)
(*                                                                         *)
(* A WriteBatch is a set of operations <<batch, k>>, batch numbers being   *)
(* given in the order the writers enter the queue.  The WriteBatch of a    *)
(* group is one record [seq, ops]: its fixed64 sequence and its updates.   *)
(* Of a version only what the scheduling code asks is kept: the number of  *)
(* level-0 files, whether deeper levels need work, and the records whose   *)
(* data its tables hold.                                                   *)
(***************************************************************************)
EXTENDS Integers, Sequences, FiniteSets

CONSTANTS
  Clients,          \* application threads
  BG,               \* the thread started by Env::Schedule
  NULL,             \* no thread, no memtable, no batch
  BatchSizes,       \* number of updates a batch may hold
  WriteBufferSize,  \* options_.write_buffer_size, in records
  MaxGroupSize,     \* the byte limit of BuildBatchGroup, in batches
  CompactionTrigger, SlowdownTrigger, StopTrigger,  \* config::kL0_...
  MaxManualLevels,  \* levels one CompactRange call visits, at most
  EnvReports,       \* do Sync() and NewWritableFile() report failures?
  MaxBatches, MaxCompactRanges, MaxManualRounds, MaxSuspends, MaxDeepens,
  MaxFaults, MaxSpurious  \* bounds on what the environment does

ASSUME ClientsAssumption == BG \notin Clients /\ NULL \notin Clients \cup {BG}
ASSUME SizesAssumption ==
  /\ BatchSizes \subseteq Nat
  /\ MaxGroupSize \in Nat \ {0}
  /\ MaxManualLevels \in Nat \ {0}
  /\ WriteBufferSize \in Nat
  /\ EnvReports \in BOOLEAN
ASSUME TriggersAssumption ==
  /\ {CompactionTrigger, SlowdownTrigger, StopTrigger} \subseteq Nat \ {0}
  /\ CompactionTrigger <= SlowdownTrigger /\ SlowdownTrigger <= StopTrigger
ASSUME BoundsAssumption ==
  {MaxBatches, MaxCompactRanges, MaxManualRounds, MaxSuspends, MaxDeepens,
   MaxFaults, MaxSpurious} \subseteq Nat

VARIABLES
  mutex,       \* holder of mutex_, or NULL
  pc,          \* where each thread is
  cvWait,      \* threads blocked in their own Writer::cv
  bgWait,      \* threads blocked in bg_cv_
  writers,     \* writers_
  w,           \* per client: the Writer on its stack and the locals of Write
  range,       \* per client: the locals of CompactRange
  mem, imm,    \* mem_ and imm_ as sets of records (imm = NoImm: none)
  logfileNumber,  \* logfile_number_
  logged,      \* <<log number, record>> handed to the log files that exist
  synced,      \* the part of logged covered by a successful Sync()
  manifest,    \* what recovery would read: [log, tables]
  versions,    \* VersionSet in memory: [log, tables, l0, deep]
  broken,      \* which of "log" and "manifest" has a failed stream
  lastSequence,   \* versions_->LastSequence()
  bgError, suspending, shuttingDown, scheduled, manual,
  bg,          \* locals of the background call
  nextBatch, acked, ackedSync,  \* history: batches issued, acknowledged
  errorBatch,  \* history: the first batch issued after bg_error_ was set
  budget       \* what the environment may still do

threadVars == <<mutex, pc, cvWait, bgWait>>
storeVars == <<mem, imm, logfileNumber, logged, synced, lastSequence>>
diskVars == <<manifest, versions, broken>>
errorVars == <<bgError, errorBatch>>
flagVars == <<errorVars, suspending, shuttingDown, scheduled, manual>>
historyVars == <<nextBatch, acked, ackedSync>>
coreVars == <<storeVars, diskVars, flagVars, historyVars>>
vars == <<threadVars, writers, w, range, coreVars, bg, budget>>

Threads == Clients \cup {BG}
Batch == Nat \ {0}
Op == Batch \X (Nat \ {0})
Record == [seq : Nat, ops : SUBSET Op]
Status == {"ok", "error"}

ASSUME NullAssumption == NULL \notin Record

\* The value of imm when imm_ is NULL: not a set of records.
NoImm == {NULL}

\* The calls and faults of the environment that are bounded.
Items == {"compacts", "rounds", "suspends", "deepens", "faults", "spurious"}
Bound(item) ==
  CASE item = "compacts" -> MaxCompactRanges [] item = "rounds" -> MaxManualRounds
    [] item = "suspends" -> MaxSuspends [] item = "deepens" -> MaxDeepens
    [] item = "faults" -> MaxFaults [] item = "spurious" -> MaxSpurious

IdleWriter == [batch |-> 0, n |-> 0, sync |-> FALSE, done |-> FALSE,
               status |-> "ok", force |-> FALSE, delay |-> FALSE,
               last |-> 1, updates |-> [seq |-> 0, ops |-> {}],
               syncError |-> FALSE]
IdleRange == [on |-> FALSE, level |-> 0, levels |-> 0, done |-> FALSE,
              target |-> {}]
IdleBG == [nested |-> FALSE, kind |-> "none", k |-> 0, manual |-> FALSE,
           move |-> FALSE, ok |-> TRUE, editLog |-> 0]

(***************************************************************************)
(* The state DB::Open leaves: an empty memtable, a fresh log file that the *)
(* MANIFEST names, no background work.                                     *)
(***************************************************************************)
Init ==
  /\ mutex = NULL
  /\ pc = [t \in Threads |-> "idle"]
  /\ cvWait = {} /\ bgWait = {}
  /\ writers = <<>>
  /\ w = [t \in Clients |-> IdleWriter]
  /\ range = [t \in Clients |-> IdleRange]
  /\ mem = {} /\ imm = NoImm
  /\ logfileNumber = 1
  /\ logged = {} /\ synced = {}
  /\ manifest = [log |-> 1, tables |-> {}]
  /\ versions = [log |-> 1, tables |-> {}, l0 |-> 0, deep |-> FALSE]
  /\ broken = {}
  /\ lastSequence = 0
  /\ bgError = FALSE /\ suspending = FALSE /\ shuttingDown = FALSE
  /\ scheduled = FALSE /\ manual = NULL
  /\ bg = IdleBG
  /\ nextBatch = 1 /\ acked = {} /\ ackedSync = {} /\ errorBatch = 0
  /\ budget = [item \in Items |-> Bound(item)]
-----------------------------------------------------------------------------
(***************************************************************************)
(* Helpers shared by the threads.                                          *)
(***************************************************************************)
Goto(t, label) == pc' = [pc EXCEPT ![t] = label]
Spend(item) == budget[item] > 0 /\ budget' = [budget EXCEPT ![item] = @ - 1]

\* An I/O call may fail while the fault budget lasts.
MayFail(ok) == IF ok THEN UNCHANGED budget ELSE Spend("faults")

\* Writing to a WinFile: a stream that has failed refuses all that follows, and
\* what was being written may still be found in the file (landed).  silent says
\* that the call may return ok without the data having landed.
FileWrite(file, ok, landed, silent) ==
  /\ ok => landed \/ silent
  /\ IF file \in broken THEN ~ok /\ ~landed /\ UNCHANGED budget
     ELSE MayFail(ok /\ landed)
  /\ broken' = IF ok /\ landed THEN broken ELSE broken \cup {file}

\* A deeper level becomes due for compaction, or stays so if it was kept.
Deepen(deep, kept) == IF deep /\ ~kept THEN Spend("deepens") ELSE UNCHANGED budget

\* VersionSet::NeedsCompaction
NeedsCompaction == versions.l0 >= CompactionTrigger \/ versions.deep

\* DBImpl::MaybeScheduleCompaction, on the state the caller leaves; already is
\* bg_compaction_scheduled_ as the caller sees it.
MaybeScheduleCompaction(already) ==
  scheduled' = \/ already
               \/ /\ ~shuttingDown
                  /\ ~(imm' = NoImm /\ suspending)
                  /\ ~bgError'
                  /\ imm' # NoImm \/ manual' # NULL \/ NeedsCompaction'

\* DBImpl::RecordBackgroundError; ok says that the caller has nothing to
\* record.  waiters is who waits on bg_cv_ without this call.
RecordBackgroundError(ok, waiters) ==
  /\ bgError' = (bgError \/ ~ok)
  /\ errorBatch' = IF ~ok /\ ~bgError THEN nextBatch ELSE errorBatch
  /\ bgWait' = IF ~ok /\ ~bgError THEN {} ELSE waiters

\* The log files DBImpl::DeleteObsoleteFiles keeps (prev_log_number_ is 0
\* after the first memtable compaction; it does nothing after an error).
DeleteObsoleteFiles ==
  LET keep == {p \in logged : bgError' \/ p[1] >= versions'.log}
  IN  logged' = keep /\ synced' = synced \cap keep

\* What the current log file was given.
InCurrentLog == {p \in logged : p[1] = logfileNumber}
-----------------------------------------------------------------------------
(***************************************************************************)
(* Blocking and waking.  A thread whose next code needs mutex_ is at a     *)
(* Locking label; Relock is mutex_.Lock() there, both after a wait and     *)
(* after a stretch of code that ran unlocked.                              *)
(***************************************************************************)
Locking == {"queued", "room", "relock", "flushing", "ranging", "closing",
            "built", "flushWritten", "compacted", "installed"}

Relock(t) ==
  /\ pc[t] \in Locking /\ mutex = NULL /\ t \notin cvWait \cup bgWait
  /\ mutex' = t
  /\ UNCHANGED <<pc, cvWait, bgWait, writers, w, range, coreVars, bg, budget>>

\* A wait that returns without a signal: every wait of DBImpl is in a loop.
SpuriousWakeup(t) ==
  /\ t \in cvWait \cup bgWait
  /\ Spend("spurious")
  /\ cvWait' = cvWait \ {t} /\ bgWait' = bgWait \ {t}
  /\ UNCHANGED <<mutex, pc, writers, w, range, coreVars, bg>>

\* bg_cv_.Wait() at the head of the loop t is in
WaitForBackground(t) ==
  /\ mutex' = NULL /\ bgWait' = bgWait \cup {t}
  /\ UNCHANGED <<pc, cvWait, writers, w, range, coreVars, bg, budget>>
-----------------------------------------------------------------------------
(***************************************************************************)
(* DBImpl::Write.                                                          *)
(***************************************************************************)
OpsOf(v) == {<<v.batch, k>> : k \in 1..v.n}

\* Push the Writer; CompactRange pushes a NULL batch (number 0).
Write(t, n, sync) ==
  /\ pc[t] = "idle" /\ mutex = NULL /\ ~shuttingDown
  /\ nextBatch <= MaxBatches
  /\ mutex' = t /\ Goto(t, "queued")
  /\ writers' = Append(writers, t)
  /\ w' = [w EXCEPT ![t] = [IdleWriter EXCEPT !.batch = nextBatch, !.n = n,
                                              !.sync = sync]]
  /\ nextBatch' = nextBatch + 1
  /\ UNCHANGED <<cvWait, bgWait, range, storeVars, diskVars, flagVars, bg,
                 acked, ackedSync, budget>>

CompactRange(t, levels) ==
  /\ pc[t] = "idle" /\ mutex = NULL /\ ~shuttingDown
  /\ Spend("compacts")
  /\ mutex' = t /\ Goto(t, "queued")
  /\ writers' = Append(writers, t)
  /\ range' = [range EXCEPT ![t] =
                 [IdleRange EXCEPT !.on = TRUE, !.levels = levels,
                    !.target = mem \cup (IF imm = NoImm THEN {} ELSE imm)]]
  /\ w' = [w EXCEPT ![t] = IdleWriter]
  /\ UNCHANGED <<cvWait, bgWait, coreVars, bg>>

IsFront(t) == Head(writers) = t

\* while (!w.done && &w != writers_.front()) w.cv.Wait();
WaitTurn(t) ==
  /\ pc[t] = "queued" /\ mutex = t
  /\ ~w[t].done /\ ~IsFront(t)
  /\ mutex' = NULL /\ cvWait' = cvWait \cup {t}
  /\ UNCHANGED <<pc, bgWait, writers, w, range, coreVars, bg, budget>>

\* Write returns status: to the caller, or to TEST_CompactMemTable, which
\* waits for imm_ if it is ok; CompactRange goes on whatever it is.
Return(t, status) ==
  /\ mutex' = NULL
  /\ Goto(t, IF ~range[t].on THEN "idle"
             ELSE IF status = "ok" THEN "flushing" ELSE "ranging")
  /\ acked' = acked \cup (IF status = "ok" THEN OpsOf(w[t]) ELSE {})
  /\ ackedSync' = ackedSync \cup
                    (IF status = "ok" /\ w[t].sync THEN OpsOf(w[t]) ELSE {})

\* A writer another one has served.
ReturnServed(t) ==
  /\ pc[t] = "queued" /\ mutex = t /\ w[t].done
  /\ Return(t, w[t].status)
  /\ w' = [w EXCEPT ![t] = IdleWriter]
  /\ UNCHANGED <<cvWait, bgWait, writers, range, storeVars, diskVars,
                 flagVars, bg, nextBatch, budget>>

Lead(t) ==
  /\ pc[t] = "queued" /\ mutex = t
  /\ ~w[t].done /\ IsFront(t)
  /\ Goto(t, "room")
  /\ w' = [w EXCEPT ![t].force = (w[t].batch = 0), ![t].delay = (w[t].batch # 0)]
  /\ UNCHANGED <<mutex, cvWait, bgWait, writers, range, coreVars, bg, budget>>
-----------------------------------------------------------------------------
(***************************************************************************)
(* DBImpl::MakeRoomForWrite: one action per branch of its loop.            *)
(***************************************************************************)
\* A variant of Slow: the writer is delayed again and again.
SlowEachTime(t) == versions.l0 >= SlowdownTrigger

Slow(t) == w[t].delay /\ versions.l0 >= SlowdownTrigger
HasRoom(t) == ~w[t].force /\ Cardinality(mem) <= WriteBufferSize

\* Variants of NoSwitch, each without one of the two checks.
ImmNotChecked == versions.l0 >= StopTrigger
StopNotChecked == imm # NoImm

\* No memtable switch now: the old memtable is still being compacted, or there
\* are too many level-0 files.
NoSwitch == imm # NoImm \/ versions.l0 >= StopTrigger

\* A variant of InRoom that looks at bg_error_ only when the memtable is full.
ErrorCheckedLate(t) ==
  pc[t] = "room" /\ mutex = t /\ (bgError => HasRoom(t)) /\ ~Slow(t)

\* The loop is entered and neither an error nor the 1ms delay applies.
InRoom(t) == pc[t] = "room" /\ mutex = t /\ ~bgError /\ ~Slow(t)

\* Leave with an error: bg_error_, or the new log file cannot be created.
RoomError(t) ==
  /\ pc[t] = "room" /\ mutex = t
  /\ \/ bgError /\ UNCHANGED budget
     \/ /\ InRoom(t) /\ ~HasRoom(t) /\ ~suspending /\ ~NoSwitch
        /\ EnvReports /\ Spend("faults")
  /\ Goto(t, "pop")
  /\ w' = [w EXCEPT ![t].status = "error"]
  /\ UNCHANGED <<mutex, cvWait, bgWait, writers, range, coreVars, bg>>

\* mutex_.Unlock(); SleepForMicroseconds(1000); mutex_.Lock(), at most once
RoomDelay(t) ==
  /\ pc[t] = "room" /\ mutex = t /\ ~bgError /\ Slow(t)
  /\ mutex' = NULL
  /\ w' = [w EXCEPT ![t].delay = FALSE]
  /\ UNCHANGED <<pc, cvWait, bgWait, writers, range, coreVars, bg, budget>>

RoomReady(t) ==
  /\ InRoom(t)
  /\ HasRoom(t) \/ suspending
  /\ Goto(t, "group")
  /\ UNCHANGED <<mutex, cvWait, bgWait, writers, w, range, coreVars, bg,
                 budget>>

RoomWait(t) ==
  /\ InRoom(t) /\ ~HasRoom(t) /\ ~suspending /\ NoSwitch
  /\ WaitForBackground(t)

\* Switch to a new log file and memtable; opened says that the file could be
\* created (WinEnv::NewWritableFile returns OK either way).  Deleting the old
\* WinFile closes it, which calls its Sync().
SwitchMemTable(t, opened) ==
  /\ InRoom(t) /\ ~HasRoom(t) /\ ~suspending /\ ~NoSwitch
  /\ EnvReports => opened
  /\ MayFail(opened)
  /\ broken' = IF opened THEN broken \ {"log"} ELSE broken \cup {"log"}
  /\ synced' = synced \cup
                 (IF EnvReports \/ "log" \in broken THEN {} ELSE InCurrentLog)
  /\ logfileNumber' = logfileNumber + 1
  /\ imm' = mem /\ mem' = {}
  /\ w' = [w EXCEPT ![t].force = FALSE]
  /\ UNCHANGED <<errorVars, suspending, shuttingDown, manual>>
  /\ UNCHANGED <<manifest, versions>>
  /\ MaybeScheduleCompaction(scheduled)
  /\ UNCHANGED <<threadVars, writers, range, logged, lastSequence, bg,
                 historyVars>>
-----------------------------------------------------------------------------
(***************************************************************************)
(* DBImpl::BuildBatchGroup and the logging half of Write.                  *)
(***************************************************************************)
\* A variant of Groupable: a sync writer may join a non-sync group.
SyncIgnored(g) ==
  \A i \in 2..g :
    w[writers[i]].batch # 0 =>
      Cardinality({j \in 1..i : w[writers[j]].batch # 0}) <= MaxGroupSize

\* The first g writers may be served by the front one.
Groupable(g) ==
  \A i \in 2..g :
    /\ w[writers[i]].sync => w[writers[1]].sync
    /\ w[writers[i]].batch # 0 =>
         Cardinality({j \in 1..i : w[writers[j]].batch # 0}) <= MaxGroupSize

\* BuildBatchGroup takes the longest such prefix.
BuildBatchGroup(g) ==
  /\ g \in 1..Len(writers) /\ Groupable(g)
  /\ g < Len(writers) => ~Groupable(g + 1)

\* A NULL batch has nothing to log; otherwise the group's batch gets the next
\* sequence number and mutex_ is released.
FormGroup(t) ==
  /\ pc[t] = "group" /\ mutex = t
  /\ \/ /\ w[t].batch = 0
        /\ Goto(t, "pop")
        /\ UNCHANGED <<mutex, w>>
     \/ /\ w[t].batch # 0
        /\ Goto(t, "append") /\ mutex' = NULL
        /\ \E g \in 1..Len(writers) :
             /\ BuildBatchGroup(g)
             /\ w' = [w EXCEPT ![t].last = g,
                              ![t].updates =
                 [seq |-> lastSequence + 1,
                  ops |-> UNION {OpsOf(w[writers[i]]) : i \in 1..g}]]
  /\ UNCHANGED <<cvWait, bgWait, writers, range, coreVars, bg, budget>>

\* log_->AddRecord(): a failed call may or may not leave a readable record.
AppendLog(t, ok, landed) ==
  /\ pc[t] = "append"
  /\ FileWrite("log", ok, landed, FALSE)
  /\ logged' = logged \cup
                 (IF landed THEN {<<logfileNumber, w[t].updates>>} ELSE {})
  /\ w' = [w EXCEPT ![t].status = IF ok THEN "ok" ELSE "error"]
  /\ Goto(t, IF ~ok THEN "relock" ELSE IF w[t].sync THEN "sync" ELSE "insert")
  /\ UNCHANGED <<mutex, cvWait, bgWait, writers, range, mem, imm,
                 logfileNumber, synced, lastSequence, manifest, versions,
                 flagVars, bg, historyVars>>

\* logfile_->Sync(): WinFile::Sync() ignores the state of its stream.
SyncLog(t, ok) ==
  LET error == ~ok /\ EnvReports
  IN  /\ pc[t] = "sync"
      /\ MayFail(ok)
      /\ broken' = IF ok THEN broken ELSE broken \cup {"log"}
      /\ synced' = synced \cup
                     (IF ok THEN InCurrentLog ELSE {})
      /\ w' = [w EXCEPT ![t].status = IF error THEN "error" ELSE "ok",
                       ![t].syncError = error]
      /\ Goto(t, IF error THEN "relock" ELSE "insert")
      /\ UNCHANGED <<mutex, cvWait, bgWait, writers, range, mem, imm,
                     logfileNumber, logged, lastSequence, manifest, versions,
                     flagVars, bg, historyVars>>

\* WriteBatchInternal::InsertInto(updates, mem_)
InsertMem(t) ==
  /\ pc[t] = "insert"
  /\ mem' = mem \cup (IF w[t].updates.ops = {} THEN {} ELSE {w[t].updates})
  /\ Goto(t, "relock")
  /\ UNCHANGED <<mutex, cvWait, bgWait, writers, w, range, imm, logfileNumber,
                 logged, synced, lastSequence, diskVars, flagVars, bg,
                 historyVars, budget>>

\* A variant of AdvancedSequence: a failed write leaves the sequence.
AdvanceOnSuccess(v) ==
  IF v.status = "ok" THEN v.updates.seq + Cardinality(v.updates.ops) - 1
  ELSE lastSequence

\* The argument of SetLastSequence, on success and on failure.
AdvancedSequence(v) == v.updates.seq + Cardinality(v.updates.ops) - 1

\* mutex_ is held again: record a sync error; SetLastSequence even on failure.
Complete(t) ==
  /\ pc[t] = "relock" /\ mutex = t
  /\ RecordBackgroundError(~w[t].syncError, bgWait)
  /\ lastSequence' = AdvancedSequence(w[t])
  /\ Goto(t, "pop")
  /\ UNCHANGED <<mutex, cvWait, writers, w, range, mem, imm, logfileNumber,
                 logged, synced, diskVars, suspending, shuttingDown,
                 scheduled, manual, bg, historyVars, budget>>

\* A variant of NewFront: the new front is not woken.
NobodySignalled(rest) == {}

\* The new head of the queue, which is woken.
NewFront(rest) == IF rest = <<>> THEN {} ELSE {Head(rest)}

\* Pop the group, hand its members the status, wake them and the new front.
PopGroup(t) ==
  LET last == w[t].last
      served == {writers[i] : i \in 2..last}
      rest == SubSeq(writers, last + 1, Len(writers))
  IN  /\ pc[t] = "pop" /\ mutex = t
      /\ writers' = rest
      /\ w' = [u \in Clients |->
                 IF u = t THEN IdleWriter
                 ELSE IF u \in served
                 THEN [w[u] EXCEPT !.status = w[t].status, !.done = TRUE]
                 ELSE w[u]]
      /\ cvWait' = cvWait \ (served \cup NewFront(rest))
      /\ Return(t, w[t].status)
      /\ UNCHANGED <<bgWait, range, storeVars, diskVars, flagVars, bg,
                     nextBatch, budget>>
-----------------------------------------------------------------------------
(***************************************************************************)
(* The rest of CompactRange: TEST_CompactMemTable waits for imm_, then     *)
(* TEST_CompactRange runs once per level.                                  *)
(***************************************************************************)
WaitFlushed(t) ==
  /\ pc[t] = "flushing" /\ mutex = t
  /\ imm # NoImm /\ ~bgError
  /\ WaitForBackground(t)

Flushed(t) ==
  /\ pc[t] = "flushing" /\ mutex = t
  /\ imm = NoImm \/ bgError
  /\ mutex' = NULL /\ Goto(t, "ranging")
  /\ UNCHANGED <<cvWait, bgWait, writers, w, range, coreVars, bg, budget>>

\* while (!manual.done && !shutting_down_ && bg_error_.ok())
RangeOver(t) == range[t].done \/ shuttingDown \/ bgError
RangeLoop(t) == pc[t] = "ranging" /\ mutex = t /\ ~RangeOver(t)

RequestManual(t) ==
  /\ RangeLoop(t) /\ manual = NULL
  /\ manual' = t
  /\ UNCHANGED <<storeVars, diskVars, errorVars, suspending, shuttingDown>>
  /\ MaybeScheduleCompaction(scheduled)
  /\ UNCHANGED <<threadVars, writers, w, range, bg, historyVars, budget>>

WaitManual(t) == RangeLoop(t) /\ manual # NULL /\ WaitForBackground(t)

\* A variant of Withdrawn: any request is taken back.
WithdrawnAny(t) == NULL

\* manual_compaction_ once t has left, taking back its own request if it is there
Withdrawn(t) == IF manual = t THEN NULL ELSE manual

EndManual(t) ==
  LET next == [range[t] EXCEPT !.level = @ + 1, !.done = FALSE]
      more == next.level < next.levels
  IN  /\ pc[t] = "ranging" /\ mutex = t /\ RangeOver(t)
      /\ manual' = Withdrawn(t)
      /\ mutex' = NULL
      /\ Goto(t, IF more THEN "ranging" ELSE "idle")
      /\ range' = [range EXCEPT ![t] = IF more THEN next ELSE IdleRange]
      /\ UNCHANGED <<cvWait, bgWait, writers, w, storeVars, diskVars, errorVars,
                     suspending, shuttingDown, scheduled, bg, historyVars,
                     budget>>
-----------------------------------------------------------------------------
(***************************************************************************)
(* SuspendCompaction, ResumeCompaction, the seek statistics of Get, and    *)
(* ~DBImpl, which the caller may only run when no other call is active.    *)
(***************************************************************************)
SuspendCompaction ==
  /\ mutex = NULL /\ ~shuttingDown /\ ~suspending
  /\ Spend("suspends")
  /\ suspending' = TRUE
  /\ UNCHANGED <<threadVars, writers, w, range, storeVars, diskVars, errorVars,
                 shuttingDown, scheduled, manual, bg, historyVars>>

ResumeCompaction ==
  /\ mutex = NULL /\ ~shuttingDown /\ suspending
  /\ suspending' = FALSE
  /\ UNCHANGED <<threadVars, writers, w, range, storeVars, diskVars, errorVars,
                 shuttingDown, scheduled, manual, bg, historyVars, budget>>

\* Get or RecordReadSample exhausts the allowed seeks of a table, of the current
\* version or (Get) of one that has been replaced while it read.
SeekCompaction ==
  /\ mutex = NULL /\ ~shuttingDown /\ versions.tables # {}
  /\ Spend("deepens")
  /\ \E deep \in {TRUE, versions.deep} :
       versions' = [versions EXCEPT !.deep = deep]
  /\ UNCHANGED <<storeVars, manifest, broken, errorVars, suspending,
                 shuttingDown, manual>>
  /\ MaybeScheduleCompaction(scheduled)
  /\ UNCHANGED <<threadVars, writers, w, range, bg, historyVars>>

Close(t) ==
  /\ mutex = NULL /\ ~shuttingDown /\ \A u \in Clients : pc[u] = "idle"
  /\ suspending' = FALSE /\ shuttingDown' = TRUE
  /\ mutex' = t /\ Goto(t, "closing")
  /\ UNCHANGED <<cvWait, bgWait, writers, w, range, storeVars, diskVars,
                 errorVars, scheduled, manual, bg, historyVars, budget>>

\* A variant of StillWorking: the destructor does not wait.
NeverWorking == FALSE

\* while (bg_compaction_scheduled_)
StillWorking == scheduled

WaitClosed(t) ==
  /\ pc[t] = "closing" /\ mutex = t /\ StillWorking
  /\ WaitForBackground(t)

Closed(t) ==
  /\ pc[t] = "closing" /\ mutex = t /\ ~StillWorking
  /\ mutex' = NULL /\ Goto(t, "closed")
  /\ UNCHANGED <<cvWait, bgWait, writers, w, range, coreVars, bg, budget>>
-----------------------------------------------------------------------------
(***************************************************************************)
(* BackgroundCall and BackgroundCompaction on the background thread.       *)
(***************************************************************************)
BGStart ==
  /\ pc[BG] = "idle" /\ scheduled /\ mutex = NULL
  /\ mutex' = BG /\ Goto(BG, "call")
  /\ UNCHANGED <<cvWait, bgWait, writers, w, range, coreVars, bg, budget>>

BGDispatch == pc[BG] = "call" /\ mutex = BG /\ ~shuttingDown /\ ~bgError

\* Nothing to do: shutting down, an error, or PickCompaction returned NULL.
BGNothing ==
  /\ pc[BG] = "call" /\ mutex = BG
  /\ \/ shuttingDown \/ bgError
     \/ imm = NoImm /\ manual = NULL /\ ~NeedsCompaction
  /\ Goto(BG, "tail")
  /\ UNCHANGED <<mutex, cvWait, bgWait, writers, w, range, coreVars, bg,
                 budget>>

\* Unlock and do the work of c; trivial moves go straight to LogAndApply.
Begin(kind, k, isManual, label) ==
  /\ mutex' = NULL /\ Goto(BG, label)
  /\ bg' = [IdleBG EXCEPT !.kind = kind, !.k = k, !.manual = isManual,
                         !.move = (label = "install")]
  /\ UNCHANGED <<cvWait, bgWait, writers, w, range, coreVars>>

BGCompactMemTable ==
  /\ BGDispatch /\ imm # NoImm
  /\ Begin("none", 0, FALSE, "build") /\ UNCHANGED budget

\* versions_->CompactRange(): a piece of the range, at level 0 some of its
\* files.
BGManual ==
  /\ BGDispatch /\ imm = NoImm /\ manual # NULL
  /\ \/ /\ range[manual].level = 0
        /\ \E k \in 1..versions.l0 : Begin("level0", k, TRUE, "compact")
     \/ /\ range[manual].level > 0
        /\ Begin("deep", 0, TRUE, "compact")
  /\ Spend("rounds")

\* versions_->CompactRange() returned NULL: no file overlaps the range.
BGManualDone ==
  /\ BGDispatch /\ imm = NoImm /\ manual # NULL
  /\ range' = [range EXCEPT ![manual].done = TRUE]
  /\ manual' = NULL
  /\ Goto(BG, "tail")
  /\ UNCHANGED <<mutex, cvWait, bgWait, writers, w, storeVars, diskVars,
                 errorVars, suspending, shuttingDown, scheduled, bg,
                 historyVars, budget>>

\* versions_->PickCompaction(): level 0 has too many files, or another level or
\* a file with too many seeks (which may be one of level 0) is due; label
\* "install" is the trivial move of one file.
BGPick(label) ==
  /\ BGDispatch /\ imm = NoImm /\ manual = NULL
  /\ \/ /\ versions.l0 >= CompactionTrigger
        /\ \E k \in 1..versions.l0 :
             (label = "install" => k = 1) /\ Begin("level0", k, FALSE, label)
     \/ /\ versions.deep
        /\ \E k \in 0..versions.l0 :
             (label = "install" => k <= 1) /\ Begin("deep", k, FALSE, label)
  /\ UNCHANGED budget

\* A variant of Reschedule: BackgroundCall schedules nothing further.
NoReschedule == scheduled' = FALSE

\* bg_compaction_scheduled_ = false, then MaybeScheduleCompaction unless suspended
Reschedule ==
  IF suspending THEN scheduled' = FALSE ELSE MaybeScheduleCompaction(FALSE)

\* The end of BackgroundCall.
BGTail ==
  /\ pc[BG] = "tail" /\ mutex = BG
  /\ UNCHANGED <<storeVars, diskVars, errorVars, suspending, shuttingDown,
                 manual>>
  /\ Reschedule
  /\ bgWait' = {}
  /\ mutex' = NULL /\ Goto(BG, "idle")
  /\ bg' = IdleBG
  /\ UNCHANGED <<cvWait, writers, w, range, historyVars, budget>>
-----------------------------------------------------------------------------
(***************************************************************************)
(* CompactMemTable: WriteLevel0Table and LogAndApply run unlocked.  It is  *)
(* called by BackgroundCompaction and, nested, from the loop of            *)
(* DoCompactionWork.                                                       *)
(***************************************************************************)
BuildTable(ok) ==
  /\ pc[BG] = "build"
  /\ MayFail(ok)
  /\ bg' = [bg EXCEPT !.ok = ok]
  /\ Goto(BG, "built")
  /\ UNCHANGED <<mutex, cvWait, bgWait, writers, w, range, coreVars>>

\* Return to the caller: a nested call signals and unlocks.
FlushReturn(ok) ==
  /\ RecordBackgroundError(ok, IF bg.nested THEN {} ELSE bgWait)
  /\ Goto(BG, IF bg.nested THEN "compact" ELSE "tail")
  /\ mutex' = IF bg.nested THEN NULL ELSE BG
  /\ bg' = [bg EXCEPT !.nested = FALSE, !.ok = TRUE]
  /\ UNCHANGED <<cvWait, writers, w, range, suspending, shuttingDown,
                 scheduled, manual, historyVars>>

\* A variant of EditLogNumber: off by one.
NextLogNumber == logfileNumber + 1

\* edit.SetLogNumber(logfile_number_): earlier logs are no longer needed.
EditLogNumber == logfileNumber

\* The table is built: LogAndApply with logfile_number_ as the new log number.
FlushApply ==
  /\ pc[BG] = "built" /\ mutex = BG /\ bg.ok /\ ~shuttingDown
  /\ bg' = [bg EXCEPT !.editLog = EditLogNumber]
  /\ mutex' = NULL /\ Goto(BG, "flushManifest")
  /\ UNCHANGED <<cvWait, bgWait, writers, w, range, coreVars, budget>>

FlushFailed ==
  /\ pc[BG] = "built" /\ mutex = BG
  /\ ~bg.ok \/ shuttingDown
  /\ FlushReturn(FALSE)
  /\ UNCHANGED <<storeVars, diskVars, budget>>

\* descriptor_log_->AddRecord() and Sync(); a failed write may be found on
\* recovery.
FlushManifest(ok, landed) ==
  /\ pc[BG] = "flushManifest"
  /\ FileWrite("manifest", ok, landed, ~EnvReports)
  /\ manifest' = IF landed
                 THEN [log |-> bg.editLog, tables |-> manifest.tables \cup imm]
                 ELSE manifest
  /\ bg' = [bg EXCEPT !.ok = ok]
  /\ Goto(BG, "flushWritten")
  /\ UNCHANGED <<mutex, cvWait, bgWait, writers, w, range, storeVars,
                 versions, flagVars, historyVars>>

\* The new version is installed; the table goes to level 0 or, when nothing
\* overlaps it, deeper; an empty memtable makes no table.  A new version has
\* no file with too many seeks.
FlushInstalled ==
  /\ pc[BG] = "flushWritten" /\ mutex = BG
  /\ \/ /\ bg.ok
        /\ \E level0, deep \in BOOLEAN :
             /\ imm = {} => ~level0
             /\ level0 \/ imm = {} => (deep => versions.deep)
             /\ Deepen(deep, versions.deep)
             /\ versions' = [log |-> bg.editLog,
                             tables |-> versions.tables \cup imm,
                             l0 |-> versions.l0 + (IF level0 THEN 1 ELSE 0),
                             deep |-> deep]
        /\ imm' = NoImm
        /\ FlushReturn(TRUE)
        /\ DeleteObsoleteFiles
        /\ UNCHANGED <<mem, logfileNumber, lastSequence, manifest, broken>>
     \/ /\ ~bg.ok
        /\ FlushReturn(FALSE)
        /\ UNCHANGED <<storeVars, diskVars, budget>>
-----------------------------------------------------------------------------
(***************************************************************************)
(* DoCompactionWork and the installation of a compaction.                  *)
(***************************************************************************)
\* The loop sees has_imm_ and flushes imm_ first.
CompactPrioritizeImm ==
  /\ pc[BG] = "compact" /\ mutex = NULL
  /\ imm # NoImm /\ ~shuttingDown
  /\ bg' = [bg EXCEPT !.nested = TRUE]
  /\ Goto(BG, "build")
  /\ UNCHANGED <<mutex, cvWait, bgWait, writers, w, range, coreVars, budget>>

\* The loop ends: input exhausted, an I/O error, or shutting down.
CompactDone(ok) ==
  /\ pc[BG] = "compact"
  /\ MayFail(ok)
  /\ bg' = [bg EXCEPT !.ok = ok /\ ~shuttingDown]
  /\ Goto(BG, "compacted")
  /\ UNCHANGED <<mutex, cvWait, bgWait, writers, w, range, coreVars>>

\* The end of BackgroundCompaction.  manual_compaction_ is dereferenced: a
\* null pointer there ends the process.
CompactionReturn(ok) ==
  /\ RecordBackgroundError(ok, bgWait)
  /\ Goto(BG, IF bg.manual /\ manual = NULL THEN "crashed" ELSE "tail")
  /\ range' = IF bg.manual /\ manual # NULL /\ ~ok
              THEN [range EXCEPT ![manual].done = TRUE] ELSE range
  /\ manual' = IF bg.manual THEN NULL ELSE manual
  /\ UNCHANGED <<mutex, cvWait, writers, w, suspending, shuttingDown,
                 scheduled, bg, historyVars>>

CompactionApply ==
  /\ pc[BG] = "compacted" /\ mutex = BG /\ bg.ok
  /\ mutex' = NULL /\ Goto(BG, "install")
  /\ UNCHANGED <<cvWait, bgWait, writers, w, range, coreVars, bg, budget>>

\* DeleteObsoleteFiles then finds the error and does nothing.
CompactionFailed ==
  /\ pc[BG] = "compacted" /\ mutex = BG /\ ~bg.ok
  /\ CompactionReturn(FALSE)
  /\ UNCHANGED <<storeVars, diskVars, budget>>

\* The edit of a compaction repeats the log number of the VersionSet.
InstallManifest(ok, landed) ==
  /\ pc[BG] = "install"
  /\ FileWrite("manifest", ok, landed, ~EnvReports)
  /\ manifest' = IF landed THEN [manifest EXCEPT !.log = versions.log]
                 ELSE manifest
  /\ bg' = [bg EXCEPT !.ok = ok]
  /\ Goto(BG, "installed")
  /\ UNCHANGED <<mutex, cvWait, bgWait, writers, w, range, storeVars,
                 versions, flagVars, historyVars>>

\* Input files leave the version, and the next level may be due.  A trivial
\* move deletes nothing.
CompactionInstalled ==
  /\ pc[BG] = "installed" /\ mutex = BG
  /\ \/ /\ bg.ok
        /\ \E deep \in BOOLEAN :
             /\ Deepen(deep, versions.deep /\ (bg.manual \/ bg.kind = "level0"))
             /\ versions' = [versions EXCEPT !.l0 = @ - bg.k, !.deep = deep]
        /\ UNCHANGED <<manifest, broken>>
     \/ ~bg.ok /\ UNCHANGED <<diskVars, budget>>
  /\ CompactionReturn(bg.ok)
  /\ IF bg.move THEN UNCHANGED <<logged, synced>> ELSE DeleteObsoleteFiles
  /\ UNCHANGED <<mem, imm, logfileNumber, lastSequence>>
-----------------------------------------------------------------------------
BackgroundStep ==
  \/ Relock(BG) \/ BGStart \/ BGNothing \/ BGCompactMemTable
  \/ BGManual \/ BGManualDone
  \/ \E label \in {"compact", "install"} : BGPick(label)
  \/ BGTail
  \/ FlushApply \/ FlushFailed \/ FlushInstalled
  \/ CompactPrioritizeImm \/ CompactionApply \/ CompactionFailed
  \/ CompactionInstalled
  \/ \E ok \in BOOLEAN : BuildTable(ok) \/ CompactDone(ok)
  \/ \E ok, landed \in BOOLEAN :
       FlushManifest(ok, landed) \/ InstallManifest(ok, landed)

\* The steps a thread takes once it is inside a call.
ClientStep(t) ==
  \/ Relock(t)
  \/ WaitTurn(t) \/ ReturnServed(t) \/ Lead(t)
  \/ RoomError(t) \/ RoomDelay(t) \/ RoomReady(t) \/ RoomWait(t)
  \/ \E opened \in BOOLEAN : SwitchMemTable(t, opened)
  \/ FormGroup(t) \/ InsertMem(t) \/ Complete(t) \/ PopGroup(t)
  \/ \E ok \in BOOLEAN : SyncLog(t, ok)
  \/ \E ok, landed \in BOOLEAN : AppendLog(t, ok, landed)
  \/ WaitFlushed(t) \/ Flushed(t)
  \/ RequestManual(t) \/ WaitManual(t) \/ EndManual(t)
  \/ WaitClosed(t) \/ Closed(t)

\* What the application decides to do.
Application ==
  \/ \E t \in Clients :
       \/ \E n \in BatchSizes, sync \in BOOLEAN : Write(t, n, sync)
       \/ \E levels \in 1..MaxManualLevels : CompactRange(t, levels)
       \/ Close(t)
       \/ SpuriousWakeup(t)
  \/ SuspendCompaction \/ ResumeCompaction \/ SeekCompaction

\* The database has been deleted.
Finished == (\E t \in Clients : pc[t] = "closed") /\ UNCHANGED vars

Next == Application \/ BackgroundStep \/ (\E t \in Clients : ClientStep(t)) \/ Finished

Spec == Init /\ [][Next]_vars

\* Threads are scheduled: no step a thread can take from inside a call is put
\* off for ever.  Nothing obliges the application to call, or an I/O to fail.
Fairness ==
  /\ WF_vars(BackgroundStep)
  /\ \A t \in Clients : WF_vars(ClientStep(t))

FairSpec == Spec /\ Fairness
-----------------------------------------------------------------------------
(***************************************************************************)
(* Properties.                                                             *)
(***************************************************************************)
ClientLabels == {"idle", "queued", "room", "group", "append", "sync", "insert",
                 "relock", "pop", "flushing", "ranging", "closing", "closed"}
BGLabels == {"idle", "call", "tail", "build", "built", "flushManifest",
             "flushWritten", "compact", "compacted", "install", "installed",
             "crashed"}

WriterType == [batch : Nat, n : Nat, sync : BOOLEAN, done : BOOLEAN,
               status : Status, force : BOOLEAN, delay : BOOLEAN,
               last : Nat \ {0}, updates : Record, syncError : BOOLEAN]
RangeType == [on : BOOLEAN, level : Nat, levels : Nat, done : BOOLEAN,
              target : SUBSET Record]
BGType == [nested : BOOLEAN, kind : {"none", "level0", "deep"}, k : Nat,
           manual : BOOLEAN, move : BOOLEAN, ok : BOOLEAN, editLog : Nat]

ThreadsOK ==
  /\ mutex \in Threads \cup {NULL}
  /\ pc \in [Threads -> ClientLabels \cup BGLabels]
  /\ pc[BG] \in BGLabels /\ \A t \in Clients : pc[t] \in ClientLabels
  /\ cvWait \in SUBSET Clients /\ bgWait \in SUBSET Clients
CallsOK ==
  /\ writers \in Seq(Clients)
  /\ w \in [Clients -> WriterType]
  /\ \A t \in Clients : w[t].batch = 0 => w[t].n = 0
  /\ range \in [Clients -> RangeType]
  /\ bg \in BGType
StoreOK ==
  /\ mem \in SUBSET Record /\ imm \in (SUBSET Record) \cup {NoImm}
  /\ logfileNumber \in Nat
  /\ logged \in SUBSET (Nat \X Record) /\ synced \in SUBSET logged
  /\ lastSequence \in Nat
  /\ broken \in SUBSET {"log", "manifest"}
  /\ manifest \in [log : Nat, tables : SUBSET Record]
  /\ versions \in [log : Nat, tables : SUBSET Record, l0 : Nat, deep : BOOLEAN]
FlagsOK ==
  /\ bgError \in BOOLEAN /\ suspending \in BOOLEAN
  /\ shuttingDown \in BOOLEAN /\ scheduled \in BOOLEAN
  /\ manual \in Clients \cup {NULL}
HistoryOK ==
  /\ nextBatch \in Batch /\ errorBatch \in Nat
  /\ acked \in SUBSET Op /\ ackedSync \in SUBSET acked
  /\ budget \in [Items -> Nat]

\* The state of DBImpl, of the Writers on the clients' stacks, of the logs and
\* of the MANIFEST has the types the code declares.
TypeOK == ThreadsOK /\ CallsOK /\ StoreOK /\ FlagsOK /\ HistoryOK

Imm == IF imm = NoImm THEN {} ELSE imm
LiveLogged(pairs) == {p[2] : p \in {q \in pairs : q[1] >= manifest.log}}
Holds(records, ops) == \A o \in ops : \E r \in records : o \in r.ops

\* An acknowledged write is always in a table the MANIFEST names or in a log
\* file recovery replays, whenever the process ends: through group commit, the
\* memtable switch, the flush, its LogAndApply and DeleteObsoleteFiles.  (That
\* what was handed to the log file also left the process is up to the Env.)
AckedRecoverable == Holds(manifest.tables \cup LiveLogged(logged), acked)

\* A write acknowledged with options.sync is in a table or was covered by a
\* Sync() of its log, also when another writer logged it for its group.
SyncRecoverable == Holds(manifest.tables \cup LiveLogged(synced), ackedSync)

\* A read that starts now finds every acknowledged write in mem_, imm_ or the
\* current version, whichever of the three the flush has moved it to.
AckedReadable == Holds(mem \cup Imm \cup versions.tables, acked)

AllRecords == mem \cup Imm \cup versions.tables \cup manifest.tables
                \cup {p[2] : p \in logged}

\* Sequence numbers follow the order in which Write calls entered writers_, and two
\* records never share one, not even when the first was logged by a Write that
\* failed: Write advances LastSequence all the same.
ArrivalOrder ==
  \A r1, r2 \in AllRecords : \A o1 \in r1.ops, o2 \in r2.ops :
    o1[1] <= o2[1] => r1 = r2 \/ r1.seq + Cardinality(r1.ops) <= r2.seq

\* The comment in Write: the front writer "is currently responsible for logging
\* and protects against concurrent loggers and concurrent writes into mem_".
Leading == {"room", "group", "append", "sync", "insert", "relock", "pop"}
SingleLogger ==
  \A t \in Clients : pc[t] \in Leading => writers # <<>> /\ Head(writers) = t

\* No wakeup is lost in writers_: a thread blocked on its Writer's cv is still
\* queued, not served and not at the front.
NoLostWakeup ==
  \A t \in cvWait :
    /\ pc[t] = "queued" /\ ~w[t].done
    /\ \E i \in 2..Len(writers) : writers[i] = t

\* After a background error every later Write fails: no batch issued after
\* bg_error_ was set is acknowledged ("all future writes fail" in Write).
NoAckAfterError == \A o \in acked : bgError => o[1] < errorBatch

\* The level-0 file count never passes kL0_StopWritesTrigger: one memtable can
\* still be flushed after writes are stopped, and that one is counted.
Level0Bounded ==
  versions.l0 + (IF imm # NoImm THEN 1 ELSE 0) <= StopTrigger

\* Whoever waits on bg_cv_ waits for scheduled work (compaction not suspended).
NoStrandedWaiter == bgWait # {} => scheduled

\* ~DBImpl returns only when no background call is queued or running.
ClosedIsQuiet ==
  (\E t \in Clients : pc[t] = "closed") =>
    ~scheduled /\ pc[BG] = "idle" /\ bgWait = {} /\ writers = <<>>

\* Every Write, CompactRange and close returns: no writer waits for ever for
\* its turn, for room, or for a compaction that never comes.
CallsReturn ==
  \A t \in Clients : pc[t] # "idle" ~> pc[t] \in {"idle", "closed"}
-----------------------------------------------------------------------------
(***************************************************************************)
(* What comments of the repository say and the code does not do.           *)
(***************************************************************************)
\* MakeRoomForWrite: "the previous one is still being compacted, so we wait".
\* A writer that waits for imm_ while compactions are not suspended has one
\* scheduled.
WaitsForCompaction ==
  \A t \in bgWait : pc[t] = "room" /\ imm # NoImm /\ ~suspending => scheduled

\* db_impl.h, TEST_CompactMemTable: "Force current memtable contents to be
\* compacted."  When it returns without an error they are in tables.
ForcesMemTable ==
  [][\A t \in Clients :
       pc[t] = "flushing" /\ pc'[t] = "ranging" /\ ~bgError =>
         range[t].target \subseteq versions.tables]_vars

\* BackgroundCompaction: "Update *m to the range that is left to be compacted":
\* the manual compaction it started is still there.
ManualStillThere == pc[BG] # "crashed"

\* options.h, WriteOptions::sync: "if it is just the process that crashes [...]
\* no writes will be lost even if sync==false".  What a WinFile was given stays
\* in its stream until Sync(): WinFile::Flush() does nothing.
ProcessCrashLosesNothing ==
  Holds(manifest.tables \cup LiveLogged(synced), acked)

=============================================================================
